------------------------------- MODULE MCMLFL -------------------------------
(*****************************************************************************)
(* MLFL on small workloads near the last level.                              *)
(*****************************************************************************)
EXTENDS MLFL

ShortRuns == {1, 2, 3}
SomeQuanta == {3, 5}
LongestRuns == {2, 8}
HighLevels == {0, 1}
LowLevels == {8, 10}
OneOrFourBlocks == {20, 119}
Punctual == {0}
Early == {-1, 0}
Late == {0, 1}
=============================================================================
