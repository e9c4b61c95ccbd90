------------------------------- MODULE MCHPF -------------------------------
(*****************************************************************************)
(* HPF on small workloads.                                                   *)
(*****************************************************************************)
EXTENDS HPF

ShortRuns == {1, 2}
TwoLevels == {0, 1}
OneOrFourBlocks == {20, 119}
Punctual == {0}
=============================================================================
