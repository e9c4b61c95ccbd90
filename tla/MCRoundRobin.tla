---------------------------- MODULE MCRoundRobin ----------------------------
(*****************************************************************************)
(* RoundRobin on small workloads.                                            *)
(*****************************************************************************)
EXTENDS RoundRobinLinked

ShortRuns == {1, 2, 3}
TwoRuns == {1, 3}
OneLevel == {0}
OneOrFourBlocks == {20, 119}
Punctual == {0}
Early == {-1, 0}
Late == {0, 1}
=============================================================================
