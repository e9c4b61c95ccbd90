------------------------- MODULE MCRoundRobinSystem -------------------------
(***************************************************************************)
(* The system on the smallest files in which the processes meet.           *)
(***************************************************************************)
EXTENDS RoundRobinSystem

ShortRuns == {1, 2}
OneSecond == {1}
OneLevel == {0}
OneBlock == {20}
OneOrAllBlocks == {20, 255}
TwoSeconds == {1, 2}
AroundArrival == {-1, 0, 1}
=============================================================================
