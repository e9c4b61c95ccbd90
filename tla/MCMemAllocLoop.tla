--------------------------- MODULE MCMemAllocLoop ---------------------------
(***************************************************************************)
(* MemAllocLoop on every state of a memory of 16 blocks.                   *)
(***************************************************************************)
EXTENDS MemAllocLoop

Sizes == {20, 64, 119, 256, 512}
=============================================================================
