-------------------------- MODULE MCMemoryManager --------------------------
(***************************************************************************)
(* MemoryManager with the real memory: 32 blocks, requests of 1 to 32      *)
(* blocks, and a few holders.                                              *)
(***************************************************************************)
EXTENDS MemoryManager, TLC

Sizes == {20, 64, 119, 512, 1024}

Symmetry == Permutations(Holders)
=============================================================================
