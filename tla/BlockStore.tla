----------------------------- MODULE BlockStore -----------------------------
(***************************************************************************)
(* What the main memory promises its users, whatever the placement rule:   *)
(* a process that owns nothing may be granted a run of blocks that nobody  *)
(* owns, and may give back all it owns.                                    *)
(***************************************************************************)
EXTENDS Integers

CONSTANTS
  Holders,  \* those who may own memory
  Blocks    \* the blocks of the memory

VARIABLE owned   \* owned[p]: the blocks p owns

\* The runs of consecutive blocks.
Runs == {first .. last : first, last \in Blocks} \ {{}}

StoreInit == owned = [p \in Holders |-> {}]

Grant(p) ==
  /\ owned[p] = {}
  /\ LET granted == owned'[p] IN
       /\ granted \in Runs
       /\ \A x \in Holders : owned[x] \cap granted = {}
       /\ owned' = [owned EXCEPT ![p] = granted]

Release(p) ==
  /\ owned[p] # {}
  /\ owned' = [owned EXCEPT ![p] = {}]

StoreNext == \E p \in Holders : Grant(p) \/ Release(p)

StoreSpec == StoreInit /\ [][StoreNext]_owned

\* No block has two owners.
Exclusive ==
  \A p, x \in Holders : p # x => owned[p] \cap owned[x] = {}
=============================================================================
