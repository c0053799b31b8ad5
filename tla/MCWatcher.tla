----------------------------- MODULE MCWatcher -----------------------------
(* Small instances of Watcher: every deposit is one satoshi of one user.   *)
EXTENDS Watcher, TLC

CONSTANT u1

OneOwner   == [d \in Deposits |-> u1]
OneSatoshi == [d \in Deposits |-> 1]
Symmetry   == Permutations(Nodes) \cup Permutations(Deposits)
=============================================================================
