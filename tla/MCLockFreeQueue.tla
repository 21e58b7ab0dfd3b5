-------------------------- MODULE MCLockFreeQueue --------------------------
(***************************************************************************)
(* Small instances of LockFreeQueue.                                       *)
(***************************************************************************)
EXTENDS LockFreeQueue, TLC

Symmetry == Permutations(Nodes) \cup Permutations(Producers)
=============================================================================
