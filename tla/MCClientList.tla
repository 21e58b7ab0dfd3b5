---------------------------- MODULE MCClientList ----------------------------
(***************************************************************************)
(* Small instances of ClientList.                                          *)
(***************************************************************************)
EXTENDS ClientList, TLC

Symmetry == Permutations(Clients)
=============================================================================
