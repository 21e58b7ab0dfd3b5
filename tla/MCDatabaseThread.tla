------------------------- MODULE MCDatabaseThread -------------------------
(***************************************************************************)
(* Small instances of DatabaseThread.  Ids, names and sockets are only     *)
(* compared, so every set of model values may be permuted.                 *)
(***************************************************************************)
EXTENDS DatabaseThread, TLC

Symmetry == Permutations(UserIds) \cup Permutations(Names) \cup Permutations(Sockets)
            \cup Permutations(ServerIds) \cup Permutations(ServerNames)

\* Every step writes reply and none reads it.
Tables == <<tables, phase>>
=============================================================================
