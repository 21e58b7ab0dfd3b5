---------------------------- MODULE MCGameClient ----------------------------
(***************************************************************************)
(* Small instances of GameClient: every user has the same account.         *)
(***************************************************************************)
EXTENDS GameClient

SharedAccount == [c \in Clients |-> CHOOSE n \in Names : TRUE]
=============================================================================
