-------------------------- MODULE MCServerPipeline --------------------------
(***************************************************************************)
(* Small instances of ServerPipeline: what the clients may send.           *)
(***************************************************************************)
EXTENDS ServerPipeline, TLC

AllKinds == TaskKinds
AnySocket == CHOOSE k \in Sockets : TRUE

Logins == {[kind |-> "Login", socket |-> AnySocket, valid |-> TRUE, name |-> n, password |-> TRUE]
             : n \in Names}
Hostings == {[kind |-> "CreateGameServer", socket |-> AnySocket, valid |-> TRUE, user |-> u,
              server_name |-> n] : u \in UserIds, n \in ServerNames}
Rejoins == {[kind |-> "JoinGameServer", socket |-> AnySocket, valid |-> TRUE, user |-> u,
             server |-> s, password |-> FALSE] : u \in UserIds, s \in ServerIds}
BadPackets == {[kind |-> "Malformed", socket |-> AnySocket]}

\* sends succeed, clients host and rejoin servers
Calm == [requests |-> Logins \cup Hostings \cup Rejoins, sends |-> {"sent"}, urgent |-> FALSE,
         slow |-> FALSE]

\* whatever may go wrong on a connection does
Rough == [requests |-> Logins \cup BadPackets, sends |-> {"sent", "full", "broken"},
          urgent |-> TRUE, slow |-> FALSE]

\* clients log in, and what they send comes in parts
Slow == [Calm EXCEPT !.requests = Logins, !.slow = TRUE]

EverySetting == [calm |-> Calm, rough |-> Rough, slow |-> Slow]
SlowOnly == [slow |-> Slow]

Symmetry == Permutations(Conns) \cup Permutations(Workers) \cup Permutations(Sockets)

\* Every step writes reply and none reads it.
Moment == <<tables, pipes>>
=============================================================================
