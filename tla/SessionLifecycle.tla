-------------------------- MODULE SessionLifecycle --------------------------
(***************************************************************************)
(* What the login sessions promise.  A user is logged in at one socket or  *)
(* nowhere.  A user who is somewhere cannot log in elsewhere; a step ends  *)
(* the session of one user, or of every user at one socket, or of everyone *)
(* (when the server starts or stops).                                      *)
(***************************************************************************)
CONSTANTS Users, Sockets, Nowhere

VARIABLE location       \* the socket at which each user is logged in

Init == location = [u \in Users |-> Nowhere]

LogIn(u, socket) == /\ location[u] = Nowhere
                    /\ location' = [location EXCEPT ![u] = socket]

LogOut(u) == location' = [location EXCEPT ![u] = Nowhere]

HangUp(socket) ==
    location' = [u \in Users |-> IF location[u] = socket THEN Nowhere ELSE location[u]]

Reset == location' = [u \in Users |-> Nowhere]

Next == \/ \E u \in Users, socket \in Sockets : LogIn(u, socket)
        \/ \E u \in Users : LogOut(u)
        \/ \E socket \in Sockets : HangUp(socket)
        \/ Reset

Spec == Init /\ [][Next]_location
=============================================================================
