------------------------- MODULE ConnectionRegistry -------------------------
(***************************************************************************)
(* What the connection manager promises its callers, without its three     *)
(* Maps: one relation between users and the sockets they are connected     *)
(* with.  A socket belongs to at most one user; a user is online exactly   *)
(* while some socket of theirs is registered.                              *)
(***************************************************************************)
CONSTANTS Users, Sockets

VARIABLE live   \* the pairs <<user, socket>> that are registered

UsersOf(s) == {u \in Users : <<u, s>> \in live}
SocketsOf(u) == {s \in Sockets : <<u, s>> \in live}

isUserOnline(u) == SocketsOf(u) # {}

Init == live = {}

Register(u, s) ==
  /\ UsersOf(s) = {}
  /\ live' = live \cup {<<u, s>>}

Deregister(S) ==
  /\ S # {}
  /\ live' = {p \in live : p[2] \notin S}

Next ==
  \/ \E u \in Users, s \in Sockets : Register(u, s)
  \/ \E S \in SUBSET Sockets : Deregister(S)

Spec == Init /\ [][Next]_live
=============================================================================
