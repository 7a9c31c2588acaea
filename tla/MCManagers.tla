----------------------------- MODULE MCManagers -----------------------------
(***************************************************************************)
(* Both managers for TLC, one at a time: they share no state.  How their   *)
(* methods are called together is what WebSocketHub adds.                  *)
(***************************************************************************)
EXTENDS ConnectionManager, RoomManager

VARIABLE part \* the manager that runs

ManagersInit == Init /\ RoomsInit /\ part \in {"connections", "rooms"}

ManagersNext ==
  /\ UNCHANGED part
  /\ \/ part = "connections" /\ Next /\ UNCHANGED rm
     \/ part = "rooms" /\ RoomsNext /\ UNCHANGED vars

ManagersSpec == ManagersInit /\ [][ManagersNext]_<<vars, rm, part>>
=============================================================================
