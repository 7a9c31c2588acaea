---------------------------- MODULE WebSocketIds ----------------------------
(***************************************************************************)
(* What both managers of shared/websocket/core name: the users and sockets *)
(* by their ids, and the namespaces.                                       *)
(***************************************************************************)
CONSTANTS Users, Sockets, Namespaces
=============================================================================
