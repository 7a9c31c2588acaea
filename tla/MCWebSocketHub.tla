--------------------------- MODULE MCWebSocketHub ---------------------------
(* WebSocketHub under TLC: interchangeable constants.                      *)
EXTENDS WebSocketHub, TLC

Symmetry == Permutations(Users) \cup Permutations(Sockets)
=============================================================================
