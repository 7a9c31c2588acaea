---------------------------- MODULE MCMessages -------------------------------
EXTENDS Messages
CONSTANTS u1, u2, u3

(* Users can be exchanged for one another: it is u1 who creates, and u2    *)
(* who is there from the start.                                            *)
Named ==
  /\ \A c \in DOMAIN creator : creator[c] = u1
  /\ \A c \in Existing : invited[c] \notin {{u1, u3}, {u2, u3}}
=============================================================================
