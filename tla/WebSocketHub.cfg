\* Two users and two sockets, which may be both of one user, as all are in the
\* program as shipped; one conversation and one post.
CONSTANTS
  Users = {u1, u2}
  Sockets = {s1, s2}
  Conversations = {c1}
  Posts = {p1}
  NoStatus = NoStatus
  Said = {"busy"}
SYMMETRY Symmetry
SPECIFICATION Spec
INVARIANTS GoneIsOffline CountedSocketsReceive
