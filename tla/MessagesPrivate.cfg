\* Three users, of whom two share a private conversation that the third asks
\* for together with both.
CONSTANTS
  u1 = u1
  u2 = u2
  u3 = u3
  Users = {u1, u2, u3}
  Conversations = {c1}
  Messages = {m1}
  Texts = {t1, t2}
  Requests = {q1, q2}
SPECIFICATION MessagesSpec
INVARIANT PrivateForTheAsker
CONSTRAINT Named
