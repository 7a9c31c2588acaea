\* One conversation, private or a group, its rows rewritten and its message
\* handled by two overlapping requests: three users, so that a group of two has
\* somebody to add and a private conversation has a user who shares only one of
\* its two members; one message, of one text or edited to another, which is
\* sent, changed, reacted to, read and deleted.  Once it is deleted there is no
\* id left and, with the rows of the conversation lost, nothing to do.
CONSTANTS
  u1 = u1
  u2 = u2
  u3 = u3
  Users = {u1, u2, u3}
  Conversations = {c1}
  Messages = {m1}
  Texts = {t1, t2}
  Requests = {q1, q2}
SPECIFICATION MessagesSpec
INVARIANTS OnlyInvited CreatorIsAdmin PrivateForThePair EditsKept
 
CONSTRAINT Named
CHECK_DEADLOCK FALSE
