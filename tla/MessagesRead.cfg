\* A message is sent, and who received it marks the conversation as read.
CONSTANTS
  u1 = u1
  u2 = u2
  u3 = u3
  Users = {u1, u2, u3}
  Conversations = {c1}
  Messages = {m1}
  Texts = {t1, t2}
  Requests = {q1, q2}
SPECIFICATION MessagesSpec
PROPERTY ReadAllReads
CONSTRAINT Named
