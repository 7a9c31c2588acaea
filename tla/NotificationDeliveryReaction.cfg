\* The only producer in the repository, and its job.
CONSTANTS
  Users = {u1, u2}
  Ids = {n1}
  Texts = {t1}
  Requests = {q1}
  BatchLimit = 1
  AllLimit = 1
  Jobs = {j1}
  Names = {"create-notify", "reaction-notification"}
  MaxStalled = 1
SPECIFICATION DeliverySpec
INVARIANT ReactionNotified
