\* Two users, so that a bulk job has two targets; two notifications, so that a
\* job that stalls can store one again; one job of each kind the processor tells
\* apart, one HTTP request.
CONSTANTS
  Users = {u1, u2}
  Ids = {n1, n2}
  Texts = {t1}
  Requests = {q1}
  BatchLimit = 1
  AllLimit = 2
  Jobs = {j1}
  Names = {"create-notify", "create-notification", "comment-notification", "bulk-notification"}
  MaxStalled = 1
SPECIFICATION FairDeliverySpec
INVARIANTS RowsPerJob PushedIsStored
PROPERTY JobsEnd
