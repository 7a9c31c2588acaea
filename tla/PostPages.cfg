\* Two authors, one of them a moderator, and two posts.
CONSTANTS
  Users = {u1, u2}
  Moderators = {u2}
  Asked = {"PUBLIC", "FOLLOWERS", "PRIVATE", "undefined"}
  Privacies = {"PUBLIC", "PRIVATE"}
  PageLimits = {2}
  MaxCreated = 2
SPECIFICATION Spec
INVARIANTS PrivateStaysPrivate
CHECK_DEADLOCK FALSE
