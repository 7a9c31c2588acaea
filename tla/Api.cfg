\* Two requests at a time: over one account with two passwords and two
\* profiles; over two users, one post and one comment; three posts of two
\* authors, one of them a moderator, paged one or two at a time; a history
\* of two entries; four messages paged by one, by the default or by minus
\* three; uploads of up to two files under limits of one and two, or of
\* no number, when they end at three rows; one client, as the counts of two
\* have nothing in common, and two HTTP requests, so that one is answered
\* while the report of another is under way, and a store overtakes an
\* eviction.
CONSTANTS
  Requests = {q1, q2}
  Accounts = {a1}
  Passwords = {w1, w2}
  Texts = {t1, t2}
  Authors = {v1, v2}
  Moderators = {v2}
  Asked = {"PRIVATE"}
  Privacies = {"PRIVATE"}
  PageLimits = {1, 2}
  MaxCreated = 3
  Users = {u1, u2}
  Posts = {p1}
  Comments = {c1}
  Ids = {i1, i2}
  MaxFollowed = 3
  Searched = {s1, s2, s3, self}
  Self = self
  MAX_ENTRIES = 2
  MessageIds = {1, 2, 3, 4}
  MaxSent = 4
  Limits <- MCLimits
  DefaultLimit = 2
  MediaLimits = {1}
  MaxFiles = 2
  MaxNamed = 1
  MaxRows = 3
  Clients = {k1}
  InFlight = {h1, h2}
  LimitOf <- MCLimitOf
  CleanupEvery = 1
  MaxTime = 5
  MaxErrors = 1
  CachedUsers = {x1}
  TTL = 2
  MaxHandler = 1
  MaxVersion = 2
  MaxClock = 4
SPECIFICATION MCSpec
SYMMETRY Symmetry
INVARIANTS
  UpdatesKept
  VerifiedByMail
  VerifiedHasPassword
  PostsExplained
  AnnouncedOnce
  UnlistableByPosts
  UnfollowedOnce
  ListsEachOnce
  PagesExplained
  NumberedInOrder
  AtMostTwice
  FailuresReported
  CachedFresh
CHECK_DEADLOCK FALSE
