\* One user with two notifications, of which a bulk use case takes one, two
\* texts, and two overlapping requests.  The last request may leave nothing
\* to be done: ids are used up.
CONSTANTS
  Users = {u1}
  Ids = {n1, n2}
  Texts = {t1, t2}
  Requests = {q1, q2}
  BatchLimit = 1
  AllLimit = 2
SYMMETRY Symmetry
SPECIFICATION Spec
INVARIANTS TypeOK UpdatesKept
PROPERTY MarkAllMarksAll
CHECK_DEADLOCK FALSE
