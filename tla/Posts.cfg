\* The author and one reader, so that two saves can bring a reaction of the same
\* user; text or none, a medium, a reaction and its replacement, a comment and a
\* reply, at most two of these rows in an entity; two overlapping requests.  A
\* post left without content can be loaded by nobody: for it everything has ended.
CONSTANTS
  Users = {author, reader}
  Author = author
  Media = {m1}
  Reactions = {r1, r2}
  Types = {like, love}
  Comments = {k1, k2}
  Requests = {q1, q2}
  MaxRows = 2
SYMMETRY Symmetry
SPECIFICATION Spec
INVARIANTS TypeOK SavedExactly UnloadableExplained
CHECK_DEADLOCK FALSE
