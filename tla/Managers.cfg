\* Two users and three sockets, so that one user has two of them; two rooms, so
\* that one is shared and a user is in both; two namespaces, so that a room is
\* asked for again under another; a connection is inactive after one unit of
\* time, so that a cleanup removes some connections and keeps others.
CONSTANTS
  Users = {u1, u2}
  Sockets = {s1, s2, s3}
  Rooms = {r1, r2}
  Namespaces = {SOCIAL, MESSAGING}
  MaxInactive = 1
  MaxNow = 3
SPECIFICATION ManagersSpec
INVARIANTS TypeOK UserIndexExact RoomsTypeOK RoomsMatchUsers ParticipantsCounted
PROPERTY ImplementsRegistry
