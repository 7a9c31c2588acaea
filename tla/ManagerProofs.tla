---------------------------- MODULE ManagerProofs ---------------------------
(***************************************************************************)
(* The two managers of the websocket gateway for every set of users,       *)
(* sockets, rooms and namespaces.  Of ConnectionManager: its types, the    *)
(* exactness of its two indexes, the health check, and that it implements  *)
(* ConnectionRegistry.  Of RoomManager: its types, and that its three Maps *)
(* agree.                                                                  *)
(***************************************************************************)
EXTENDS ConnectionManager, RoomManager, MapTheorems, FiniteSetTheorems

IInv == TypeOK /\ UserIndexExact /\ NamespaceIndexExact

-----------------------------------------------------------------------------
(* The initial state, and one lemma per way the Maps change.               *)
LEMMA InitIInv == Init => IInv
  BY DEF Init, IInv, TypeOK, UserIndexExact, NamespaceIndexExact, IsMap

LEMMA AddIInv ==
  ASSUME IInv, NEW u \in Users, NEW s \in Sockets, NEW n \in Namespaces,
         addConnection(u, s, n)
  PROVE  IInv'
<1>1. TypeOK'
  <2> DEFINE c == [userId |-> u, namespace |-> n, lastActivity |-> now]
  <2>1. c \in Connection
    BY DEF Connection, IInv, TypeOK
  <2>2. IsMap(connections', Sockets, Connection)
    BY <2>1, WithType DEF addConnection, IInv, TypeOK
  <2>3. GetOr(userConnections, u, {}) \cup {s} \in SUBSET Sockets
    BY GetOrType DEF IInv, TypeOK
  <2>4. GetOr(namespaceConnections, n, {}) \cup {s} \in SUBSET Sockets
    BY GetOrType DEF IInv, TypeOK
  <2>5. IsMap(userConnections', Users, SUBSET Sockets)
    BY <2>3, WithType DEF addConnection, IInv, TypeOK
  <2>6. IsMap(namespaceConnections', Namespaces, SUBSET Sockets)
    BY <2>4, WithType DEF addConnection, IInv, TypeOK
  <2> QED
    BY <2>2, <2>5, <2>6 DEF addConnection, IInv, TypeOK
<1>2. UserIndexExact'
  BY DEF addConnection, IInv, TypeOK, UserIndexExact, With, GetOr, IsMap
<1>3. NamespaceIndexExact'
  BY DEF addConnection, IInv, TypeOK, NamespaceIndexExact, With, GetOr, IsMap
<1> QED
  BY <1>1, <1>2, <1>3 DEF IInv

LEMMA RemoveSocketsIInv ==
  ASSUME IInv, NEW S \in SUBSET DOMAIN connections, RemoveSockets(S)
  PROVE  IInv'
<1>1. TypeOK'
  <2>1. IsMap(connections', Sockets, Connection)
    BY WithoutType DEF RemoveSockets, IInv, TypeOK
  <2>2. IsMap(userConnections', Users, SUBSET Sockets)
    BY DEF RemoveSockets, IInv, TypeOK, IsMap, UserIndexWithout
  <2>3. IsMap(namespaceConnections', Namespaces, SUBSET Sockets)
    BY DEF RemoveSockets, IInv, TypeOK, IsMap, NamespaceIndexWithout
  <2> QED
    BY <2>1, <2>2, <2>3 DEF RemoveSockets, IInv, TypeOK
<1>2. UserIndexExact'
  BY DEF RemoveSockets, IInv, TypeOK, IsMap, UserIndexExact, UserIndexWithout,
         OfUser, Without, Restrict
<1>3. NamespaceIndexExact'
  BY DEF RemoveSockets, IInv, TypeOK, IsMap, NamespaceIndexExact,
         NamespaceIndexWithout, OfNamespace, Without, Restrict
<1> QED
  BY <1>1, <1>2, <1>3 DEF IInv

LEMMA RemoveUserIInv ==
  ASSUME IInv, NEW u \in Users, removeUserConnections(u)
  PROVE  IInv'
<1>1. TypeOK'
  <2>1. IsMap(connections', Sockets, Connection)
    BY WithoutType DEF removeUserConnections, IInv, TypeOK
  <2>2. IsMap(userConnections', Users, SUBSET Sockets)
    BY WithoutType DEF removeUserConnections, IInv, TypeOK
  <2>3. IsMap(namespaceConnections', Namespaces, SUBSET Sockets)
    BY DEF removeUserConnections, IInv, TypeOK, IsMap, NamespaceIndexWithout
  <2> QED
    BY <2>1, <2>2, <2>3 DEF removeUserConnections, IInv, TypeOK
<1>2. UserIndexExact'
  BY DEF removeUserConnections, IInv, TypeOK, IsMap, UserIndexExact,
         Without, Restrict
<1>3. NamespaceIndexExact'
  BY DEF removeUserConnections, IInv, TypeOK, IsMap, NamespaceIndexExact,
         NamespaceIndexWithout, OfNamespace, Without, Restrict
<1> QED
  BY <1>1, <1>2, <1>3 DEF IInv

LEMMA TouchIInv ==
  ASSUME IInv, NEW S, Touch(S)
  PROVE  IInv'
<1>1. \A s \in DOMAIN connections :
        /\ connections'[s] \in Connection
        /\ connections'[s].userId = connections[s].userId
        /\ connections'[s].namespace = connections[s].namespace
  BY DEF Touch, IInv, TypeOK, IsMap, Connection
<1>2. DOMAIN connections' = DOMAIN connections
  BY DEF Touch
<1>3. TypeOK'
  BY <1>1, <1>2 DEF Touch, IInv, TypeOK, IsMap
<1> QED
  BY <1>1, <1>2, <1>3 DEF Touch, IInv, UserIndexExact, NamespaceIndexExact

-----------------------------------------------------------------------------
LEMMA NextIInv == IInv /\ [Next]_vars => IInv'
<1> SUFFICES ASSUME IInv, [Next]_vars PROVE IInv'
  OBVIOUS
<1>1. CASE \E u \in Users, s \in Sockets, n \in Namespaces : addConnection(u, s, n)
  BY <1>1, AddIInv
<1>2. ASSUME NEW s \in Sockets, removeConnection(s) PROVE IInv'
  BY <1>2, RemoveSocketsIInv DEF removeConnection
<1>3. CASE \E s \in Sockets : removeConnection(s)
  BY <1>2, <1>3
<1>4. CASE \E u \in Users, s \in Sockets : removeConnectionAsync(u, s)
  BY <1>2, <1>4 DEF removeConnectionAsync
<1>5. CASE \E u \in Users : removeUserConnections(u)
  BY <1>5, RemoveUserIInv
<1>6. CASE cleanupInactiveConnections
  BY <1>6, RemoveSocketsIInv DEF cleanupInactiveConnections
<1>7. CASE \E s \in Sockets : updateLastActivity(s)
  BY <1>7, TouchIInv DEF updateLastActivity
<1>8. CASE \E u \in Users : updateUserActivity(u)
  BY <1>8, TouchIInv DEF updateUserActivity
<1>9. CASE Tick
  BY <1>9 DEF Tick, maps, IInv, TypeOK, UserIndexExact, NamespaceIndexExact
<1>10. CASE UNCHANGED vars
  BY <1>10 DEF vars, IInv, TypeOK, UserIndexExact, NamespaceIndexExact
<1> QED
  BY <1>1, <1>3, <1>4, <1>5, <1>6, <1>7, <1>8, <1>9, <1>10 DEF Next

LEMMA SpecIInv == Spec => []IInv
  BY InitIInv, NextIInv, PTL DEF Spec

(* The three Maps keep their types, after any sequence of the methods.     *)
THEOREM MapsKeepTypes == Spec => []TypeOK
<1>1. IInv => TypeOK
  BY DEF IInv
<1> QED
  BY <1>1, SpecIInv, PTL

(* The two indexes list exactly the registered sockets.                    *)
THEOREM IndexesExact == Spec => [](UserIndexExact /\ NamespaceIndexExact)
<1>1. IInv => UserIndexExact /\ NamespaceIndexExact
  BY DEF IInv
<1> QED
  BY <1>1, SpecIInv, PTL

-----------------------------------------------------------------------------
(* A user of the index is mapped to one of their sockets; the exactness of *)
(* the index makes that map injective.                                     *)
LEMMA IInvHealthy == IInv /\ IsFiniteSet(Sockets) => AlwaysHealthy
<1> SUFFICES ASSUME IInv, IsFiniteSet(Sockets) PROVE AlwaysHealthy
  OBVIOUS
<1> DEFINE U == DOMAIN userConnections
           S == DOMAIN connections
           f == [u \in U |-> CHOOSE s \in userConnections[u] : TRUE]
<1>1. IsFiniteSet(S)
  BY FS_Subset DEF IInv, TypeOK, IsMap
<1>2. \A u \in U : f[u] \in userConnections[u]
  BY DEF IInv, UserIndexExact
<1>3. \A u \in U : f[u] \in S /\ connections[f[u]].userId = u
  BY <1>2 DEF IInv, TypeOK, IsMap, UserIndexExact
<1>4. f \in Injection(U, S)
  BY <1>3 DEF Injection, IsInjective
<1>5. Cardinality(U) <= Cardinality(S)
  BY <1>1, <1>4, FS_Injection
<1> QED
  BY <1>1, <1>4, <1>5, FS_Injection, FS_CardinalityType DEF AlwaysHealthy, healthy

(* With finitely many sockets, healthCheck never reports unhealthy.        *)
THEOREM HealthCheckNeverFails ==
  ASSUME IsFiniteSet(Sockets)
  PROVE  Spec => []AlwaysHealthy
<1>1. IInv => AlwaysHealthy
  BY IInvHealthy
<1> QED
  BY <1>1, SpecIInv, PTL

-----------------------------------------------------------------------------
(* The registry's relation, read through connections: with exact indexes   *)
(* it is the one ImplementsRegistry reads through userConnections.         *)
LiveByUser == {p \in Users \X Sockets :
                 /\ p[1] \in DOMAIN userConnections
                 /\ p[2] \in userConnections[p[1]]}

LEMMA LiveFacts ==
  ASSUME IInv
  PROVE  \A u \in Users, s \in Sockets :
           <<u, s>> \in LiveByUser <=>
             (s \in DOMAIN connections /\ connections[s].userId = u)
  BY DEF IInv, UserIndexExact, LiveByUser

LEMMA RemovalStep ==
  ASSUME IInv, IInv', NEW S \in SUBSET DOMAIN connections, S # {},
         connections' = Without(connections, S)
  PROVE  Registry!Deregister(S)
<1>1. DOMAIN connections' = DOMAIN connections \ S
  BY WithoutFacts
<1>2. \A s \in DOMAIN connections' : connections'[s] = connections[s]
  BY <1>1, WithoutFacts
<1>3. LiveByUser' = {p \in LiveByUser : p[2] \notin S}
  <2>1. \A u \in Users, s \in Sockets :
          <<u, s>> \in LiveByUser' <=> <<u, s>> \in LiveByUser /\ s \notin S
    <3>1. \A u \in Users, s \in Sockets :
            <<u, s>> \in LiveByUser' <=>
              (s \in DOMAIN connections' /\ connections'[s].userId = u)
      BY DEF IInv, UserIndexExact, LiveByUser
    <3>2. \A u \in Users, s \in Sockets :
            <<u, s>> \in LiveByUser <=>
              (s \in DOMAIN connections /\ connections[s].userId = u)
      BY LiveFacts
    <3> SUFFICES ASSUME NEW u \in Users, NEW s \in Sockets
                 PROVE  <<u, s>> \in LiveByUser' <=> <<u, s>> \in LiveByUser /\ s \notin S
      OBVIOUS
    <3>3. CASE s \in DOMAIN connections'
      BY <1>1, <1>2, <3>1, <3>2, <3>3
    <3>4. CASE s \notin DOMAIN connections'
      BY <1>1, <3>1, <3>2, <3>4
    <3> QED
      BY <3>3, <3>4
  <2>2. LiveByUser' \subseteq Users \X Sockets /\ LiveByUser \subseteq Users \X Sockets
    BY DEF LiveByUser
  <2> QED
    BY <2>1, <2>2
<1> QED
  BY <1>3 DEF Registry!Deregister, LiveByUser

LEMMA RegistrationStep ==
  ASSUME IInv, IInv', NEW u \in Users, NEW s \in Sockets, NEW n \in Namespaces,
         addConnection(u, s, n)
  PROVE  Registry!Register(u, s)
<1>1. DOMAIN connections' = DOMAIN connections \cup {s} /\ connections'[s].userId = u
  BY DEF addConnection, With
<1>2. \A t \in DOMAIN connections : connections'[t] = connections[t]
  BY DEF addConnection, With
<1>3. \A v \in Users, t \in Sockets :
        <<v, t>> \in LiveByUser' <=>
          (t \in DOMAIN connections' /\ connections'[t].userId = v)
  BY DEF IInv, UserIndexExact, LiveByUser
<1>4. \A v \in Users, t \in Sockets :
        <<v, t>> \in LiveByUser <=>
          (t \in DOMAIN connections /\ connections[t].userId = v)
  BY LiveFacts
<1>5. s \notin DOMAIN connections
  BY DEF addConnection
<1>6. Registry!UsersOf(s) = {}
  BY <1>4, <1>5 DEF Registry!UsersOf, LiveByUser
<1>7. LiveByUser' = LiveByUser \cup {<<u, s>>}
  <2>1. \A v \in Users, t \in Sockets :
          <<v, t>> \in LiveByUser' <=> (<<v, t>> \in LiveByUser \/ (v = u /\ t = s))
    <3> SUFFICES ASSUME NEW v \in Users, NEW t \in Sockets
                 PROVE  <<v, t>> \in LiveByUser' <=>
                          (<<v, t>> \in LiveByUser \/ (v = u /\ t = s))
      OBVIOUS
    <3>1. CASE t = s
      BY <1>1, <1>3, <1>4, <1>5, <3>1
    <3>2. CASE t # s /\ t \in DOMAIN connections
      BY <1>1, <1>2, <1>3, <1>4, <3>2
    <3>3. CASE t # s /\ t \notin DOMAIN connections
      BY <1>1, <1>3, <1>4, <3>3
    <3> QED
      BY <3>1, <3>2, <3>3
  <2>2. LiveByUser' \subseteq Users \X Sockets /\ LiveByUser \subseteq Users \X Sockets
    BY DEF LiveByUser
  <2> QED
    BY <2>1, <2>2
<1> QED
  BY <1>6, <1>7 DEF Registry!Register, LiveByUser

(* Steps that change no user index leave the registry as it was.           *)
LEMMA StutterStep == UNCHANGED userConnections => UNCHANGED LiveByUser
  BY DEF LiveByUser

LEMMA StepImplementsRegistry ==
  IInv /\ IInv' /\ [Next]_vars => [Registry!Next]_LiveByUser
<1> SUFFICES ASSUME IInv, IInv', [Next]_vars
             PROVE  Registry!Next \/ UNCHANGED LiveByUser
  OBVIOUS
<1>1. ASSUME NEW u \in Users, NEW s \in Sockets, NEW n \in Namespaces,
             addConnection(u, s, n)
      PROVE  Registry!Next
  BY <1>1, RegistrationStep DEF Registry!Next
<1>2. ASSUME NEW S \in SUBSET DOMAIN connections, S # {},
             connections' = Without(connections, S)
      PROVE  Registry!Next
  <2>1. S \in SUBSET Sockets
    BY DEF IInv, TypeOK, IsMap
  <2> QED
    BY <1>2, <2>1, RemovalStep DEF Registry!Next
<1>3. ASSUME NEW s \in Sockets, removeConnection(s) PROVE Registry!Next
  BY <1>2, <1>3 DEF removeConnection, RemoveSockets
<1>4. ASSUME NEW u \in Users, removeUserConnections(u) PROVE Registry!Next
  <2>1. userConnections[u] \subseteq DOMAIN connections /\ userConnections[u] # {}
    BY <1>4 DEF removeUserConnections, IInv, TypeOK, IsMap, UserIndexExact
  <2> QED
    BY <1>2, <1>4, <2>1 DEF removeUserConnections
<1>5. CASE cleanupInactiveConnections
  BY <1>2, <1>5 DEF cleanupInactiveConnections, RemoveSockets
<1>6. CASE \E s \in Sockets : updateLastActivity(s)
  BY <1>6, StutterStep DEF updateLastActivity, Touch
<1>7. CASE \E u \in Users : updateUserActivity(u)
  BY <1>7, StutterStep DEF updateUserActivity, Touch
<1>8. CASE Tick
  BY <1>8, StutterStep DEF Tick, maps
<1>9. CASE UNCHANGED vars
  BY <1>9, StutterStep DEF vars
<1> QED
  BY <1>1, <1>3, <1>4, <1>5, <1>6, <1>7, <1>8, <1>9 DEF Next, removeConnectionAsync

(* Every method of the three Maps is one registration, one deregistration  *)
(* of a set of sockets, or no step of the abstract registry.               *)
THEOREM MapsImplementRegistry == Spec => ImplementsRegistry
<1>1. Init => Registry!Init
  BY DEF Init, Registry!Init
<1>2. IInv /\ IInv' /\ [Next]_vars => [Registry!Next]_LiveByUser
  BY StepImplementsRegistry
<1> QED
  BY <1>1, <1>2, SpecIInv, PTL DEF Spec, ImplementsRegistry, Registry!Spec, LiveByUser

-----------------------------------------------------------------------------
(* RoomManager.  Every method is an operator on a book of rooms, so each   *)
(* has a lemma of its own, which the actions of RoomManager, and of any    *)
(* module that composes several methods in one handler, cite.              *)
Consistent(m) ==
  /\ IsRoomBook(m)
  /\ MembershipAgrees(m)
  /\ NoRoomlessUser(m)
  /\ NamespaceAgrees(m)

-----------------------------------------------------------------------------
LEMMA EmptyConsistent == Consistent(EmptyBook)
  BY DEF Consistent, IsRoomBook, EmptyBook, Empty, IsMap, MembershipAgrees,
         NoRoomlessUser, NamespaceAgrees

LEMMA CreateConsistent ==
  ASSUME NEW m, Consistent(m), NEW r \in Rooms, NEW n \in Namespaces
  PROVE  Consistent(createIfMissing(m, r, n))
<1>1. CASE r \in DOMAIN m.rooms
  BY <1>1 DEF createIfMissing
<1>2. CASE r \notin DOMAIN m.rooms
  <2> DEFINE new == [namespace |-> n, participants |-> {}, sockets |-> {}]
             k == createRoom(m, r, n)
  <2>1. k = [rooms |-> With(m.rooms, r, new), userRooms |-> m.userRooms,
             namespaceRooms |->
               With(m.namespaceRooms, n, GetOr(m.namespaceRooms, n, {}) \cup {r})]
    BY DEF createRoom
  <2>2. new \in Room
    BY DEF Room
  <2>3. IsMap(k.rooms, Rooms, Room)
    BY <2>1, <2>2, WithType DEF Consistent, IsRoomBook
  <2>4. GetOr(m.namespaceRooms, n, {}) \cup {r} \in SUBSET Rooms
    BY GetOrType DEF Consistent, IsRoomBook
  <2>5. IsMap(k.namespaceRooms, Namespaces, SUBSET Rooms)
    BY <2>1, <2>4, WithType DEF Consistent, IsRoomBook
  <2>6. IsRoomBook(k)
    BY <2>1, <2>3, <2>5 DEF Consistent, IsRoomBook
  <2>7. MembershipAgrees(k)
    BY <1>2, <2>1 DEF Consistent, IsRoomBook, IsMap, MembershipAgrees, With
  <2>8. NoRoomlessUser(k)
    BY <2>1 DEF Consistent, NoRoomlessUser
  <2>9. NamespaceAgrees(k)
    BY <1>2, <2>1 DEF Consistent, IsRoomBook, IsMap, NamespaceAgrees, With, GetOr
  <2> QED
    BY <1>2, <2>6, <2>7, <2>8, <2>9 DEF Consistent, createIfMissing
<1> QED
  BY <1>1, <1>2

LEMMA JoinConsistent ==
  ASSUME NEW m, Consistent(m), NEW r \in Rooms, NEW u \in Users, NEW s \in Sockets
  PROVE  Consistent(joinRoom(m, r, u, s))
<1>1. CASE r \notin DOMAIN m.rooms
  BY <1>1 DEF joinRoom
<1>2. CASE r \in DOMAIN m.rooms
  <2> DEFINE room == [m.rooms[r] EXCEPT !.participants = @ \cup {u},
                                        !.sockets = @ \cup {s}]
             k == joinRoom(m, r, u, s)
  <2>1. k = [rooms |-> With(m.rooms, r, room),
             userRooms |-> With(m.userRooms, u, GetOr(m.userRooms, u, {}) \cup {r}),
             namespaceRooms |-> m.namespaceRooms]
    BY <1>2 DEF joinRoom, Consistent, IsRoomBook
  <2>2. /\ room \in Room
        /\ room.namespace = m.rooms[r].namespace
        /\ room.participants = m.rooms[r].participants \cup {u}
    BY <1>2 DEF Consistent, IsRoomBook, IsMap, Room
  <2>3. IsMap(k.rooms, Rooms, Room)
    BY <2>1, <2>2, WithType DEF Consistent, IsRoomBook
  <2>4. GetOr(m.userRooms, u, {}) \cup {r} \in SUBSET Rooms
    BY GetOrType DEF Consistent, IsRoomBook
  <2>5. IsMap(k.userRooms, Users, SUBSET Rooms)
    BY <2>1, <2>4, WithType DEF Consistent, IsRoomBook
  <2>6. IsRoomBook(k)
    BY <2>1, <2>3, <2>5 DEF Consistent, IsRoomBook
  <2> HIDE DEF room
  <2>7. MembershipAgrees(k)
    BY <1>2, <2>1, <2>2 DEF Consistent, IsRoomBook, IsMap, MembershipAgrees, With, GetOr
  <2>8. NoRoomlessUser(k)
    BY <2>1 DEF Consistent, NoRoomlessUser, With, GetOr
  <2>9. NamespaceAgrees(k)
    BY <1>2, <2>1, <2>2 DEF Consistent, IsRoomBook, IsMap, NamespaceAgrees, With
  <2> QED
    BY <2>6, <2>7, <2>8, <2>9 DEF Consistent
<1> QED
  BY <1>1, <1>2

-----------------------------------------------------------------------------
(* What dropping the rooms of D from the users of U leaves.                *)
Listing(ur) == IsMap(ur, Users, SUBSET Rooms) /\ \A u \in DOMAIN ur : ur[u] # {}

Drops(ur, lr, U, D) ==
  /\ Listing(lr)
  /\ \A u \in Users, r \in Rooms :
       (u \in DOMAIN lr /\ r \in lr[u])
         <=> /\ u \in DOMAIN ur /\ r \in ur[u]
             /\ ~(u \in U /\ r \in D)

LEMMA LeaveRoomsFacts ==
  ASSUME NEW ur, Listing(ur), NEW U, NEW D
  PROVE  Drops(ur, LeaveRooms(ur, U, D), U, D)
  BY DEF Listing, Drops, LeaveRooms, IsMap

LEMMA LeaveConsistent ==
  ASSUME NEW m, Consistent(m), NEW r \in Rooms, NEW u \in Users, NEW s \in Sockets
  PROVE  Consistent(leaveRoom(m, r, u, s))
<1>1. CASE r \notin DOMAIN m.rooms
  BY <1>1 DEF leaveRoom
<1>2. CASE r \in DOMAIN m.rooms
  <2> DEFINE left == m.rooms[r].sockets \ {s}
             gone == socketsCountedAsUsers(left) = {}
             room == [m.rooms[r] EXCEPT !.sockets = left,
                                        !.participants = IF gone THEN @ \ {u} ELSE @]
             k == leaveRoom(m, r, u, s)
  <2>1. k = [rooms |-> With(m.rooms, r, room),
             userRooms |-> IF gone THEN LeaveRooms(m.userRooms, {u}, {r}) ELSE m.userRooms,
             namespaceRooms |-> m.namespaceRooms]
    BY <1>2 DEF leaveRoom, Consistent, IsRoomBook
  <2>2. /\ room \in Room
        /\ room.namespace = m.rooms[r].namespace
        /\ room.participants =
             IF gone THEN m.rooms[r].participants \ {u} ELSE m.rooms[r].participants
    BY <1>2 DEF Consistent, IsRoomBook, IsMap, Room
  <2> HIDE DEF room, gone
  <2>3. IsMap(k.rooms, Rooms, Room)
    BY <2>1, <2>2, WithType DEF Consistent, IsRoomBook
  <2>4. /\ IsMap(k.userRooms, Users, SUBSET Rooms)
        /\ NoRoomlessUser(k)
        /\ \A v \in Users, q \in Rooms :
             (v \in DOMAIN k.userRooms /\ q \in k.userRooms[v])
               <=> /\ v \in DOMAIN m.userRooms /\ q \in m.userRooms[v]
                   /\ ~(gone /\ v = u /\ q = r)
    <3>1. Listing(m.userRooms)
      BY DEF Consistent, IsRoomBook, NoRoomlessUser, Listing
    <3>2. CASE gone
      <4>1. k.userRooms = LeaveRooms(m.userRooms, {u}, {r})
        BY <2>1, <3>2
      <4>2. Drops(m.userRooms, k.userRooms, {u}, {r})
        BY <3>1, <4>1, LeaveRoomsFacts
      <4> QED
        BY <3>2, <4>2 DEF NoRoomlessUser, Drops, Listing
    <3>3. CASE ~gone
      BY <2>1, <3>1, <3>3 DEF NoRoomlessUser, Listing
    <3> QED
      BY <3>2, <3>3
  <2>5. IsRoomBook(k)
    BY <2>1, <2>3, <2>4 DEF Consistent, IsRoomBook
  <2>6. MembershipAgrees(k)
    <3> SUFFICES ASSUME NEW v \in Users, NEW q \in Rooms
                 PROVE  (q \in DOMAIN k.rooms /\ v \in k.rooms[q].participants)
                          <=> (v \in DOMAIN k.userRooms /\ q \in k.userRooms[v])
      BY DEF MembershipAgrees
    <3>1. (q \in DOMAIN m.rooms /\ v \in m.rooms[q].participants)
             <=> (v \in DOMAIN m.userRooms /\ q \in m.userRooms[v])
      BY DEF Consistent, MembershipAgrees
    <3>2. DOMAIN k.rooms = DOMAIN m.rooms
            /\ k.rooms[q] = IF q = r THEN room
                            ELSE IF q \in DOMAIN m.rooms THEN m.rooms[q] ELSE k.rooms[q]
      BY <1>2, <2>1 DEF With
    <3>3. CASE q = r
      BY <1>2, <2>2, <2>4, <3>1, <3>2, <3>3
    <3>4. CASE q # r
      BY <2>4, <3>1, <3>2, <3>4
    <3> QED
      BY <3>3, <3>4
  <2>7. NamespaceAgrees(k)
    BY <1>2, <2>1, <2>2 DEF Consistent, IsRoomBook, IsMap, NamespaceAgrees, With
  <2> QED
    BY <2>4, <2>5, <2>6, <2>7 DEF Consistent
<1> QED
  BY <1>1, <1>2

LEMMA DeleteConsistent ==
  ASSUME NEW m, Consistent(m), NEW r \in Rooms
  PROVE  Consistent(deleteRoom(m, r))
<1>1. CASE r \notin DOMAIN m.rooms
  BY <1>1 DEF deleteRoom
<1>2. CASE r \in DOMAIN m.rooms
  <2> DEFINE n == m.rooms[r].namespace
             P == m.rooms[r].participants
             lr == LeaveRooms(m.userRooms, P, {r})
             nr == m.namespaceRooms
             k == deleteRoom(m, r)
  <2>1. k = [rooms |-> Without(m.rooms, {r}),
             userRooms |-> lr,
             namespaceRooms |-> [x \in DOMAIN nr |-> IF x = n THEN nr[x] \ {r} ELSE nr[x]]]
    BY <1>2 DEF deleteRoom
  <2>2. IsMap(k.rooms, Rooms, Room)
    BY <2>1, WithoutType DEF Consistent, IsRoomBook
  <2>3. Listing(m.userRooms)
    BY DEF Consistent, IsRoomBook, NoRoomlessUser, Listing
  <2>4. Drops(m.userRooms, lr, P, {r})
    BY <2>3, LeaveRoomsFacts
  <2> HIDE DEF lr, k
  <2>5. IsMap(k.namespaceRooms, Namespaces, SUBSET Rooms)
    BY <2>1 DEF Consistent, IsRoomBook, IsMap
  <2>6. IsRoomBook(k)
    BY <2>1, <2>2, <2>4, <2>5 DEF IsRoomBook, Drops, Listing
  <2>7. NoRoomlessUser(k)
    BY <2>1, <2>4 DEF NoRoomlessUser, Drops, Listing
  <2>8. DOMAIN k.rooms = DOMAIN m.rooms \ {r}
          /\ \A q \in DOMAIN m.rooms \ {r} : k.rooms[q] = m.rooms[q]
    BY <2>1 DEF Without, Restrict
  <2>9. MembershipAgrees(k)
    BY <1>2, <2>1, <2>4, <2>8 DEF Consistent, MembershipAgrees, Drops
  <2>10. NamespaceAgrees(k)
    <3> SUFFICES ASSUME NEW x \in Namespaces, NEW q \in Rooms
                 PROVE  (x \in DOMAIN k.namespaceRooms /\ q \in k.namespaceRooms[x])
                          <=> (q \in DOMAIN k.rooms /\ k.rooms[q].namespace = x)
      BY DEF NamespaceAgrees
    <3>1. (x \in DOMAIN nr /\ q \in nr[x]) <=> (q \in DOMAIN m.rooms /\ m.rooms[q].namespace = x)
      BY DEF Consistent, NamespaceAgrees
    <3>2. DOMAIN k.namespaceRooms = DOMAIN nr
            /\ (x \in DOMAIN nr => k.namespaceRooms[x] = IF x = n THEN nr[x] \ {r} ELSE nr[x])
      BY <2>1
    <3>3. CASE q = r
      BY <2>8, <3>1, <3>2, <3>3
    <3>4. CASE q # r
      BY <2>8, <3>1, <3>2, <3>4
    <3> QED
      BY <3>3, <3>4
  <2> QED
    BY <2>6, <2>7, <2>9, <2>10 DEF Consistent, k
<1> QED
  BY <1>1, <1>2

(* The clean-up leaves userRooms alone, which is right only because an     *)
(* empty room has no participants to forget it.                            *)
LEMMA CleanupConsistent ==
  ASSUME NEW m, Consistent(m)
  PROVE  Consistent(cleanupEmptyRooms(m))
<1> DEFINE E == EmptyRooms(m)
           nr == m.namespaceRooms
           k == cleanupEmptyRooms(m)
<1>1. k = [rooms |-> Without(m.rooms, E), userRooms |-> m.userRooms,
           namespaceRooms |->
             [n \in DOMAIN nr |-> nr[n] \ {r \in E : m.rooms[r].namespace = n}]]
  BY DEF cleanupEmptyRooms
<1> HIDE DEF k, E
<1>2. IsMap(k.rooms, Rooms, Room)
  BY <1>1, WithoutType DEF Consistent, IsRoomBook
<1>3. IsMap(k.namespaceRooms, Namespaces, SUBSET Rooms)
  BY <1>1 DEF Consistent, IsRoomBook, IsMap
<1>4. IsRoomBook(k)
  BY <1>1, <1>2, <1>3 DEF Consistent, IsRoomBook
<1>5. DOMAIN k.rooms = DOMAIN m.rooms \ E
        /\ \A q \in DOMAIN m.rooms \ E : k.rooms[q] = m.rooms[q]
  BY <1>1 DEF Without, Restrict
<1>6. MembershipAgrees(k)
  BY <1>1, <1>5 DEF Consistent, MembershipAgrees, EmptyRooms, E
<1>7. NamespaceAgrees(k)
  BY <1>1, <1>5 DEF Consistent, IsRoomBook, IsMap, NamespaceAgrees
<1>8. NoRoomlessUser(k)
  BY <1>1 DEF Consistent, NoRoomlessUser
<1> QED
  BY <1>4, <1>6, <1>7, <1>8 DEF Consistent, k

LEMMA RemoveConsistent ==
  ASSUME NEW m, Consistent(m), NEW u \in Users
  PROVE  Consistent(removeUserFromAllRooms(m, u))
<1>1. CASE u \notin DOMAIN m.userRooms
  BY <1>1 DEF removeUserFromAllRooms
<1>2. CASE u \in DOMAIN m.userRooms
  <2> DEFINE rs == m.rooms
             left(r) == IF r \in m.userRooms[u]
                        THEN [rs[r] EXCEPT !.participants = @ \ {u}] ELSE rs[r]
             k == removeUserFromAllRooms(m, u)
  <2>1. k = [rooms |-> [r \in DOMAIN rs |-> left(r)],
             userRooms |-> Without(m.userRooms, {u}),
             namespaceRooms |-> m.namespaceRooms]
    BY <1>2 DEF removeUserFromAllRooms
  <2>2. \A r \in DOMAIN rs :
          /\ left(r) \in Room
          /\ left(r).namespace = rs[r].namespace
          /\ left(r).participants = IF r \in m.userRooms[u] THEN rs[r].participants \ {u}
                                                            ELSE rs[r].participants
    BY DEF Consistent, IsRoomBook, IsMap, Room
  <2> HIDE DEF left, k
  <2>3. IsMap(k.rooms, Rooms, Room)
    BY <2>1, <2>2 DEF Consistent, IsRoomBook, IsMap
  <2>4. IsMap(k.userRooms, Users, SUBSET Rooms)
    BY <2>1, WithoutType DEF Consistent, IsRoomBook
  <2>5. IsRoomBook(k)
    BY <2>1, <2>3, <2>4 DEF Consistent, IsRoomBook
  <2>6. DOMAIN k.userRooms = DOMAIN m.userRooms \ {u}
          /\ \A v \in DOMAIN m.userRooms \ {u} : k.userRooms[v] = m.userRooms[v]
    BY <2>1 DEF Without, Restrict
  <2>7. MembershipAgrees(k)
    <3> SUFFICES ASSUME NEW v \in Users, NEW q \in Rooms
                 PROVE  (q \in DOMAIN k.rooms /\ v \in k.rooms[q].participants)
                          <=> (v \in DOMAIN k.userRooms /\ q \in k.userRooms[v])
      BY DEF MembershipAgrees
    <3>1. (q \in DOMAIN m.rooms /\ v \in m.rooms[q].participants)
             <=> (v \in DOMAIN m.userRooms /\ q \in m.userRooms[v])
      BY DEF Consistent, MembershipAgrees
    <3>2. (q \in DOMAIN m.rooms /\ u \in m.rooms[q].participants) => q \in m.userRooms[u]
      BY <1>2 DEF Consistent, MembershipAgrees
    <3>3. DOMAIN k.rooms = DOMAIN rs /\ (q \in DOMAIN rs => k.rooms[q] = left(q))
      BY <2>1
    <3>4. CASE v = u
      BY <2>2, <2>6, <3>2, <3>3, <3>4
    <3>5. CASE v # u
      BY <2>2, <2>6, <3>1, <3>3, <3>5
    <3> QED
      BY <3>4, <3>5
  <2>8. NoRoomlessUser(k)
    BY <2>6 DEF Consistent, NoRoomlessUser
  <2>9. NamespaceAgrees(k)
    BY <2>1, <2>2 DEF Consistent, NamespaceAgrees
  <2> QED
    BY <2>5, <2>7, <2>8, <2>9 DEF Consistent, k
<1> QED
  BY <1>1, <1>2

-----------------------------------------------------------------------------
RmConsistent == Consistent(rm)

LEMMA NextConsistent == RmConsistent /\ [RoomsNext]_rm => RmConsistent'
<1> SUFFICES ASSUME Consistent(rm), [RoomsNext]_rm PROVE Consistent(rm')
  BY DEF RmConsistent
<1>1. CASE \E r \in Rooms, n \in Namespaces : CreateRoom(r, n)
  BY <1>1, CreateConsistent DEF CreateRoom
<1>2. CASE \E r \in Rooms, u \in Users, s \in Sockets : JoinRoom(r, u, s)
  BY <1>2, JoinConsistent DEF JoinRoom
<1>3. CASE \E r \in Rooms, u \in Users, s \in Sockets : LeaveRoom(r, u, s)
  BY <1>3, LeaveConsistent DEF LeaveRoom
<1>4. CASE \E r \in Rooms : DeleteRoom(r)
  BY <1>4, DeleteConsistent DEF DeleteRoom
<1>5. CASE CleanupEmptyRooms
  BY <1>5, CleanupConsistent DEF CleanupEmptyRooms
<1>6. CASE \E u \in Users : RemoveUserFromAllRooms(u)
  BY <1>6, RemoveConsistent DEF RemoveUserFromAllRooms
<1>7. CASE UNCHANGED rm
  BY <1>7
<1> QED
  BY <1>1, <1>2, <1>3, <1>4, <1>5, <1>6, <1>7 DEF RoomsNext

LEMMA AlwaysConsistent == RoomsSpec => []RmConsistent
<1>1. RoomsInit => RmConsistent
  BY EmptyConsistent DEF RoomsInit, RmConsistent
<1>2. RmConsistent /\ [RoomsNext]_rm => RmConsistent'
  BY NextConsistent
<1> QED
  BY <1>1, <1>2, PTL DEF RoomsSpec

(* The Maps keep their types, after any sequence of the methods.           *)
THEOREM BookKeepsTypes == RoomsSpec => []RoomsTypeOK
<1>1. RmConsistent => RoomsTypeOK
  BY DEF RmConsistent, Consistent, RoomsTypeOK
<1> QED
  BY <1>1, AlwaysConsistent, PTL

(* Rooms and users agree on who is in which room.                          *)
THEOREM MembershipNeverDrifts == RoomsSpec => []RoomsMatchUsers
<1>1. RmConsistent => RoomsMatchUsers
  BY DEF RmConsistent, Consistent, RoomsMatchUsers
<1> QED
  BY <1>1, AlwaysConsistent, PTL

(* The namespace index never lists a deleted room and misses no room.      *)
THEOREM NamespaceIndexNeverDrifts == RoomsSpec => []RoomsMatchNamespaces
<1>1. RmConsistent => RoomsMatchNamespaces
  BY DEF RmConsistent, Consistent, RoomsMatchNamespaces
<1> QED
  BY <1>1, AlwaysConsistent, PTL

(* totalParticipants of getRoomStats is the number of users in some room.  *)
THEOREM ParticipantCountExact == RoomsSpec => []ParticipantsCounted
<1>1. RmConsistent => ParticipantsCounted
  BY DEF RmConsistent, Consistent, IsRoomBook, IsMap, Room, MembershipAgrees, NoRoomlessUser,
         ParticipantsCounted
<1> QED
  BY <1>1, AlwaysConsistent, PTL
=============================================================================
