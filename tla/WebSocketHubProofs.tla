------------------------- MODULE WebSocketHubProofs -------------------------
(***************************************************************************)
(* The websocket gateway for every number of users, sockets, conversations *)
(* and posts.  What the managers promise one call at a time is proved of   *)
(* them already, and cited here for handlers that make several calls: MP   *)
(* is the managers with their theorems.                                    *)
(***************************************************************************)
EXTENDS WebSocketHub, MapTheorems

MP == INSTANCE ManagerProofs WITH now <- 0, MaxInactive <- 0, MaxNow <- 0

SocketsIn(m, r) == IF r \in DOMAIN m.rooms THEN m.rooms[r].sockets ELSE {}

(* A socket the room manager counts in a room was connected once, and, if  *)
(* it is open still, is in that room of socket.io.  Sockets that closed    *)
(* stay in the room manager's sets; as no id is given out twice, they do   *)
(* not open again.                                                         *)
SocketsSound ==
  /\ fresh \subseteq Sockets
  /\ open \subseteq Sockets \ fresh
  /\ joined \in [Sockets -> SUBSET Rooms]
  /\ DOMAIN connections = open
  /\ \A r \in Rooms : \A t \in SocketsIn(rm, r) :
       t \notin fresh /\ (t \in open => r \in joined[t])

(* Whoever is stored as offline, gone or not, was announced so last or has *)
(* set a status since; whoever is gone is stored as offline.               *)
PresenceSound ==
  /\ IsMap(userPresence, Users, Statuses)
  /\ announced \in [Users -> Statuses \cup {NoStatus}]
  /\ restated \subseteq Users
  /\ \A u \in Users : GetOr(userPresence, u, "offline") = "offline" =>
       announced[u] \in {"offline", NoStatus} \/ u \in restated
  /\ \A u \in Users : u \notin DOMAIN userConnections =>
       GetOr(userPresence, u, "offline") = "offline"

ManagersAgree == MP!IInv /\ MP!Consistent(rm)

IInv == ManagersAgree /\ SocketsSound /\ PresenceSound

-----------------------------------------------------------------------------
(* The methods of the managers, as the handlers and as the theorems about  *)
(* the managers name them.                                                 *)
LEMMA SameBooks ==
  ASSUME NEW m, NEW r, NEW u, NEW s, NEW n
  PROVE  /\ R!createIfMissing(m, r, n) = MP!createIfMissing(m, r, n)
         /\ R!joinRoom(m, r, u, s) = MP!joinRoom(m, r, u, s)
         /\ R!leaveRoom(m, r, u, s) = MP!leaveRoom(m, r, u, s)
         /\ R!removeUserFromAllRooms(m, u) = MP!removeUserFromAllRooms(m, u)
  BY DEF R!createIfMissing, R!createRoom, R!joinRoom, R!leaveRoom, R!socketsCountedAsUsers,
         R!LeaveRooms, R!removeUserFromAllRooms, R!With, R!GetOr, R!Without, R!Restrict,
         MP!createIfMissing, MP!createRoom, MP!joinRoom, MP!leaveRoom,
         MP!socketsCountedAsUsers, MP!LeaveRooms, MP!removeUserFromAllRooms, MP!With,
         MP!GetOr, MP!Without, MP!Restrict

LEMMA SameAdd ==
  ASSUME NEW u, NEW s, NEW n, C!addConnection(u, s, n)
  PROVE  MP!addConnection(u, s, n)
  BY DEF C!addConnection, MP!addConnection, C!With, MP!With, C!GetOr, MP!GetOr

LEMMA SameRemove ==
  ASSUME NEW u, NEW s, C!removeConnectionAsync(u, s)
  PROVE  MP!RemoveSockets({s}) /\ s \in DOMAIN connections
  BY DEF C!removeConnectionAsync, C!removeConnection, C!RemoveSockets, MP!RemoveSockets,
         C!Without, MP!Without, C!Restrict, MP!Restrict, C!UserIndexWithout,
         MP!UserIndexWithout, C!NamespaceIndexWithout, MP!NamespaceIndexWithout,
         C!OfUser, MP!OfUser, C!OfNamespace, MP!OfNamespace

(* Types of the room manager, spelt out.                                   *)
LEMMA BookFacts ==
  ASSUME NEW m, MP!Consistent(m)
  PROVE  /\ m = [rooms |-> m.rooms, userRooms |-> m.userRooms,
                 namespaceRooms |-> m.namespaceRooms]
         /\ DOMAIN m.rooms \subseteq Rooms
         /\ \A r \in DOMAIN m.rooms :
              /\ m.rooms[r] = [namespace |-> m.rooms[r].namespace,
                               participants |-> m.rooms[r].participants,
                               sockets |-> m.rooms[r].sockets]
              /\ m.rooms[r].sockets \subseteq Sockets
  BY DEF MP!Consistent, MP!IsRoomBook, MP!IsMap, MP!Room

(* Which sockets each method leaves in which room.                         *)
LEMMA CreateSockets ==
  ASSUME NEW m, NEW r, NEW n, NEW x
  PROVE  SocketsIn(MP!createIfMissing(m, r, n), x) = SocketsIn(m, x)
  BY DEF SocketsIn, MP!createIfMissing, MP!createRoom, MP!With

LEMMA JoinSockets ==
  ASSUME NEW m, MP!Consistent(m), NEW r, NEW u, NEW s, NEW x
  PROVE  SocketsIn(MP!joinRoom(m, r, u, s), x) \subseteq
           SocketsIn(m, x) \cup (IF x = r THEN {s} ELSE {})
<1>1. CASE r \notin DOMAIN m.rooms
  BY <1>1 DEF MP!joinRoom
<1>2. CASE r \in DOMAIN m.rooms
  <2>1. PICK room : room = [m.rooms[r] EXCEPT !.participants = @ \cup {u}, !.sockets = @ \cup {s}]
    OBVIOUS
  <2>2. room.sockets = m.rooms[r].sockets \cup {s}
    BY <1>2, <2>1, BookFacts
  <2>3. MP!joinRoom(m, r, u, s).rooms = MP!With(m.rooms, r, room)
    BY <1>2, <2>1, BookFacts DEF MP!joinRoom
  <2> QED
    BY <1>2, <2>2, <2>3 DEF SocketsIn, MP!With
<1> QED
  BY <1>1, <1>2

LEMMA LeaveSockets ==
  ASSUME NEW m, MP!Consistent(m), NEW r, NEW u, NEW s, NEW x
  PROVE  SocketsIn(MP!leaveRoom(m, r, u, s), x) =
           SocketsIn(m, x) \ (IF x = r THEN {s} ELSE {})
<1>1. CASE r \notin DOMAIN m.rooms
  BY <1>1 DEF MP!leaveRoom, SocketsIn
<1>2. CASE r \in DOMAIN m.rooms
  <2>1. PICK left : left = m.rooms[r].sockets \ {s}
    OBVIOUS
  <2>2. PICK room : room = [m.rooms[r] EXCEPT
                              !.sockets = left,
                              !.participants = IF MP!socketsCountedAsUsers(left) = {}
                                               THEN @ \ {u} ELSE @]
    OBVIOUS
  <2>3. room.sockets = left
    BY <1>2, <2>2, BookFacts
  <2>4. MP!leaveRoom(m, r, u, s).rooms = MP!With(m.rooms, r, room)
    BY <1>2, <2>1, <2>2, BookFacts DEF MP!leaveRoom
  <2> QED
    BY <1>2, <2>1, <2>3, <2>4 DEF SocketsIn, MP!With
<1> QED
  BY <1>1, <1>2

LEMMA RemoveSockets ==
  ASSUME NEW m, MP!Consistent(m), NEW u, NEW x
  PROVE  SocketsIn(MP!removeUserFromAllRooms(m, u), x) = SocketsIn(m, x)
  BY BookFacts DEF SocketsIn, MP!removeUserFromAllRooms

-----------------------------------------------------------------------------
(* One status stored: whoever loses the last socket with it is stored as   *)
(* offline by it.                                                          *)
LEMMA UpdateStep ==
  ASSUME PresenceSound, NEW u \in Users, NEW status \in Statuses,
         updatePresence(u, status),
         u \notin DOMAIN userConnections' => status = "offline",
         \A v \in Users \ {u} :
           v \notin DOMAIN userConnections' => v \notin DOMAIN userConnections
  PROVE  PresenceSound'
<1>1. /\ GetOr(userPresence, u, "offline")' = status
      /\ \A v \in Users \ {u} :
           GetOr(userPresence, v, "offline")' = GetOr(userPresence, v, "offline")
  BY DEF updatePresence, With, GetOr
<1>2. IsMap(userPresence', Users, Statuses)
  BY WithType DEF updatePresence, PresenceSound
<1>3. announced' \in [Users -> Statuses \cup {NoStatus}] /\ restated' \subseteq Users
  BY DEF updatePresence, PresenceSound
<1>4. \A v \in Users \ {u} :
        announced'[v] = announced[v] /\ (v \in restated' <=> v \in restated)
  BY DEF updatePresence, PresenceSound
<1>5. status = "offline" => announced'[u] \in {"offline", NoStatus} \/ u \in restated'
  <2>1. CASE GetOr(userPresence, u, NoStatus) # status
    BY <2>1 DEF updatePresence, PresenceSound
  <2>2. CASE GetOr(userPresence, u, NoStatus) = status
    <3>1. GetOr(userPresence, u, "offline") = status
      BY <2>2, StatusAssumption DEF GetOr
    <3> QED
      BY <2>2, <3>1 DEF updatePresence, PresenceSound
  <2> QED
    BY <2>1, <2>2
<1> QED
  BY <1>1, <1>2, <1>3, <1>4, <1>5 DEF PresenceSound

(* A room's sockets change by one open socket at most, which socket.io has *)
(* put into that room.                                                     *)
LEMMA SocketsStep ==
  ASSUME SocketsSound, NEW r, NEW s \in open',
         fresh' \subseteq fresh, open' \subseteq Sockets \ fresh',
         open' \subseteq open \cup {s}, DOMAIN connections' = open',
         joined' \in [Sockets -> SUBSET Rooms], r \in joined'[s],
         s \in open \cup fresh,
         \A t \in open : \A x \in Rooms : x \in joined[t] => x \in joined'[t],
         \A x \in Rooms :
           SocketsIn(rm', x) \subseteq SocketsIn(rm, x) \cup (IF x = r THEN {s} ELSE {})
  PROVE  SocketsSound'
<1>1. ASSUME NEW x \in Rooms, NEW t \in SocketsIn(rm', x)
      PROVE  t \notin fresh' /\ (t \in open' => x \in joined'[t])
  <2>1. CASE t \in SocketsIn(rm, x)
    BY <2>1 DEF SocketsSound
  <2>2. CASE t = s /\ x = r
    BY <2>2
  <2> QED
    BY <1>1, <2>1, <2>2
<1> QED
  BY <1>1 DEF SocketsSound, SocketsIn

-----------------------------------------------------------------------------
(* What the invariant says of the sender of an event.                      *)
LEMMA Sender ==
  ASSUME IInv, NEW s \in open \cap DOMAIN connections
  PROVE  s \in Sockets /\ s \notin fresh /\ connections[s].userId \in Users
  BY DEF IInv, ManagersAgree, SocketsSound, MP!IInv, MP!TypeOK, MP!IsMap, MP!Connection

(* A user is in the index while one of the user's sockets is registered.   *)
LEMMA IndexKeys ==
  ASSUME MP!IInv, NEW u \in Users
  PROVE  u \in DOMAIN userConnections <=>
           \E s \in DOMAIN connections : connections[s].userId = u
  BY DEF MP!IInv, MP!TypeOK, MP!IsMap, MP!UserIndexExact

LEMMA RegistryUnchanged == MP!IInv /\ UNCHANGED connVars => MP!IInv'
  BY DEF connVars, MP!IInv, MP!TypeOK, MP!UserIndexExact, MP!NamespaceIndexExact, MP!IsMap,
         MP!Connection

LEMMA PresenceUnchanged ==
  PresenceSound /\ UNCHANGED presVars /\ UNCHANGED userConnections => PresenceSound'
  BY DEF presVars, PresenceSound, GetOr

LEMMA UserRoomIsRoom == \A u \in Users : UserRoom(u) \in Rooms
  BY DEF Rooms

-----------------------------------------------------------------------------
LEMMA InitIInv == Init => IInv
<1> SUFFICES ASSUME Init PROVE IInv
  OBVIOUS
<1>1. MP!Init
  BY DEF Init, MP!Init, R!Empty
<1>2. rm = MP!EmptyBook
  BY DEF Init, R!RoomsInit, R!EmptyBook, R!Empty, MP!EmptyBook, MP!Empty
<1>3. ManagersAgree
  BY <1>1, <1>2, MP!InitIInv, MP!EmptyConsistent DEF ManagersAgree
<1>4. SocketsSound
  BY <1>2 DEF Init, R!Empty, SocketsSound, SocketsIn, MP!EmptyBook, MP!Empty
<1>5. PresenceSound
  BY DEF Init, R!Empty, PresenceSound, IsMap, GetOr
<1> QED
  BY <1>3, <1>4, <1>5 DEF IInv

LEMMA RejectStep ==
  ASSUME IInv, NEW s \in Sockets, rejectConnection(s)
  PROVE  IInv'
<1>1. ManagersAgree'
  BY RegistryUnchanged DEF IInv, ManagersAgree, rejectConnection
<1>2. SocketsSound'
  BY DEF IInv, SocketsSound, SocketsIn, rejectConnection, connVars
<1>3. PresenceSound'
  BY PresenceUnchanged DEF IInv, rejectConnection, connVars
<1> QED
  BY <1>1, <1>2, <1>3 DEF IInv

(* The user's room after the four calls that set it up.                    *)
LEMMA SetupFacts ==
  ASSUME MP!Consistent(rm), NEW u \in Users, NEW s \in Sockets
  PROVE  /\ MP!Consistent(setupUserRooms(rm, u, s))
         /\ \A x \in Rooms :
              SocketsIn(setupUserRooms(rm, u, s), x) \subseteq
                SocketsIn(rm, x) \cup (IF x = UserRoom(u) THEN {s} ELSE {})
<1> DEFINE r == UserRoom(u)
<1>1. PICK m1 : m1 = MP!createIfMissing(rm, r, "SOCIAL")
  OBVIOUS
<1>2. PICK m2 : m2 = MP!joinRoom(m1, r, u, s)
  OBVIOUS
<1>3. PICK m3 : m3 = MP!createIfMissing(m2, r, "PRESENCE")
  OBVIOUS
<1>4. PICK m4 : m4 = MP!joinRoom(m3, r, u, s)
  OBVIOUS
<1>5. r \in Rooms /\ "SOCIAL" \in Namespaces /\ "PRESENCE" \in Namespaces
  BY UserRoomIsRoom DEF Namespaces
<1>6. setupUserRooms(rm, u, s) = m4
  BY <1>1, <1>2, <1>3, <1>4, SameBooks DEF setupUserRooms
<1> HIDE DEF r
<1>7. MP!Consistent(m1)
  BY <1>1, <1>5, MP!CreateConsistent
<1>8. MP!Consistent(m2)
  BY <1>2, <1>5, <1>7, MP!JoinConsistent
<1>9. MP!Consistent(m3)
  BY <1>3, <1>5, <1>8, MP!CreateConsistent
<1>10. MP!Consistent(m4)
  BY <1>4, <1>5, <1>9, MP!JoinConsistent
<1>11. ASSUME NEW x \in Rooms
       PROVE  SocketsIn(m4, x) \subseteq SocketsIn(rm, x) \cup (IF x = r THEN {s} ELSE {})
  <2>1. SocketsIn(m1, x) = SocketsIn(rm, x)
    BY <1>1, CreateSockets
  <2>2. SocketsIn(m2, x) \subseteq SocketsIn(m1, x) \cup (IF x = r THEN {s} ELSE {})
    BY <1>2, <1>7, JoinSockets
  <2>3. SocketsIn(m3, x) = SocketsIn(m2, x)
    BY <1>3, CreateSockets
  <2>4. SocketsIn(m4, x) \subseteq SocketsIn(m3, x) \cup (IF x = r THEN {s} ELSE {})
    BY <1>4, <1>9, JoinSockets
  <2> QED
    BY <2>1, <2>2, <2>3, <2>4
<1> QED
  BY <1>6, <1>10, <1>11 DEF r

LEMMA ConnectStep ==
  ASSUME IInv, NEW s \in Sockets, NEW u \in Users, handleConnection(s, u)
  PROVE  IInv'
<1>1. MP!addConnection(u, s, "SOCIAL") /\ "SOCIAL" \in Namespaces
  BY SameAdd DEF handleConnection, Namespaces
<1>2. MP!IInv'
  BY <1>1, MP!AddIInv DEF IInv, ManagersAgree
<1>3. /\ DOMAIN connections' = DOMAIN connections \cup {s}
      /\ DOMAIN userConnections' = DOMAIN userConnections \cup {u}
  BY <1>1 DEF MP!addConnection, MP!With
<1>4. ManagersAgree'
  BY <1>2, SetupFacts DEF IInv, ManagersAgree, handleConnection
<1>5. SocketsSound'
  <2>1. \A x \in Rooms : SocketsIn(rm', x) \subseteq
          SocketsIn(rm, x) \cup (IF x = UserRoom(u) THEN {s} ELSE {})
    BY SetupFacts DEF IInv, ManagersAgree, handleConnection
  <2>2. UserRoom(u) \in Rooms
    BY UserRoomIsRoom
  <2>3. PICK r : r = UserRoom(u)
    OBVIOUS
  <2>4. /\ s \in fresh /\ fresh' = fresh \ {s} /\ open' = open \cup {s}
        /\ joined' = [joined EXCEPT ![s] = @ \cup {r}]
    BY <2>3 DEF handleConnection
  <2> QED
    BY <1>3, <2>1, <2>2, <2>3, <2>4, SocketsStep DEF IInv, SocketsSound
<1>6. PresenceSound'
  BY <1>3, UpdateStep DEF IInv, handleConnection, Statuses
<1> QED
  BY <1>4, <1>5, <1>6 DEF IInv

LEMMA DisconnectStep ==
  ASSUME IInv, NEW s \in Sockets, handleDisconnect(s)
  PROVE  IInv'
<1>1. s \in open /\ s \in DOMAIN connections
  BY DEF IInv, SocketsSound, handleDisconnect
<1>2. PICK u : u = connections[s].userId
  OBVIOUS
<1>3. u \in Users
  BY <1>1, <1>2, Sender
<1>4. /\ handleUserDisconnected(u, s)
      /\ rm' = MP!removeUserFromAllRooms(rm, u)
      /\ C!removeConnectionAsync(u, s)
  BY <1>1, <1>2, SameBooks DEF handleDisconnect
<1>5. MP!RemoveSockets({s})
  BY <1>4, SameRemove
<1>6. MP!IInv'
  BY <1>1, <1>5, MP!RemoveSocketsIInv DEF IInv, ManagersAgree
<1>7. DOMAIN connections' = DOMAIN connections \ {s}
  BY <1>5 DEF MP!RemoveSockets, MP!Without, MP!Restrict
<1>8. ManagersAgree'
  BY <1>3, <1>4, <1>6, MP!RemoveConsistent DEF IInv, ManagersAgree
<1>9. SocketsSound'
  <2>1. \A x \in Rooms : SocketsIn(rm', x) = SocketsIn(rm, x)
    BY <1>4, RemoveSockets DEF IInv, ManagersAgree
  <2>2. open' = open \ {s} /\ joined' = [joined EXCEPT ![s] = {}] /\ fresh' = fresh
    BY DEF handleDisconnect
  <2>3. ASSUME NEW x \in Rooms, NEW t \in SocketsIn(rm', x)
        PROVE  t \notin fresh' /\ (t \in open' => x \in joined'[t])
    BY <2>1, <2>2, <2>3 DEF IInv, SocketsSound
  <2>4. DOMAIN connections' = open' /\ open' \subseteq Sockets \ fresh'
    BY <1>7, <2>2 DEF IInv, SocketsSound
  <2>5. joined' \in [Sockets -> SUBSET Rooms] /\ fresh' \subseteq Sockets
    BY <2>2 DEF IInv, SocketsSound
  <2> QED
    BY <2>3, <2>4, <2>5 DEF SocketsSound, SocketsIn
<1>10. PresenceSound'
  <2>1. ASSUME NEW v \in Users \ {u}, v \notin DOMAIN userConnections'
        PROVE  v \notin DOMAIN userConnections
    <3>1. MP!OfUser({s}, v) = {}
      BY <1>2 DEF MP!OfUser
    <3> QED
      BY <1>5, <2>1, <3>1 DEF MP!RemoveSockets, MP!UserIndexWithout
  <2>2. updatePresence(u, "offline") /\ "offline" \in Statuses
    BY <1>4 DEF handleUserDisconnected, checkOtherConnections, Statuses
  <2> QED
    BY <1>3, <2>1, <2>2, UpdateStep DEF IInv
<1> QED
  BY <1>8, <1>9, <1>10 DEF IInv

LEMMA JoinStep ==
  ASSUME IInv, NEW s \in Sockets, NEW r \in Rooms, handleJoinRoom(s, r)
  PROVE  IInv'
<1>1. s \in open \cap DOMAIN connections
  BY DEF handleJoinRoom
<1>2. PICK u : u = connections[s].userId
  OBVIOUS
<1>3. u \in Users /\ s \notin fresh
  BY <1>1, <1>2, Sender
<1>4. rm' = MP!joinRoom(rm, r, u, s)
  BY <1>2, SameBooks DEF handleJoinRoom
<1>5. ManagersAgree'
  BY <1>3, <1>4, MP!JoinConsistent, RegistryUnchanged
     DEF IInv, ManagersAgree, handleJoinRoom
<1>6. SocketsSound'
  <2>1. \A x \in Rooms : SocketsIn(rm', x) \subseteq
          SocketsIn(rm, x) \cup (IF x = r THEN {s} ELSE {})
    BY <1>4, JoinSockets DEF IInv, ManagersAgree
  <2> QED
    BY <1>1, <2>1, SocketsStep DEF IInv, SocketsSound, handleJoinRoom, connVars
<1>7. PresenceSound'
  BY PresenceUnchanged DEF IInv, handleJoinRoom, connVars
<1> QED
  BY <1>5, <1>6, <1>7 DEF IInv

LEMMA JoinCreatedStep ==
  ASSUME IInv, NEW s \in Sockets, NEW r \in Rooms, NEW n \in Namespaces, JoinCreated(s, r, n)
  PROVE  IInv'
<1>1. s \in open \cap DOMAIN connections
  BY DEF JoinCreated
<1>2. PICK u : u = connections[s].userId
  OBVIOUS
<1>3. u \in Users /\ s \notin fresh
  BY <1>1, <1>2, Sender
<1>4. PICK m : m = MP!createIfMissing(rm, r, n)
  OBVIOUS
<1>5. rm' = MP!joinRoom(m, r, u, s)
  BY <1>2, <1>4, SameBooks DEF JoinCreated
<1>6. MP!Consistent(m)
  BY <1>4, MP!CreateConsistent DEF IInv, ManagersAgree
<1>7. ManagersAgree'
  BY <1>3, <1>5, <1>6, MP!JoinConsistent, RegistryUnchanged
     DEF IInv, ManagersAgree, JoinCreated
<1>8. SocketsSound'
  <2>1. \A x \in Rooms : SocketsIn(rm', x) \subseteq
          SocketsIn(rm, x) \cup (IF x = r THEN {s} ELSE {})
    BY <1>4, <1>5, <1>6, CreateSockets, JoinSockets
  <2> QED
    BY <1>1, <2>1, SocketsStep DEF IInv, SocketsSound, JoinCreated, connVars
<1>9. PresenceSound'
  BY PresenceUnchanged DEF IInv, JoinCreated, connVars
<1> QED
  BY <1>7, <1>8, <1>9 DEF IInv

(* Who leaves a room is out of both books of it, here and in socket.io.    *)
LEMMA LeaveStep ==
  ASSUME IInv, NEW s \in Sockets, NEW r \in Rooms, handleLeaveRoom(s, r)
  PROVE  IInv'
<1>1. s \in open \cap DOMAIN connections
  BY DEF handleLeaveRoom
<1>2. PICK u : u = connections[s].userId
  OBVIOUS
<1>3. u \in Users
  BY <1>1, <1>2, Sender
<1>4. rm' = MP!leaveRoom(rm, r, u, s)
  BY <1>2, SameBooks DEF handleLeaveRoom
<1>5. ManagersAgree'
  BY <1>3, <1>4, MP!LeaveConsistent, RegistryUnchanged
     DEF IInv, ManagersAgree, handleLeaveRoom
<1>6. SocketsSound'
  <2>1. \A x \in Rooms : SocketsIn(rm', x) = SocketsIn(rm, x) \ (IF x = r THEN {s} ELSE {})
    BY <1>4, LeaveSockets DEF IInv, ManagersAgree
  <2>2. joined' = [joined EXCEPT ![s] = @ \ {r}] /\ UNCHANGED <<fresh, open, connections>>
    BY DEF handleLeaveRoom, connVars
  <2>3. ASSUME NEW x \in Rooms, NEW t \in SocketsIn(rm', x)
        PROVE  t \notin fresh' /\ (t \in open' => x \in joined'[t])
    BY <2>1, <2>2, <2>3 DEF IInv, SocketsSound
  <2> QED
    BY <2>2, <2>3 DEF IInv, SocketsSound, SocketsIn
<1>7. PresenceSound'
  BY PresenceUnchanged DEF IInv, handleLeaveRoom, connVars
<1> QED
  BY <1>5, <1>6, <1>7 DEF IInv

(* What neither manager nor socket.io sees.                                *)
LEMMA OnlyPresence ==
  ASSUME IInv, UNCHANGED <<fresh, open, joined, connVars, rm>>, PresenceSound'
  PROVE  IInv'
  BY RegistryUnchanged DEF IInv, ManagersAgree, SocketsSound, SocketsIn, connVars

LEMMA StatusStep ==
  ASSUME IInv, NEW s \in Sockets, NEW status \in Said, handleUpdateStatus(s, status)
  PROVE  IInv'
<1>1. PICK u : u = connections[s].userId
  OBVIOUS
<1>2. u \in Users
  BY <1>1, Sender DEF handleUpdateStatus
<1>3. /\ announced' = [announced EXCEPT ![u] = status]
      /\ restated' = restated \cup {v \in {u} : GetOr(userPresence, u, "offline") = "offline"}
      /\ UNCHANGED <<userPresence, userConnections>>
  BY <1>1 DEF handleUpdateStatus, connVars
<1>4. PresenceSound'
  BY <1>2, <1>3, StatusAssumption DEF IInv, PresenceSound, GetOr
<1> QED
  BY <1>4, OnlyPresence DEF handleUpdateStatus

LEMMA AwayStep ==
  ASSUME IInv, NEW u \in Users, setUserAway(u)
  PROVE  IInv'
<1>1. u \in DOMAIN userConnections
  BY StatusAssumption DEF IInv, PresenceSound, setUserAway, GetOr, Statuses
<1>2. PresenceSound'
  BY <1>1, UpdateStep DEF IInv, setUserAway, connVars, Statuses
<1> QED
  BY <1>2, OnlyPresence DEF setUserAway

LEMMA CleanupStep ==
  ASSUME IInv, NEW U \in SUBSET Users, cleanupPresence(U)
  PROVE  IInv'
<1>1. IsMap(userPresence', Users, Statuses)
  BY WithoutType DEF IInv, PresenceSound, cleanupPresence
<1>2. ASSUME NEW u \in Users
      PROVE  GetOr(userPresence, u, "offline")' = GetOr(userPresence, u, "offline")
  <2>1. PICK after : after = Without(userPresence, U)
    OBVIOUS
  <2>2. /\ DOMAIN after = DOMAIN userPresence \ U
        /\ \A x \in DOMAIN userPresence \ U : after[x] = userPresence[x]
    BY <2>1, WithoutFacts
  <2>3. userPresence' = after
    BY <2>1 DEF cleanupPresence
  <2>4. u \in U => GetOr(userPresence, u, "offline") = "offline"
    BY StatusAssumption DEF cleanupPresence, GetOr, Statuses
  <2> QED
    BY <2>2, <2>3, <2>4 DEF GetOr
<1>3. PresenceSound'
  BY <1>1, <1>2 DEF IInv, PresenceSound, cleanupPresence, connVars
<1> QED
  BY <1>3, OnlyPresence DEF cleanupPresence

LEMMA NextIInv == IInv /\ [Next]_vars => IInv'
<1> SUFFICES ASSUME IInv, [Next]_vars PROVE IInv'
  OBVIOUS
<1>1. CASE \E s \in Sockets : rejectConnection(s)
  BY <1>1, RejectStep
<1>2. CASE \E s \in Sockets, u \in Users : handleConnection(s, u)
  BY <1>2, ConnectStep
<1>3. CASE \E s \in Sockets : handleDisconnect(s)
  BY <1>3, DisconnectStep
<1>4. CASE \E s \in Sockets, r \in Rooms : handleJoinRoom(s, r)
  BY <1>4, JoinStep
<1>5. CASE \E s \in Sockets, r \in Rooms : handleLeaveRoom(s, r)
  BY <1>5, LeaveStep
<1>6. CASE \E s \in Sockets, c \in Conversations : handleJoinConversation(s, c)
  <2>1. "MESSAGING" \in Namespaces /\ \A c \in Conversations : ConversationRoom(c) \in Rooms
    BY DEF Namespaces, Rooms
  <2> QED
    BY <1>6, <2>1, JoinCreatedStep DEF handleJoinConversation
<1>7. CASE \E s \in Sockets, p \in Posts : handleJoinPost(s, p)
  <2>1. "SOCIAL" \in Namespaces /\ \A p \in Posts : PostRoom(p) \in Rooms
    BY DEF Namespaces, Rooms
  <2> QED
    BY <1>7, <2>1, JoinCreatedStep DEF handleJoinPost
<1>8. CASE \E s \in Sockets, status \in Said : handleUpdateStatus(s, status)
  BY <1>8, StatusStep
<1>9. CASE \E u \in Users : setUserAway(u)
  BY <1>9, AwayStep
<1>10. CASE \E U \in SUBSET Users : cleanupPresence(U)
  BY <1>10, CleanupStep
<1>11. CASE UNCHANGED vars
  BY <1>11, OnlyPresence, PresenceUnchanged DEF vars, connVars, IInv
<1> QED
  BY <1>1, <1>2, <1>3, <1>4, <1>5, <1>6, <1>7, <1>8, <1>9, <1>10, <1>11 DEF Next

LEMMA SpecIInv == Spec => []IInv
  BY InitIInv, NextIInv, PTL DEF Spec

-----------------------------------------------------------------------------
(* A user whose last socket closed is stored as offline, and the others    *)
(* were told so last unless the user set a status meanwhile.               *)
THEOREM GoneUsersAreOffline == Spec => []GoneIsOffline
<1>1. IInv => GoneIsOffline
  BY DEF IInv, PresenceSound, GoneIsOffline, C!isUserOnline
<1> QED
  BY <1>1, SpecIInv, PTL

(* What the handlers emit to a conversation, a post or a user reaches all  *)
(* the open sockets that the managers count there.                         *)
THEOREM CountedSocketsAreReached == Spec => []CountedSocketsReceive
<1>1. IInv => CountedSocketsReceive
  <2> SUFFICES ASSUME IInv, NEW s \in open, NEW t \in open
               PROVE  CountedSocketsReceive!(s, t)
    BY DEF CountedSocketsReceive
  <2>1. ASSUME NEW r \in Rooms, t \in Counted(r) PROVE t \in InRoom(r)
    BY <2>1 DEF IInv, SocketsSound, SocketsIn, Counted, InRoom
  <2>2. ASSUME NEW c \in Conversations, t \in Counted(ConversationRoom(c))
        PROVE  t \in InRoom(ConversationRoom(c))
    BY <2>1, <2>2 DEF Rooms
  <2>3. ASSUME NEW p \in Posts, t \in Counted(PostRoom(p))
        PROVE  t \in InRoom(PostRoom(p))
    BY <2>1, <2>3 DEF Rooms
  <2>4. t \in C!getUserConnections(connections[t].userId)
    BY Sender DEF IInv, ManagersAgree, SocketsSound, MP!IInv, MP!UserIndexExact,
                  C!getUserConnections, C!GetOr
  <2> QED
    BY <2>2, <2>3, <2>4 DEF handleSendMessage, handleMarkMessageRead,
       handleTypingIndicator, handleLikePost, handleAddComment, handleFollowUser,
       emitToUser, Emit
<1> QED
  BY <1>1, SpecIInv, PTL

(* Handlers that call several methods in a row leave the managers as       *)
(* consistent as single calls do: the user index lists the registered      *)
(* sockets, and rooms and users agree on who is in which room.             *)
THEOREM ManagersStayConsistent == Spec => [](C!UserIndexExact /\ R!RoomsMatchUsers)
<1>1. IInv => C!UserIndexExact /\ R!RoomsMatchUsers
  BY DEF IInv, ManagersAgree, MP!IInv, MP!UserIndexExact, C!UserIndexExact,
         MP!Consistent, MP!MembershipAgrees, R!RoomsMatchUsers, R!MembershipAgrees
<1> QED
  BY <1>1, SpecIInv, PTL
=============================================================================
