---------------------------- MODULE RoomManager -----------------------------
(***************************************************************************)
(* RoomManagerService (shared/websocket/core): the server's own book of    *)
(* who is in which room, beside the one socket.io keeps.  Three Maps:      *)
(*                                                                         *)
(*    rooms          roomId    -> {namespace, participants, sockets}       *)
(*    userRooms      userId    -> Set<roomId>                              *)
(*    namespaceRooms namespace -> Set<roomId>                              *)
(*                                                                         *)
(* A handler of the gateway calls several methods in a row, so each method *)
(* is an operator from one value of the three Maps to the next, and the    *)
(* actions below apply one method each.  Room types, titles and the        *)
(* activity timestamps decide nothing and are left out.                    *)
(***************************************************************************)
EXTENDS Maps, WebSocketIds

CONSTANT Rooms

VARIABLE rm   \* [rooms, userRooms, namespaceRooms]

Room == [namespace : Namespaces,
         participants : SUBSET Users,
         sockets : SUBSET Sockets]

IsRoomBook(m) ==
  /\ m = [rooms |-> m.rooms, userRooms |-> m.userRooms,
          namespaceRooms |-> m.namespaceRooms]
  /\ IsMap(m.rooms, Rooms, Room)
  /\ IsMap(m.userRooms, Users, SUBSET Rooms)
  /\ IsMap(m.namespaceRooms, Namespaces, SUBSET Rooms)

RoomsTypeOK == IsRoomBook(rm)

-----------------------------------------------------------------------------
\* Mutant: the key of a user without rooms stays.
KeepRoomlessUsers(ur, U, R) ==
  [u \in DOMAIN ur |-> IF u \in U THEN ur[u] \ R ELSE ur[u]]

(* userRooms without the rooms of R for the users of U; a user left        *)
(* without rooms loses the key.                                            *)
LeaveRooms(ur, U, R) ==
  [u \in {v \in DOMAIN ur : v \notin U \/ ur[v] \ R # {}}
     |-> IF u \in U THEN ur[u] \ R ELSE ur[u]]

(* createRoom.                                                             *)
createRoom(m, r, n) ==
  [rooms |-> With(m.rooms, r, [namespace |-> n, participants |-> {}, sockets |-> {}]),
   userRooms |-> m.userRooms,
   namespaceRooms |-> With(m.namespaceRooms, n, GetOr(m.namespaceRooms, n, {}) \cup {r})]

(* createUserRoom, createConversationRoom, createPostRoom, createTopicRoom *)
(* and createFeedRoom: an existing room is returned whatever its           *)
(* namespace.                                                              *)
createIfMissing(m, r, n) == IF r \in DOMAIN m.rooms THEN m ELSE createRoom(m, r, n)

\* Mutant: the socket is listed as the participant.
JoinSocket(m, r, u, s) ==
  IF r \notin DOMAIN m.rooms THEN m
  ELSE [m EXCEPT !.rooms = With(m.rooms, r, [m.rooms[r] EXCEPT !.participants = @ \cup {s}])]

(* joinRoom: a room that does not exist is not created.                    *)
joinRoom(m, r, u, s) ==
  IF r \notin DOMAIN m.rooms THEN m
  ELSE [m EXCEPT
          !.rooms = With(m.rooms, r,
                      [m.rooms[r] EXCEPT !.participants = @ \cup {u},
                                         !.sockets = @ \cup {s}]),
          !.userRooms = With(m.userRooms, u, GetOr(m.userRooms, u, {}) \cup {r})]

(* leaveRoom.  Which sockets are the user's is not looked up: every socket *)
(* left in the room counts as one, so the user stays a participant as long *)
(* as anybody's socket is in the room.                                     *)
socketsCountedAsUsers(sockets) == sockets

leaveRoom(m, r, u, s) ==
  IF r \notin DOMAIN m.rooms THEN m
  ELSE LET left == m.rooms[r].sockets \ {s}
           gone == socketsCountedAsUsers(left) = {}
       IN [m EXCEPT
             !.rooms = With(m.rooms, r,
                         [m.rooms[r] EXCEPT
                            !.sockets = left,
                            !.participants = IF gone THEN @ \ {u} ELSE @]),
             !.userRooms = IF gone THEN LeaveRooms(m.userRooms, {u}, {r}) ELSE @]

\* Mutant: the participants keep the deleted room in their list.
DeleteRoomOnly(m, r) ==
  IF r \notin DOMAIN m.rooms THEN m
  ELSE [rooms |-> Without(m.rooms, {r}),
        userRooms |-> m.userRooms,
        namespaceRooms |-> [n \in DOMAIN m.namespaceRooms |-> m.namespaceRooms[n] \ {r}]]

(* deleteRoom.                                                             *)
deleteRoom(m, r) ==
  IF r \notin DOMAIN m.rooms THEN m
  ELSE [rooms |-> Without(m.rooms, {r}),
        userRooms |-> LeaveRooms(m.userRooms, m.rooms[r].participants, {r}),
        namespaceRooms |->
          [n \in DOMAIN m.namespaceRooms |->
             IF n = m.rooms[r].namespace THEN m.namespaceRooms[n] \ {r}
                                         ELSE m.namespaceRooms[n]]]

(* cleanupEmptyRooms: deleteRoom of every room without participants and    *)
(* without sockets, in one synchronous loop.                               *)
EmptyRooms(m) ==
  {r \in DOMAIN m.rooms : m.rooms[r].participants = {} /\ m.rooms[r].sockets = {}}

cleanupEmptyRooms(m) ==
  [rooms |-> Without(m.rooms, EmptyRooms(m)),
   userRooms |-> m.userRooms,
   namespaceRooms |->
     [n \in DOMAIN m.namespaceRooms |->
        m.namespaceRooms[n] \ {r \in EmptyRooms(m) : m.rooms[r].namespace = n}]]

(* removeUserFromAllRooms: the user leaves every room of their index       *)
(* entry; their sockets stay in room.sockets.                              *)
removeUserFromAllRooms(m, u) ==
  IF u \notin DOMAIN m.userRooms THEN m
  ELSE [rooms |-> [r \in DOMAIN m.rooms |->
                     IF r \in m.userRooms[u]
                     THEN [m.rooms[r] EXCEPT !.participants = @ \ {u}]
                     ELSE m.rooms[r]],
        userRooms |-> Without(m.userRooms, {u}),
        namespaceRooms |-> m.namespaceRooms]

-----------------------------------------------------------------------------
Empty == [x \in {} |-> {}]

EmptyBook == [rooms |-> Empty, userRooms |-> Empty, namespaceRooms |-> Empty]

RoomsInit == rm = EmptyBook

CreateRoom(r, n) == rm' = createIfMissing(rm, r, n)
JoinRoom(r, u, s) == rm' = joinRoom(rm, r, u, s)
LeaveRoom(r, u, s) == rm' = leaveRoom(rm, r, u, s)
DeleteRoom(r) == rm' = deleteRoom(rm, r)
CleanupEmptyRooms == rm' = cleanupEmptyRooms(rm)
RemoveUserFromAllRooms(u) == rm' = removeUserFromAllRooms(rm, u)

RoomsNext ==
  \/ \E r \in Rooms, n \in Namespaces : CreateRoom(r, n)
  \/ \E r \in Rooms, u \in Users, s \in Sockets : JoinRoom(r, u, s)
  \/ \E r \in Rooms, u \in Users, s \in Sockets : LeaveRoom(r, u, s)
  \/ \E r \in Rooms : DeleteRoom(r)
  \/ CleanupEmptyRooms
  \/ \E u \in Users : RemoveUserFromAllRooms(u)

RoomsSpec == RoomsInit /\ [][RoomsNext]_rm

-----------------------------------------------------------------------------
(* The two directions of membership agree in every reachable book: a room  *)
(* lists a user exactly when the user lists the room, whatever mix of      *)
(* leaves, room deletions, clean-ups and bulk removals came before.  Were  *)
(* they to drift, removeUserFromAllRooms, which walks only the user's      *)
(* list, would leave a disconnected user in a room for good.               *)
MembershipAgrees(m) ==
  \A u \in Users, r \in Rooms :
    (r \in DOMAIN m.rooms /\ u \in m.rooms[r].participants)
      <=> (u \in DOMAIN m.userRooms /\ r \in m.userRooms[u])

RoomsMatchUsers == MembershipAgrees(rm)

(* The room statistics count a user only while they are in some room.      *)
NoRoomlessUser(m) == \A u \in DOMAIN m.userRooms : m.userRooms[u] # {}

(* The namespace index lists exactly the rooms of each namespace, although *)
(* a create call may ask for an existing room under another namespace.     *)
NamespaceAgrees(m) ==
  \A n \in Namespaces, r \in Rooms :
    (n \in DOMAIN m.namespaceRooms /\ r \in m.namespaceRooms[n])
      <=> (r \in DOMAIN m.rooms /\ m.rooms[r].namespace = n)

RoomsMatchNamespaces == NamespaceAgrees(rm)

(* getRoomStats reports totalParticipants as the number of userRooms keys: *)
(* it is the number of users in some room.                                 *)
ParticipantsCounted ==
  DOMAIN rm.userRooms = UNION {rm.rooms[r].participants : r \in DOMAIN rm.rooms}
=============================================================================
