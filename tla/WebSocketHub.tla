---------------------------- MODULE WebSocketHub ----------------------------
(***************************************************************************)
(* The websocket gateway: what the handlers of WebSocketConnectionService, *)
(* MessagingWebSocketService, SocialWebSocketService and                   *)
(* PresenceWebSocketService do to the connection manager, the room         *)
(* manager, the presence Map and to socket.io's own rooms.  Every handler  *)
(* is synchronous, so it is one step that calls the managers in the order  *)
(* of the code.                                                            *)
(*                                                                         *)
(* Users are the ids validateToken may return.  The stub in the repository *)
(* accepts every token as one fixed user, so the program as shipped is the *)
(* instance with a single user and any number of sockets.                  *)
(***************************************************************************)
EXTENDS Maps

CONSTANTS Users, Sockets, Conversations, Posts, NoStatus,
          Said  \* the statuses that clients set

Namespaces == {"SOCIAL", "MESSAGING", "PRESENCE"}
Statuses == {"online", "offline", "away", "busy"}

ASSUME StatusAssumption == NoStatus \notin Statuses /\ Said \subseteq Statuses

(* Room ids carry the kind of the room: `user:${id}' and so on.            *)
UserRoom(u) == <<"user", u>>
ConversationRoom(c) == <<"conversation", c>>
PostRoom(p) == <<"post", p>>

Rooms == {UserRoom(u) : u \in Users}
           \cup {ConversationRoom(c) : c \in Conversations}
           \cup {PostRoom(p) : p \in Posts}

VARIABLES
  fresh,                \* socket ids socket.io has not given out yet
  open,                 \* sockets the transport holds open
  joined,               \* socket -> rooms it is in, as socket.io sees it
  connections, userConnections, namespaceConnections,
  rm,                   \* the room manager's Maps
  userPresence,         \* userId -> stored status
  announced,            \* userId -> status last broadcast to the clients
  restated              \* history: users who set a status while stored offline

connVars == <<connections, userConnections, namespaceConnections>>
presVars == <<userPresence, announced, restated>>
vars == <<fresh, open, joined, connVars, rm, presVars>>

(* No handler depends on the age of a connection: the clock stands still.  *)
C == INSTANCE ConnectionManager WITH now <- 0, MaxInactive <- 0, MaxNow <- 0
R == INSTANCE RoomManager

(* Every value has its type.                                               *)
TypeOK ==
  /\ fresh \subseteq Sockets
  /\ open \subseteq Sockets
  /\ joined \in [Sockets -> SUBSET Rooms]
  /\ C!TypeOK
  /\ R!RoomsTypeOK
  /\ IsMap(userPresence, Users, Statuses)
  /\ announced \in [Users -> Statuses \cup {NoStatus}]
  /\ restated \subseteq Users

-----------------------------------------------------------------------------
(* updatePresence: stores the status, and broadcasts it only when it       *)
(* differs from the stored one.                                            *)
updatePresence(u, status) ==
  /\ userPresence' = With(userPresence, u, status)
  /\ IF GetOr(userPresence, u, NoStatus) # status
     THEN announced' = [announced EXCEPT ![u] = status] /\ restated' = restated \ {u}
     ELSE UNCHANGED <<announced, restated>>

\* Mutant: it always answers yes.
AlwaysOthers(u, s) == TRUE

(* checkOtherConnections always answers no.                                *)
checkOtherConnections(u, s) == FALSE

(* handleUserDisconnected of the presence service.                         *)
handleUserDisconnected(u, s) ==
  IF checkOtherConnections(u, s) THEN UNCHANGED presVars
  ELSE updatePresence(u, "offline")

(* setupUserConnection creates and joins the user's room; the presence     *)
(* service then creates it again, under its own namespace, and joins it    *)
(* again.                                                                  *)
setupUserRooms(m, u, s) ==
  LET social == R!joinRoom(R!createIfMissing(m, UserRoom(u), "SOCIAL"), UserRoom(u), u, s)
  IN R!joinRoom(R!createIfMissing(social, UserRoom(u), "PRESENCE"), UserRoom(u), u, s)

-----------------------------------------------------------------------------
(* handleConnection without a token: the server hangs up.                  *)
rejectConnection(s) ==
  /\ s \in fresh
  /\ fresh' = fresh \ {s}
  /\ UNCHANGED <<open, joined, connVars, rm, presVars>>

(* handleConnection with a token that validateToken maps to u.             *)
handleConnection(s, u) ==
  /\ s \in fresh
  /\ fresh' = fresh \ {s}
  /\ open' = open \cup {s}
  /\ C!addConnection(u, s, "SOCIAL")
  /\ joined' = [joined EXCEPT ![s] = @ \cup {UserRoom(u)}]
  /\ rm' = setupUserRooms(rm, u, s)
  /\ updatePresence(u, "online")

(* handleDisconnect; socket.io has already taken the socket out of its     *)
(* own rooms.                                                              *)
handleDisconnect(s) ==
  /\ s \in open
  /\ open' = open \ {s}
  /\ joined' = [joined EXCEPT ![s] = {}]
  /\ UNCHANGED fresh
  /\ IF s \in DOMAIN connections
     THEN LET u == connections[s].userId IN
            /\ handleUserDisconnected(u, s)
            /\ rm' = R!removeUserFromAllRooms(rm, u)
            /\ C!removeConnectionAsync(u, s)
     ELSE UNCHANGED <<connVars, rm, presVars>>

(* handleJoinRoom: socket.io joins whatever room the client names; the     *)
(* room manager only one that exists.                                      *)
handleJoinRoom(s, r) ==
  /\ s \in open \cap DOMAIN connections
  /\ joined' = [joined EXCEPT ![s] = @ \cup {r}]
  /\ rm' = R!joinRoom(rm, r, connections[s].userId, s)
  /\ UNCHANGED <<fresh, open, connVars, presVars>>

\* Mutant: the room manager is not told.
LeaveOnlySocketIo(s, r) ==
  /\ s \in open \cap DOMAIN connections
  /\ joined' = [joined EXCEPT ![s] = @ \ {r}]
  /\ UNCHANGED <<fresh, open, connVars, rm, presVars>>

(* handleLeaveRoom.                                                        *)
handleLeaveRoom(s, r) ==
  /\ s \in open \cap DOMAIN connections
  /\ joined' = [joined EXCEPT ![s] = @ \ {r}]
  /\ rm' = R!leaveRoom(rm, r, connections[s].userId, s)
  /\ UNCHANGED <<fresh, open, connVars, presVars>>

(* handleJoinConversation and handleJoinPost: the room is created when it  *)
(* is missing, and socket.io joins after the room manager.                 *)
JoinCreated(s, r, n) ==
  /\ s \in open \cap DOMAIN connections
  /\ rm' = R!joinRoom(R!createIfMissing(rm, r, n), r, connections[s].userId, s)
  /\ joined' = [joined EXCEPT ![s] = @ \cup {r}]
  /\ UNCHANGED <<fresh, open, connVars, presVars>>

handleJoinConversation(s, c) == JoinCreated(s, ConversationRoom(c), "MESSAGING")
handleJoinPost(s, p) == JoinCreated(s, PostRoom(p), "SOCIAL")

(* The handlers that only emit: which socket gets which event.  The sender *)
(* of a message may be in no room, and names whom he likes as receiver.    *)
InRoom(r) == {s \in open : r \in joined[s]}

Emit(to, event) == {<<s, event>> : s \in to \cap open}

emitToUser(u, event) == Emit(C!getUserConnections(u), event)

handleSendMessage(s, c, receiver) ==
  Emit(InRoom(ConversationRoom(c)), "message_sent")
    \cup emitToUser(receiver, "message_received") \cup Emit({s}, "message_sent_ack")

handleTypingIndicator(s, c) == Emit(InRoom(ConversationRoom(c)) \ {s}, "typing")

handleMarkMessageRead(s, c) == Emit(InRoom(ConversationRoom(c)), "message_read")

handleLikePost(s, p) ==
  Emit(InRoom(PostRoom(p)), "post_liked") \cup Emit({s}, "like_post_ack")

handleAddComment(s, p) ==
  Emit(InRoom(PostRoom(p)), "comment_added") \cup Emit({s}, "comment_added_ack")

handleFollowUser(s, u) ==
  emitToUser(u, "follow_request") \cup Emit({s}, "follow_user_ack")

(* handleUpdateStatus, which also serves update_presence: the status is    *)
(* broadcast and not stored.                                               *)
handleUpdateStatus(s, status) ==
  /\ s \in open \cap DOMAIN connections
  /\ LET u == connections[s].userId IN
       /\ announced' = [announced EXCEPT ![u] = status]
       /\ restated' = restated \cup {v \in {u} : GetOr(userPresence, u, "offline") = "offline"}
  /\ UNCHANGED <<fresh, open, joined, connVars, rm, userPresence>>

(* setUserAway.                                                            *)
setUserAway(u) ==
  /\ GetOr(userPresence, u, NoStatus) = "online"
  /\ updatePresence(u, "away")
  /\ UNCHANGED <<fresh, open, joined, connVars, rm>>

(* cleanup of the presence service: any of the users that are offline may  *)
(* have been so for longer than the threshold.                             *)
cleanupPresence(U) ==
  /\ \A u \in U : GetOr(userPresence, u, NoStatus) = "offline"
  /\ userPresence' = Without(userPresence, U)
  /\ UNCHANGED <<fresh, open, joined, connVars, rm, announced, restated>>

-----------------------------------------------------------------------------
Init ==
  /\ fresh = Sockets
  /\ open = {}
  /\ joined = [s \in Sockets |-> {}]
  /\ connections = R!Empty
  /\ userConnections = R!Empty
  /\ namespaceConnections = R!Empty
  /\ R!RoomsInit
  /\ userPresence = R!Empty
  /\ announced = [u \in Users |-> NoStatus]
  /\ restated = {}

Next ==
  \/ \E s \in Sockets : rejectConnection(s)
  \/ \E s \in Sockets, u \in Users : handleConnection(s, u)
  \/ \E s \in Sockets : handleDisconnect(s)
  \/ \E s \in Sockets, r \in Rooms : handleJoinRoom(s, r)
  \/ \E s \in Sockets, r \in Rooms : handleLeaveRoom(s, r)
  \/ \E s \in Sockets, c \in Conversations : handleJoinConversation(s, c)
  \/ \E s \in Sockets, p \in Posts : handleJoinPost(s, p)
  \/ \E s \in Sockets, status \in Said : handleUpdateStatus(s, status)
  \/ \E u \in Users : setUserAway(u)
  \/ \E U \in SUBSET Users : cleanupPresence(U)

Spec == Init /\ [][Next]_vars

-----------------------------------------------------------------------------
Counted(r) == IF r \in DOMAIN rm.rooms THEN rm.rooms[r].sockets ELSE {}

(* A user whose last socket closed is stored as offline, if at all, and    *)
(* offline is what the others were told last: unless he set a status while *)
(* he was stored as offline, with one of his sockets closed and another    *)
(* still open, since the next offline is then no change to broadcast.      *)
GoneIsOffline ==
  \A u \in Users : ~C!isUserOnline(u) =>
    /\ GetOr(userPresence, u, "offline") = "offline"
    /\ announced[u] \in {"offline", NoStatus} \/ u \in restated

(* What the handlers emit to a conversation or a post reaches every open   *)
(* socket the room manager counts there, whatever sequence of joining,     *)
(* leaving and hanging up came before, though socket.io keeps rooms of its *)
(* own; and what they emit to a user reaches all open sockets of his.      *)
CountedSocketsReceive ==
  \A s, t \in open :
    /\ \A c \in Conversations : t \in Counted(ConversationRoom(c)) =>
         /\ \A u \in Users : <<t, "message_sent">> \in handleSendMessage(s, c, u)
         /\ <<t, "message_read">> \in handleMarkMessageRead(s, c)
         /\ t # s => <<t, "typing">> \in handleTypingIndicator(s, c)
    /\ \A p \in Posts : t \in Counted(PostRoom(p)) =>
         /\ <<t, "post_liked">> \in handleLikePost(s, p)
         /\ <<t, "comment_added">> \in handleAddComment(s, p)
    /\ <<t, "follow_request">> \in handleFollowUser(s, connections[t].userId)
    /\ \A c \in Conversations :
         <<t, "message_received">> \in handleSendMessage(s, c, connections[t].userId)
=============================================================================
