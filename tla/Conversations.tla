---------------------------- MODULE Conversations ---------------------------
(***************************************************************************)
(* The messaging module's conversations: ConversationController and        *)
(* ConversationUseCases over the tables Conversation and UserConversation. *)
(* Messages composes it with the messages.                                 *)
(*                                                                         *)
(* ConversationRepositoryImpl.update does not edit the participant rows.   *)
(* It deletes them all and inserts the list the use case read earlier, in  *)
(* two separate statements, and every use case but the creations ends in   *)
(* it: renaming, archiving and sending a message too.  The actions below   *)
(* are the statements; those of several requests interleave, and the       *)
(* server may crash between any two.  Titles and timestamps are left out.  *)
(***************************************************************************)
EXTENDS Maps, FiniteSets

CONSTANTS Users,
          Conversations,  \* conversation ids
          Requests        \* slots for requests in progress

ASSUME UsersAssumption == IsFiniteSet(Users)

VARIABLES
  conversations,  \* Conversation: id -> isGroup
  participants,   \* UserConversation: id -> (user -> role)
  req,            \* request -> where it is in its use case
  creator,        \* history: id of a group -> who created it
  invited,        \* history: id -> the initial members and who the creator added
  wiped           \* history: ids whose rewrite a crash cut short

tables == <<conversations, participants>>
history == <<creator, invited, wiped>>
vars == <<tables, req, history>>

Roles == {"admin", "member"}
Members == UNION {[U -> Roles] : U \in SUBSET Users}

(* A participant of the domain object: leaving marks them.                 *)
Participant == [role : Roles, left : BOOLEAN]
Lists == UNION {[U -> Participant] : U \in SUBSET Users}
Pairs == {p \in SUBSET Users : Cardinality(p) = 2}

Idle == [pc |-> "idle"]

Request ==
  {Idle}
    \cup [pc : {"save"}, by : Users, pair : Pairs]
    \cup [pc : {"opened"}, by : Users, asked : SUBSET Users, conv : Conversations]
    \cup [pc : {"delete", "insert"}, conv : Conversations, list : Lists]
    \cup [pc : {"list", "listed"}, user : Users, shown : SUBSET Conversations]

TypeOK ==
  /\ IsMap(conversations, Conversations, BOOLEAN)
  /\ participants \in [DOMAIN conversations -> Members]
  /\ req \in [Requests -> Request]
  /\ creator \in [{c \in DOMAIN conversations : conversations[c]} -> Users]
  /\ invited \in [DOMAIN conversations -> SUBSET Users]
  /\ wiped \subseteq Conversations

-----------------------------------------------------------------------------
Goto(q, r) == req' = [req EXCEPT ![q] = r]

(* A conversation without participants cannot be loaded: createdBy falls   *)
(* back to the empty string, which UserId refuses.                         *)
Loadable(c) == DOMAIN participants[c] # {}

(* findById: every participant is active, leftAt is not stored.            *)
fromPrimitives(rows) == [u \in DOMAIN rows |-> [role |-> rows[u], left |-> FALSE]]

Loaded(c) == fromPrimitives(participants[c])

isParticipant(list, u) == u \in DOMAIN list /\ ~list[u].left

(* validateConversationAccess, to read or to write, ...                    *)
hasAccess(c, u) == Loadable(c) /\ isParticipant(Loaded(c), u)

\* Mutant: every participant may do what an admin may.
AnyParticipant(c, u) == hasAccess(c, u)

(* ... and to administrate.                                                *)
isAdmin(c, u) == hasAccess(c, u) /\ participants[c][u] = "admin"

\* Mutant: everybody becomes a member again.
StoredAsMembers(list) == [u \in DOMAIN list |-> "member"]

(* toPrimitives and createMany: every participant of the list, those who   *)
(* left included, without the leaving.                                     *)
Stored(list) == [u \in DOMAIN list |-> list[u].role]

(* findByParticipants: `every' participant is one of those asked for,      *)
(* which is also true of a conversation without participants.              *)
FoundFor(U) == {c \in DOMAIN conversations : DOMAIN participants[c] \subseteq U}

AllLoadable(S) == \A c \in S : Loadable(c)

isPrivate(c) == ~conversations[c]

(* conversation.create with its participants: one statement.               *)
Create(c, isGroup, members) ==
  /\ c \notin DOMAIN conversations
  /\ conversations' = With(conversations, c, isGroup)
  /\ participants' = With(participants, c, members)
  /\ invited' = With(invited, c, DOMAIN members)
  /\ UNCHANGED wiped

-----------------------------------------------------------------------------
(* What a body may hold: a title may be blank.                             *)
Titles == {"title", "blank"}

(* Two ids are asked for at least, of which some may be the same.          *)
CreatePrivateConversationDto ==
  {dto \in [participantIds : SUBSET Users \ {{}}, again : BOOLEAN] :
     dto.again \/ Cardinality(dto.participantIds) >= 2}

CreateGroupConversationDto == [title : Titles, participantIds : SUBSET Users \ {{}}]

UpdateConversationTitleDto == [title : Titles]

AddParticipantDto == [userId : Users]

ConversationTitle(title) == title # "blank"

(* The domain service takes two different users.                           *)
createPrivateConversation(dto) == Cardinality(dto.participantIds) = 2 /\ ~dto.again

(* createPrivateConversation of the use case: an existing private          *)
(* conversation is answered, without a look at how many were asked for;    *)
(* ...                                                                     *)
findExisting(q, by, dto) ==
  /\ req[q] = Idle
  /\ AllLoadable(FoundFor(dto.participantIds))
  /\ LET existing == {c \in FoundFor(dto.participantIds) : isPrivate(c)} IN
       \/ /\ existing = {}
          /\ createPrivateConversation(dto)
          /\ Goto(q, [pc |-> "save", by |-> by, pair |-> dto.participantIds])
       \/ \E c \in existing :
            Goto(q, [pc |-> "opened", by |-> by, asked |-> dto.participantIds, conv |-> c])
  /\ UNCHANGED <<tables, history>>

(* ... otherwise one is created after the await.                           *)
savePrivate(q, c) ==
  /\ req[q].pc = "save"
  /\ Create(c, FALSE, [u \in req[q].pair |-> "member"])
  /\ UNCHANGED creator
  /\ Goto(q, [pc |-> "opened", by |-> req[q].by, asked |-> req[q].pair, conv |-> c])

(* The response is sent.                                                   *)
answer(q) ==
  /\ req[q].pc \in {"opened", "listed"}
  /\ Goto(q, Idle)
  /\ UNCHANGED <<tables, history>>

validateConversationParticipants(U) == Cardinality(U) \in 2..100

GroupOf(by, U) == [u \in U |-> IF u = by THEN "admin" ELSE "member"]

createGroupConversation(by, c, title, U) ==
  /\ validateConversationParticipants(U)
  /\ ConversationTitle(title)
  /\ Create(c, TRUE, GroupOf(by, U))
  /\ creator' = With(creator, c, by)
  /\ UNCHANGED req

(* The creator is a member, named or not.                                  *)
createGroupChat(by, c, dto) ==
  createGroupConversation(by, c, dto.title, dto.participantIds \cup {by})

addedTo(list, u) == With(list, u, [role |-> "member", left |-> FALSE])

leftBy(list, u) == [list EXCEPT ![u].left = TRUE]

\* Mutant: the entity's addParticipant is called without the checks of the
\* validation and the domain service.
AddUnchecked(q, by, u, c) ==
  /\ req[q] = Idle
  /\ hasAccess(c, by)
  /\ ~hasAccess(c, u)
  /\ Goto(q, [pc |-> "delete", conv |-> c, list |-> addedTo(Loaded(c), u)])
  /\ UNCHANGED <<tables, history>>

mayBeAdded(c, u) == ~isPrivate(c) /\ ~isParticipant(Loaded(c), u)

mayBeRemoved(c, u) == ~isPrivate(c) /\ isParticipant(Loaded(c), u)

(* addParticipant.                                                         *)
addParticipant(q, by, u, c) ==
  /\ req[q] = Idle
  /\ isAdmin(c, by)
  /\ mayBeAdded(c, u)
  /\ Goto(q, [pc |-> "delete", conv |-> c, list |-> addedTo(Loaded(c), u)])
  /\ invited' = IF by = creator[c] THEN [invited EXCEPT ![c] = @ \cup {u}] ELSE invited
  /\ UNCHANGED <<tables, creator, wiped>>

(* removeParticipant, and leaving a group with by = u.                     *)
removeParticipant(q, by, u, c) ==
  /\ req[q] = Idle
  /\ by = u \/ isAdmin(c, by)
  /\ mayBeRemoved(c, u)
  /\ Goto(q, [pc |-> "delete", conv |-> c, list |-> leftBy(Loaded(c), u)])
  /\ UNCHANGED <<tables, history>>

(* The rows are rewritten as they were read.                               *)
rewrite(q, u, c) ==
  /\ req[q] = Idle
  /\ hasAccess(c, u)
  /\ Goto(q, [pc |-> "delete", conv |-> c, list |-> Loaded(c)])
  /\ UNCHANGED <<tables, history>>

updateConversationTitle(q, u, c, dto) ==
  ConversationTitle(dto.title) /\ ~isPrivate(c) /\ rewrite(q, u, c)

(* archiveConversation and unarchiveConversation set a status that is not  *)
(* stored.                                                                 *)
archiveConversation(q, u, c) == rewrite(q, u, c)

unarchiveConversation(q, u, c) == rewrite(q, u, c)

(* What the handlers that read one conversation have to find.              *)
getConversationById(c, u) == hasAccess(c, u)

(* getUserConversationsWithLastMessage: the conversations of the user, ... *)
findByParticipant(u) == {c \in DOMAIN conversations : u \in DOMAIN participants[c]}

getUserConversations(q, u) ==
  /\ req[q] = Idle
  /\ AllLoadable(findByParticipant(u))
  /\ Goto(q, [pc |-> "list", user |-> u, shown |-> findByParticipant(u)])
  /\ UNCHANGED <<tables, history>>

(* ... then the latest message of each, which checks the access again: one *)
(* whose rows are being rewritten fails the listing.                       *)
lastMessages(q) ==
  /\ req[q].pc = "list"
  /\ Goto(q, IF \A c \in req[q].shown : hasAccess(c, req[q].user)
               THEN [req[q] EXCEPT !.pc = "listed"] ELSE Idle)
  /\ UNCHANGED <<tables, history>>

-----------------------------------------------------------------------------

(* update: deleteMany of the participants, ...                             *)
deleteParticipants(q) ==
  /\ req[q].pc = "delete"
  /\ participants' = [participants EXCEPT ![req[q].conv] = [u \in {} |-> "member"]]
  /\ Goto(q, [req[q] EXCEPT !.pc = "insert"])
  /\ UNCHANGED <<conversations, history>>

(* ... then createMany of the list, which fails as a whole when another    *)
(* request has inserted one of them again: the pair of user and            *)
(* conversation is unique.                                                 *)
Collides(c, list) == DOMAIN participants[c] \cap DOMAIN list # {}

insertParticipants(q) ==
  /\ req[q].pc = "insert"
  /\ ~Collides(req[q].conv, req[q].list)
  /\ participants' = [participants EXCEPT ![req[q].conv] =
                        WithAll(participants[req[q].conv], Stored(req[q].list))]
  /\ Goto(q, Idle)
  /\ UNCHANGED <<conversations, history>>

insertFails(q) ==
  /\ req[q].pc = "insert"
  /\ Collides(req[q].conv, req[q].list)
  /\ Goto(q, Idle)
  /\ UNCHANGED <<tables, history>>

(* The server restarts: the requests in progress are gone.                 *)
Inserting == {q \in Requests : req[q].pc = "insert"}

drop ==
  /\ req' = [q \in Requests |-> Idle]
  /\ wiped' = wiped \cup {req[q].conv : q \in Inserting}
  /\ UNCHANGED <<tables, creator, invited>>

-----------------------------------------------------------------------------
Empty == [x \in {} |-> {}]

Init ==
  /\ conversations = Empty
  /\ participants = Empty
  /\ req = [q \in Requests |-> Idle]
  /\ creator = Empty
  /\ invited = Empty
  /\ wiped = {}

(* What a request that has begun does next.                                *)
Proceed(q) ==
  \/ \E c \in Conversations : savePrivate(q, c)
  \/ answer(q)
  \/ lastMessages(q)
  \/ deleteParticipants(q)
  \/ insertParticipants(q)
  \/ insertFails(q)

Existing == DOMAIN conversations

(* The handlers of ConversationController.                                 *)
createPrivate(q, u) ==
  \E dto \in CreatePrivateConversationDto :
    u \in dto.participantIds /\ findExisting(q, u, dto)

createGroup(u) ==
  \E c \in Conversations, dto \in CreateGroupConversationDto : createGroupChat(u, c, dto)

postParticipant(q, u, c) ==
  \E dto \in AddParticipantDto : addParticipant(q, u, dto.userId, c)

deleteParticipant(q, u, c) == \E p \in Users : removeParticipant(q, u, p, c)

leaveConversation(q, u, c) == removeParticipant(q, u, u, c)

putTitle(q, u, c) ==
  \E dto \in UpdateConversationTitleDto : updateConversationTitle(q, u, c, dto)

postArchive(q, u, c) == archiveConversation(q, u, c)

postUnarchive(q, u, c) == unarchiveConversation(q, u, c)

getConversations(q, u) == getUserConversations(q, u)

ConversationController(q, u) ==
  \/ createPrivate(q, u)
  \/ getConversations(q, u)
  \/ \E c \in Existing :
       \/ postParticipant(q, u, c)
       \/ deleteParticipant(q, u, c)
       \/ leaveConversation(q, u, c)
       \/ putTitle(q, u, c)
       \/ postArchive(q, u, c)
       \/ postUnarchive(q, u, c)

-----------------------------------------------------------------------------
(* Only the initial members and those the creator added are ever           *)
(* participants, or shown the conversation, although every request writes  *)
(* back a list it read before other requests changed the rows.             *)
OnlyInvited ==
  /\ \A c \in Existing, u \in Users : getConversationById(c, u) => u \in invited[c]
  /\ \A q \in Requests :
       req[q].pc = "listed" => \A c \in req[q].shown : req[q].user \in invited[c]

(* Rewriting the rows never costs the creator of a group the role of admin *)
(* and never gives it to anybody else.                                     *)
CreatorIsAdmin ==
  \A c \in DOMAIN creator :
    Loadable(c) => \A u \in Users : isAdmin(c, u) <=> u = creator[c]

(* A private conversation always has the two it was created for or, while  *)
(* its rows are rewritten, nobody; and whoever asks for a conversation is  *)
(* given a private one of users asked for, so that who asks for two is     *)
(* given theirs, never somebody else's whose rows are being rewritten      *)
(* (which findByParticipants matches).                                     *)
PrivateForThePair ==
  /\ \A c \in Existing :
       isPrivate(c) =>
         Cardinality(invited[c]) = 2 /\ DOMAIN participants[c] \in {{}, invited[c]}
  /\ \A q \in Requests :
       req[q].pc = "opened" =>
         isPrivate(req[q].conv) /\ invited[req[q].conv] \subseteq req[q].asked

(* Whoever is answered a private conversation is one of its two, as the    *)
(* controller requires ("You must be a participant in the conversation")   *)
(* and the DTO assumes ("exactly 2 user IDs"): not so, who asks for three  *)
(* is answered the conversation of the two others.                         *)
PrivateForTheAsker ==
  \A q \in Requests : req[q].pc = "opened" => req[q].by \in invited[req[q].conv]

=============================================================================
