--------------------------- MODULE MessagesProofs ---------------------------
(***************************************************************************)
(* Conversations and Messages for every number of users, conversations,    *)
(* messages and overlapping requests.                                      *)
(*                                                                         *)
(* None of the invariants is inductive: what a request writes is what it   *)
(* read some steps before.  So the inductive invariant says the same of    *)
(* the rows that are stored, of the lists of participants requests hold,   *)
(* and of the drafts and copies of messages.                               *)
(***************************************************************************)
EXTENDS Messages, MapTheorems, FiniteSetTheorems

(* What holds of the participants of c, whether stored or about to be      *)
(* stored: they were invited, a private conversation has all of its two,   *)
(* and the admin of a group is its creator.                                *)
Sound(c, list) ==
  /\ c \in Existing
  /\ DOMAIN list # {} /\ DOMAIN list \subseteq invited[c]
  /\ ~conversations[c] => DOMAIN list = invited[c] /\ \A u \in DOMAIN list : list[u].role = "member"
  /\ conversations[c] => /\ creator[c] \in DOMAIN list
                         /\ \A u \in DOMAIN list : list[u].role = "admin" <=> u = creator[c]

RowsSound == \A c \in Existing : Loadable(c) => Sound(c, Loaded(c))

PairsInvited == \A c \in Existing : ~conversations[c] => invited[c] \in Pairs

(* A request that moves through the conversations.                         *)
RequestSound(r) ==
  /\ r.pc \in {"delete", "insert"} => Sound(r.conv, r.list)
  /\ r.pc = "opened" =>
       r.conv \in Existing /\ ~conversations[r.conv] /\ invited[r.conv] \subseteq r.asked
  /\ r.pc = "list" => r.shown \subseteq Existing
  /\ r.pc = "listed" =>
       r.shown \subseteq Existing /\ \A c \in r.shown : r.user \in invited[c]

RequestsSound == \A q \in Requests : RequestSound(req[q])

(* A copy of a message, other than an edit, has the content its sender     *)
(* gave it last, unless it is overtaken.                                   *)
Current(copy) ==
  copy.id \in DOMAIN messages => copy.content = edited[copy.id] \/ copy.id \in overtaken

OpSound(o) ==
  /\ o.pc \in {"save", "reply"} =>
       Sound(o.draft.conv, o.draft.list) /\ o.draft.user \in invited[o.draft.conv]
  /\ o.pc \in {"access", "update"} =>
       /\ ~o.copy.isRead /\ ~o.copy.delivered
       /\ o.copy.id \in DOMAIN messages \cup deleted
  /\ o.pc = "access" \/ (o.pc = "update" /\ ~o.edit) => Current(o.copy)

OpsSound == \A q \in Requests : OpSound(op[q])

MessagesSound ==
  /\ DOMAIN edited = DOMAIN messages
  /\ \A m \in DOMAIN messages :
       /\ m \notin deleted
       /\ ~messages[m].isRead
       /\ messages[m].content = edited[m] \/ m \in overtaken
       /\ messages[m].conversation \in Existing
       /\ messages[m].sender \in invited[messages[m].conversation]

IInv ==
  /\ MessagesTypeOK
  /\ RowsSound
  /\ PairsInvited
  /\ RequestsSound
  /\ OpsSound
  /\ MessagesSound

-----------------------------------------------------------------------------
(* What no step takes back: conversations stay, of their kind and with     *)
(* their creator; who was invited stays so; and a private conversation     *)
(* invites nobody else.                                                    *)
Grows ==
  /\ Existing \subseteq Existing'
  /\ \A c \in Existing :
       /\ conversations'[c] = conversations[c]
       /\ invited[c] \subseteq invited'[c]
       /\ ~conversations[c] => invited'[c] = invited[c]
       /\ conversations[c] => creator'[c] = creator[c]

LEMMA SameGrows == UNCHANGED <<conversations, creator, invited>> => Grows
  BY DEF Grows, Existing

LEMMA SoundStable ==
  ASSUME Grows, NEW c, NEW list, Sound(c, list)
  PROVE  Sound(c, list)'
  BY DEF Grows, Sound, Existing

LEMMA RequestStable ==
  ASSUME Grows, NEW r, RequestSound(r)
  PROVE  RequestSound(r)'
<1>1. r.pc \in {"delete", "insert"} => Sound(r.conv, r.list)'
  BY SoundStable DEF RequestSound
<1>2. r.pc = "opened" =>
        r.conv \in Existing' /\ ~conversations'[r.conv] /\ invited'[r.conv] \subseteq r.asked
  BY DEF RequestSound, Grows
<1>3. /\ r.pc = "list" => r.shown \subseteq Existing'
      /\ r.pc = "listed" =>
           r.shown \subseteq Existing' /\ \A c \in r.shown : r.user \in invited'[c]
  BY DEF RequestSound, Grows
<1> QED
  BY <1>1, <1>2, <1>3 DEF RequestSound

LEMMA OpStable ==
  ASSUME Grows, NEW o, OpSound(o),
         DOMAIN messages \cup deleted \subseteq (DOMAIN messages \cup deleted)',
         o.pc = "access" \/ (o.pc = "update" /\ ~o.edit) => Current(o.copy)'
  PROVE  OpSound(o)'
<1>1. o.pc \in {"save", "reply"} =>
        Sound(o.draft.conv, o.draft.list)' /\ o.draft.user \in invited'[o.draft.conv]
  BY SoundStable DEF OpSound, Sound, Grows
<1> QED
  BY <1>1 DEF OpSound

(* A request that moves on, and the others.                                *)
LEMMA GotoFacts ==
  ASSUME TypeOK, NEW q \in Requests, NEW r \in Request, Goto(q, r)
  PROVE  /\ req' \in [Requests -> Request]
         /\ req'[q] = r
         /\ \A p \in Requests : p # q => req'[p] = req[p]
  BY DEF Goto, TypeOK

LEMMA GotoOpFacts ==
  ASSUME MessagesTypeOK, NEW q \in Requests, NEW o \in Op, GotoOp(q, o)
  PROVE  /\ op' \in [Requests -> Op]
         /\ op'[q] = o
         /\ \A p \in Requests : p # q => op'[p] = op[p]
  BY DEF GotoOp, MessagesTypeOK

(* The local data of a request at each point of its use case.              *)
LEMMA RequestShape ==
  ASSUME NEW r \in Request
  PROVE  /\ r.pc \in {"delete", "insert"} =>
              /\ r.conv \in Conversations /\ r.list \in Lists
              /\ [r EXCEPT !.pc = "insert"] = [pc |-> "insert", conv |-> r.conv, list |-> r.list]
         /\ r.pc = "save" => r.by \in Users /\ r.pair \in Pairs
         /\ r.pc = "opened" => r.conv \in Conversations
         /\ r.pc \in {"list", "listed"} =>
              /\ r.user \in Users /\ r.shown \subseteq Conversations
              /\ [r EXCEPT !.pc = "listed"] = [pc |-> "listed", user |-> r.user, shown |-> r.shown]
  BY DEF Request, Idle

LEMMA OpShape ==
  ASSUME NEW o \in Op
  PROVE  /\ o.pc \in {"save", "reply"} => o.draft \in Draft
         /\ o.pc = "reply" => o.to \in Messages
         /\ o.pc = "access" => o.user \in Users /\ o.for \in Emojis \cup {"read"}
         /\ o.pc \in {"access", "update"} => o.copy \in Message
         /\ o.pc = "unread" => o.user \in Users /\ o.conv \in Conversations
         /\ o.pc = "update" => o.edit \in BOOLEAN
         /\ o.pc = "delete" => o.id \in Messages
  BY DEF Op, Idle

LEMMA IdleIsSound == Idle \in Request /\ Idle \in Op /\ RequestSound(Idle) /\ OpSound(Idle)
  BY DEF Idle, Request, Op, RequestSound, OpSound

-----------------------------------------------------------------------------
(* Steps that leave the messages and the requests about them alone.        *)
LEMMA MessagesUntouched ==
  ASSUME IInv, Grows, UNCHANGED messageVars
  PROVE  OpsSound' /\ MessagesSound'
<1>1. UNCHANGED <<messages, op, edited, overtaken, deleted>>
  BY DEF messageVars, messageHistory
<1>2. ASSUME NEW q \in Requests
      PROVE  OpSound(op[q])'
  <2>1. OpSound(op[q])
    BY DEF IInv, OpsSound
  <2>2. op'[q] = op[q]
    BY <1>1
  <2>3. op[q].pc = "access" \/ (op[q].pc = "update" /\ ~op[q].edit) => Current(op[q].copy)
    BY <2>1 DEF OpSound
  <2>4. ASSUME NEW o, OpSound(o),
               o.pc = "access" \/ (o.pc = "update" /\ ~o.edit) => Current(o.copy)
        PROVE  OpSound(o)'
    BY <1>1, <2>4, OpStable DEF Current
  <2> QED
    BY <2>1, <2>2, <2>3, <2>4
<1>3. OpsSound'
  BY <1>2 DEF OpsSound
<1>4. MessagesSound'
  BY <1>1 DEF IInv, MessagesSound, Grows
<1> QED
  BY <1>3, <1>4

(* Steps that move the request q, or none.                                 *)
LEMMA OtherRequests ==
  ASSUME IInv, Grows, NEW q \in Requests,
         \A p \in Requests : p # q => req'[p] = req[p],
         NEW r, req'[q] = r, RequestSound(r)'
  PROVE  RequestsSound'
<1> SUFFICES ASSUME NEW p \in Requests
             PROVE  RequestSound(req[p])'
  BY DEF RequestsSound
<1>1. CASE p = q
  BY <1>1
<1>2. CASE p # q
  <2>1. RequestSound(req[p]) /\ req'[p] = req[p]
    BY <1>2 DEF IInv, RequestsSound
  <2>2. ASSUME NEW x, RequestSound(x) PROVE RequestSound(x)'
    BY <2>2, RequestStable
  <2> QED
    BY <2>1, <2>2
<1> QED
  BY <1>1, <1>2

LEMMA SameRows ==
  ASSUME IInv, UNCHANGED <<tables, creator>>, Grows
  PROVE  RowsSound' /\ PairsInvited'
<1>1. UNCHANGED <<conversations, participants, creator>>
  BY DEF tables
<1>2. RowsSound'
  <2> SUFFICES ASSUME NEW c \in Existing', Loadable(c)'
               PROVE  Sound(c, Loaded(c))'
    BY DEF RowsSound
  <2>1. Loaded(c)' = Loaded(c) /\ Sound(c, Loaded(c))
    BY <1>1 DEF IInv, RowsSound, Loaded, fromPrimitives, Loadable, Existing
  <2>2. ASSUME NEW list, Sound(c, list) PROVE Sound(c, list)'
    BY <2>2, SoundStable
  <2> QED
    BY <2>1, <2>2
<1>3. PairsInvited'
  BY <1>1 DEF IInv, PairsInvited, Grows, Existing
<1> QED
  BY <1>2, <1>3

(* A step that only moves a request of the conversations on.               *)
LEMMA RequestStep ==
  ASSUME IInv, NEW q \in Requests, NEW r \in Request, Goto(q, r), RequestSound(r),
         UNCHANGED <<tables, history, messageVars>>, op[q] = Idle \/ r = Idle
  PROVE  IInv'
<1>1. UNCHANGED <<conversations, participants, creator, invited, wiped>>
  BY DEF tables, history
<1>2. Grows
  BY <1>1, SameGrows
<1>3. /\ req' \in [Requests -> Request]
      /\ req'[q] = r
      /\ \A p \in Requests : p # q => req'[p] = req[p]
  BY GotoFacts DEF IInv, MessagesTypeOK
<1>4. MessagesTypeOK'
  BY <1>1, <1>3 DEF IInv, MessagesTypeOK, TypeOK, messageVars, messageHistory
<1>5. RowsSound' /\ PairsInvited'
  BY <1>1, <1>2, SameRows
<1>6. RequestsSound'
  BY <1>2, <1>3, RequestStable, OtherRequests
<1>7. OpsSound' /\ MessagesSound'
  BY <1>2, MessagesUntouched
<1> QED
  BY <1>4, <1>5, <1>6, <1>7 DEF IInv

(* A step that only moves a request of the messages on.                    *)
LEMMA OpStep ==
  ASSUME IInv, NEW q \in Requests, NEW o \in Op, GotoOp(q, o), OpSound(o),
         UNCHANGED <<vars, messages, messageHistory>>, req[q] = Idle \/ o = Idle
  PROVE  IInv'
<1>1. /\ UNCHANGED <<conversations, participants, creator, invited, wiped, req>>
      /\ UNCHANGED <<messages, edited, overtaken, deleted>>
  BY DEF vars, tables, history, messageHistory
<1>2. Grows
  BY <1>1, SameGrows
<1>3. /\ op' \in [Requests -> Op]
      /\ op'[q] = o
      /\ \A p \in Requests : p # q => op'[p] = op[p]
  BY GotoOpFacts DEF IInv
<1>4. MessagesTypeOK'
  BY <1>1, <1>3 DEF IInv, MessagesTypeOK, TypeOK
<1>5. RowsSound' /\ PairsInvited'
  BY <1>1, <1>2, SameRows DEF tables
<1>6. RequestsSound'
  BY <1>1 DEF IInv, RequestsSound, RequestSound, Sound, Existing
<1>7. ASSUME NEW x, OpSound(x) PROVE OpSound(x)'
  BY <1>1, <1>2, <1>7, OpStable DEF Current, OpSound
<1>8. OpsSound'
  BY <1>3, <1>7 DEF IInv, OpsSound
<1>9. MessagesSound'
  BY <1>1 DEF IInv, MessagesSound, Existing
<1> QED
  BY <1>4, <1>5, <1>6, <1>8, <1>9 DEF IInv

-----------------------------------------------------------------------------
(* Lists of participants.                                                  *)
LEMMA ListType ==
  ASSUME NEW list
  PROVE  list \in Lists <=> DOMAIN list \subseteq Users /\ list \in [DOMAIN list -> Participant]
<1>1. list \in Lists => DOMAIN list \subseteq Users /\ list \in [DOMAIN list -> Participant]
  BY DEF Lists
<1>2. ASSUME DOMAIN list \subseteq Users, list \in [DOMAIN list -> Participant]
      PROVE  list \in Lists
  BY <1>2 DEF Lists
<1> QED
  BY <1>1, <1>2

LEMMA MemberType ==
  ASSUME NEW rows
  PROVE  rows \in Members <=> DOMAIN rows \subseteq Users /\ rows \in [DOMAIN rows -> Roles]
<1>1. rows \in Members => DOMAIN rows \subseteq Users /\ rows \in [DOMAIN rows -> Roles]
  BY DEF Members
<1>2. ASSUME DOMAIN rows \subseteq Users, rows \in [DOMAIN rows -> Roles]
      PROVE  rows \in Members
  BY <1>2 DEF Members
<1> QED
  BY <1>1, <1>2

LEMMA LoadedFacts ==
  ASSUME TypeOK, NEW c \in Existing
  PROVE  /\ c \in Conversations
         /\ Loaded(c) \in Lists
         /\ DOMAIN Loaded(c) = DOMAIN participants[c]
         /\ \A u \in DOMAIN Loaded(c) : ~Loaded(c)[u].left
         /\ \A u \in DOMAIN Loaded(c) : Loaded(c)[u].role = participants[c][u]
<1>1. participants[c] \in Members /\ c \in Conversations
  BY DEF TypeOK, IsMap, Existing
<1>2. DOMAIN participants[c] \subseteq Users /\ participants[c] \in [DOMAIN participants[c] -> Roles]
  BY <1>1, MemberType
<1>3. Loaded(c) \in [DOMAIN participants[c] -> Participant]
  BY <1>2 DEF Loaded, fromPrimitives, Participant
<1>4. Loaded(c) \in Lists
  BY <1>2, <1>3, ListType
<1> QED
  BY <1>1, <1>2, <1>4 DEF Loaded, fromPrimitives

(* Who has access was invited, and the conversation as loaded is sound.    *)
LEMMA AccessFacts ==
  ASSUME IInv, NEW c \in Existing, NEW u, hasAccess(c, u)
  PROVE  /\ Loaded(c) \in Lists /\ Sound(c, Loaded(c)) /\ c \in Conversations
         /\ u \in DOMAIN Loaded(c) /\ u \in invited[c]
<1>1. Loadable(c) /\ u \in DOMAIN Loaded(c)
  BY DEF hasAccess, isParticipant
<1>2. Sound(c, Loaded(c))
  BY <1>1 DEF IInv, RowsSound
<1> QED
  BY <1>1, <1>2, LoadedFacts DEF IInv, MessagesTypeOK, Sound

(* Only the creator of a group may administrate it.                        *)
LEMMA AdminIsCreator ==
  ASSUME IInv, NEW c \in Existing, NEW u, isAdmin(c, u)
  PROVE  conversations[c] /\ u = creator[c]
<1>1. Sound(c, Loaded(c)) /\ u \in DOMAIN Loaded(c) /\ Loaded(c)[u].role = "admin"
  BY AccessFacts, LoadedFacts DEF isAdmin, IInv, MessagesTypeOK
<1>2. conversations[c] \in BOOLEAN
  BY DEF IInv, MessagesTypeOK, TypeOK, IsMap, Existing
<1> QED
  BY <1>1, <1>2 DEF Sound

(* Leaving takes nobody from the list that is written back.                *)
LEMMA LeftBySound ==
  ASSUME NEW c, NEW list \in Lists, NEW u \in DOMAIN list, Sound(c, list)
  PROVE  leftBy(list, u) \in Lists /\ Sound(c, leftBy(list, u))
<1>1. DOMAIN list \subseteq Users /\ list \in [DOMAIN list -> Participant]
  BY ListType
<1>2. /\ DOMAIN leftBy(list, u) = DOMAIN list
      /\ leftBy(list, u) \in [DOMAIN list -> Participant]
      /\ \A v \in DOMAIN list : leftBy(list, u)[v].role = list[v].role
  BY <1>1 DEF leftBy, Participant
<1>3. leftBy(list, u) \in Lists
  BY <1>1, <1>2, ListType
<1> QED
  BY <1>2, <1>3 DEF Sound

-----------------------------------------------------------------------------
(* The requests of the conversations that write nothing yet.               *)
LEMMA RewriteStep ==
  ASSUME IInv, NEW q \in Requests, NEW u \in Users, NEW c \in Existing, rewrite(q, u, c),
         Free(q), UNCHANGED messageVars
  PROVE  IInv'
<1> DEFINE r == [pc |-> "delete", conv |-> c, list |-> Loaded(c)]
<1>1. hasAccess(c, u) /\ Goto(q, r) /\ UNCHANGED <<tables, history>>
  BY DEF rewrite
<1>2. r \in Request /\ RequestSound(r)
  BY <1>1, AccessFacts DEF Request, RequestSound
<1> QED
  BY <1>1, <1>2, RequestStep DEF Free

LEMMA RemoveStep ==
  ASSUME IInv, NEW q \in Requests, NEW by \in Users, NEW u \in Users, NEW c \in Existing,
         removeParticipant(q, by, u, c), Free(q), UNCHANGED messageVars
  PROVE  IInv'
<1> DEFINE r == [pc |-> "delete", conv |-> c, list |-> leftBy(Loaded(c), u)]
<1>1. u \in DOMAIN Loaded(c) /\ Goto(q, r) /\ UNCHANGED <<tables, history>>
  BY DEF removeParticipant, mayBeRemoved, isParticipant
<1>2. Loaded(c) \in Lists /\ c \in Conversations /\ Sound(c, Loaded(c))
  BY <1>1, LoadedFacts DEF IInv, MessagesTypeOK, RowsSound, Loadable
<1>3. r \in Request /\ RequestSound(r)
  BY <1>1, <1>2, LeftBySound DEF Request, RequestSound
<1> QED
  BY <1>1, <1>3, RequestStep DEF Free

LEMMA FindExistingStep ==
  ASSUME IInv, NEW q \in Requests, NEW u \in Users, NEW dto \in CreatePrivateConversationDto,
         findExisting(q, u, dto), Free(q), UNCHANGED messageVars
  PROVE  IInv'
<1> DEFINE ids == dto.participantIds
<1>1. AllLoadable(FoundFor(ids)) /\ UNCHANGED <<tables, history>>
  BY DEF findExisting
<1>2. ids \in SUBSET Users
  BY DEF CreatePrivateConversationDto
<1>3. ASSUME createPrivateConversation(dto), Goto(q, [pc |-> "save", by |-> u, pair |-> ids])
      PROVE  IInv'
  <2>1. ids \in Pairs
    BY <1>2, <1>3 DEF createPrivateConversation, Pairs
  <2>2. /\ [pc |-> "save", by |-> u, pair |-> ids] \in Request
        /\ RequestSound([pc |-> "save", by |-> u, pair |-> ids])
    BY <2>1 DEF Request, RequestSound
  <2> QED
    BY <1>1, <1>3, <2>2, RequestStep DEF Free
<1>4. ASSUME NEW c \in FoundFor(ids), isPrivate(c),
             Goto(q, [pc |-> "opened", by |-> u, asked |-> ids, conv |-> c])
      PROVE  IInv'
  <2>1. c \in Existing /\ DOMAIN participants[c] \subseteq ids /\ Loadable(c)
    BY <1>1, <1>4 DEF FoundFor, AllLoadable, Existing
  <2>2. ~conversations[c] /\ invited[c] = DOMAIN participants[c]
    BY <1>4, <2>1, LoadedFacts DEF isPrivate, IInv, MessagesTypeOK, RowsSound, Sound
  <2>3. /\ [pc |-> "opened", by |-> u, asked |-> ids, conv |-> c] \in Request
        /\ RequestSound([pc |-> "opened", by |-> u, asked |-> ids, conv |-> c])
    BY <1>2, <2>1, <2>2, LoadedFacts DEF Request, RequestSound, IInv, MessagesTypeOK
  <2> QED
    BY <1>1, <1>4, <2>3, RequestStep DEF Free
<1> QED
  BY <1>3, <1>4 DEF findExisting

LEMMA ListConversationsStep ==
  ASSUME IInv, NEW q \in Requests, NEW u \in Users, getUserConversations(q, u), Free(q),
         UNCHANGED messageVars
  PROVE  IInv'
<1> DEFINE r == [pc |-> "list", user |-> u, shown |-> findByParticipant(u)]
<1>1. Goto(q, r) /\ UNCHANGED <<tables, history>>
  BY DEF getUserConversations
<1>2. findByParticipant(u) \subseteq Existing /\ Existing \subseteq Conversations
  BY DEF findByParticipant, Existing, IInv, MessagesTypeOK, TypeOK, IsMap
<1>3. r \in Request /\ RequestSound(r)
  BY <1>2 DEF Request, RequestSound
<1> QED
  BY <1>1, <1>3, RequestStep DEF Free

(* What a request that has begun does, without writing.                    *)
LEMMA BusyRequest ==
  ASSUME IInv, NEW q \in Requests, req[q].pc # "idle"
  PROVE  /\ op[q] = Idle
         /\ req[q] \in Request /\ RequestSound(req[q])
  BY DEF IInv, MessagesTypeOK, TypeOK, RequestsSound, Idle

LEMMA LastMessagesStep ==
  ASSUME IInv, NEW q \in Requests, lastMessages(q), UNCHANGED messageVars
  PROVE  IInv'
<1>1. req[q].pc = "list" /\ UNCHANGED <<tables, history>>
  BY DEF lastMessages
<1>2. op[q] = Idle /\ req[q] \in Request /\ req[q].shown \subseteq Existing
  BY <1>1, BusyRequest DEF RequestSound
<1>3. CASE Goto(q, Idle)
  BY <1>1, <1>2, <1>3, IdleIsSound, RequestStep
<1>4. CASE /\ \A c \in req[q].shown : hasAccess(c, req[q].user)
           /\ Goto(q, [req[q] EXCEPT !.pc = "listed"])
  <2> DEFINE r == [pc |-> "listed", user |-> req[q].user, shown |-> req[q].shown]
  <2>1. Goto(q, r) /\ r \in Request
    BY <1>1, <1>2, <1>4, RequestShape DEF Request
  <2>2. RequestSound(r)
    BY <1>2, <1>4, AccessFacts DEF RequestSound
  <2> QED
    BY <1>1, <1>2, <2>1, <2>2, RequestStep
<1> QED
  BY <1>3, <1>4 DEF lastMessages

LEMMA ForgetStep ==
  ASSUME IInv, NEW q \in Requests, answer(q) \/ insertFails(q), UNCHANGED messageVars
  PROVE  IInv'
<1>1. Goto(q, Idle) /\ UNCHANGED <<tables, history>>
  BY DEF answer, insertFails
<1> QED
  BY <1>1, IdleIsSound, RequestStep

-----------------------------------------------------------------------------
(* The steps that write.                                                   *)

(* A new conversation whose members are as they should be.                 *)
LEMMA CreateGrows ==
  ASSUME IInv, NEW c \in Conversations, NEW isGroup \in BOOLEAN, NEW members \in Members,
         Create(c, isGroup, members), DOMAIN members # {},
         IF isGroup THEN \E u \in DOMAIN members :
                           /\ creator' = With(creator, c, u)
                           /\ \A v \in DOMAIN members : members[v] = "admin" <=> v = u
                    ELSE /\ UNCHANGED creator
                         /\ \A v \in DOMAIN members : members[v] = "member"
                         /\ DOMAIN members \in Pairs
  PROVE  /\ Grows /\ RowsSound' /\ PairsInvited'
         /\ c \in Existing' /\ conversations'[c] = isGroup /\ invited'[c] = DOMAIN members
         /\ IsMap(conversations', Conversations, BOOLEAN)
         /\ participants' \in [DOMAIN conversations' -> Members]
         /\ creator' \in [{x \in DOMAIN conversations' : conversations'[x]} -> Users]
         /\ invited' \in [DOMAIN conversations' -> SUBSET Users]
         /\ wiped' = wiped
<1>1. /\ c \notin Existing
      /\ conversations' = With(conversations, c, isGroup)
      /\ participants' = With(participants, c, members)
      /\ invited' = With(invited, c, DOMAIN members)
      /\ wiped' = wiped
  BY DEF Create, Existing
<1>2. TypeOK
  BY DEF IInv, MessagesTypeOK
<1>3. /\ Existing' = Existing \cup {c}
      /\ conversations'[c] = isGroup
      /\ \A x \in Existing : conversations'[x] = conversations[x]
  BY <1>1 DEF With, Existing
<1>4. /\ DOMAIN participants' = Existing \cup {c}
      /\ participants'[c] = members
      /\ \A x \in Existing : participants'[x] = participants[x]
  BY <1>1, <1>2 DEF With, Existing, TypeOK
<1>5. /\ DOMAIN invited' = Existing \cup {c}
      /\ invited'[c] = DOMAIN members
      /\ \A x \in Existing : invited'[x] = invited[x]
  BY <1>1, <1>2 DEF With, Existing, TypeOK
<1>6. \A x \in Existing : conversations[x] => creator'[x] = creator[x]
  BY <1>1, <1>2 DEF With, Existing, TypeOK
<1>7. Grows
  BY <1>3, <1>5, <1>6 DEF Grows
<1>8. IsMap(conversations', Conversations, BOOLEAN)
  BY <1>1, <1>2, WithType DEF TypeOK
<1>9. participants' \in [DOMAIN conversations' -> Members]
  BY <1>1, <1>2 DEF With, TypeOK
<1>10. invited' \in [DOMAIN conversations' -> SUBSET Users]
  BY <1>1, <1>2, MemberType DEF With, TypeOK
<1>11. creator' \in [{x \in DOMAIN conversations' : conversations'[x]} -> Users]
  <2>1. CASE isGroup
    <3>1. PICK u \in DOMAIN members : creator' = With(creator, c, u)
      BY <2>1
    <3>2. u \in Users
      BY <3>1, MemberType
    <3>3. {x \in DOMAIN conversations' : conversations'[x]}
            = {x \in DOMAIN conversations : conversations[x]} \cup {c}
      BY <1>3, <2>1 DEF Existing
    <3> QED
      BY <1>2, <3>1, <3>2, <3>3 DEF With, TypeOK
  <2>2. CASE ~isGroup
    <3>1. {x \in DOMAIN conversations' : conversations'[x]}
            = {x \in DOMAIN conversations : conversations[x]}
      BY <1>3, <2>2 DEF Existing
    <3> QED
      BY <1>2, <2>2, <3>1 DEF TypeOK
  <2> QED
    BY <2>1, <2>2
<1>12. Sound(c, Loaded(c))'
  <2>1. /\ DOMAIN Loaded(c)' = DOMAIN members
        /\ \A u \in DOMAIN members : Loaded(c)'[u].role = members[u]
    BY <1>4 DEF Loaded, fromPrimitives
  <2>2. CASE isGroup
    <3>1. PICK u \in DOMAIN members : /\ creator' = With(creator, c, u)
                                      /\ \A v \in DOMAIN members : members[v] = "admin" <=> v = u
      BY <2>2
    <3>2. creator'[c] = u
      BY <3>1 DEF With
    <3> QED
      BY <1>3, <1>5, <2>1, <2>2, <3>1, <3>2 DEF Sound
  <2>3. CASE ~isGroup
    BY <1>3, <1>5, <2>1, <2>3 DEF Sound
  <2> QED
    BY <2>2, <2>3
<1>13. RowsSound'
  <2> SUFFICES ASSUME NEW x \in Existing', Loadable(x)', x # c
               PROVE  Sound(x, Loaded(x))'
    BY <1>12 DEF RowsSound
  <2>1. Loaded(x)' = Loaded(x) /\ Sound(x, Loaded(x))
    BY <1>3, <1>4 DEF IInv, RowsSound, Loaded, fromPrimitives, Loadable
  <2>2. ASSUME NEW list, Sound(x, list) PROVE Sound(x, list)'
    BY <1>7, <2>2, SoundStable
  <2> QED
    BY <2>1, <2>2
<1>14. PairsInvited'
  BY <1>3, <1>5 DEF PairsInvited, IInv
<1> QED
  BY <1>1, <1>3, <1>5, <1>7, <1>8, <1>9, <1>10, <1>11, <1>13, <1>14

LEMMA SavePrivateStep ==
  ASSUME IInv, NEW q \in Requests, NEW c \in Conversations, savePrivate(q, c),
         UNCHANGED messageVars
  PROVE  IInv'
<1> DEFINE members == [u \in req[q].pair |-> "member"]
<1>r. PICK r : r = [pc |-> "opened", by |-> req[q].by, asked |-> req[q].pair, conv |-> c]
  OBVIOUS
<1>1. /\ req[q].pc = "save" /\ Create(c, FALSE, members) /\ UNCHANGED creator
      /\ Goto(q, r)
  BY <1>r DEF savePrivate
<1>2. op[q] = Idle /\ req[q].by \in Users /\ req[q].pair \in Pairs
  BY <1>1, BusyRequest, RequestShape
<1>3. req[q].pair \subseteq Users /\ req[q].pair # {}
  BY <1>2, FS_EmptySet DEF Pairs
<1>4. members \in Members
  BY <1>3, MemberType DEF Roles
<1>5. /\ Grows /\ RowsSound' /\ PairsInvited'
      /\ c \in Existing' /\ conversations'[c] = FALSE /\ invited'[c] = req[q].pair
      /\ IsMap(conversations', Conversations, BOOLEAN)
      /\ participants' \in [DOMAIN conversations' -> Members]
      /\ creator' \in [{x \in DOMAIN conversations' : conversations'[x]} -> Users]
      /\ invited' \in [DOMAIN conversations' -> SUBSET Users]
      /\ wiped' = wiped
  BY <1>1, <1>2, <1>3, <1>4, CreateGrows
<1>6. r \in Request /\ RequestSound(r)'
  BY <1>2, <1>3, <1>5, <1>r DEF Request, RequestSound
<1>7. /\ req' \in [Requests -> Request]
      /\ req'[q] = r
      /\ \A p \in Requests : p # q => req'[p] = req[p]
  BY <1>1, <1>6, GotoFacts DEF IInv, MessagesTypeOK
<1>8. MessagesTypeOK'
  BY <1>2, <1>5, <1>7 DEF IInv, MessagesTypeOK, TypeOK, messageVars, messageHistory
<1>9. RequestsSound'
  BY <1>5, <1>6, <1>7, OtherRequests
<1> QED
  BY <1>5, <1>8, <1>9, MessagesUntouched DEF IInv

LEMMA CreateGroupStep ==
  ASSUME IInv, NEW u \in Users, createGroup(u), UNCHANGED messageVars
  PROVE  IInv'
<1>1. PICK c \in Conversations, dto \in CreateGroupConversationDto :
        createGroupConversation(u, c, dto.title, dto.participantIds \cup {u})
  BY DEF createGroup, createGroupChat
<1> DEFINE members == GroupOf(u, dto.participantIds \cup {u})
<1>2. /\ Create(c, TRUE, members) /\ creator' = With(creator, c, u) /\ UNCHANGED req
  BY <1>1 DEF createGroupConversation
<1>3. /\ members \in Members
      /\ u \in DOMAIN members
      /\ \A v \in DOMAIN members : members[v] = "admin" <=> v = u
  <2>1. dto.participantIds \cup {u} \subseteq Users
    BY DEF CreateGroupConversationDto
  <2> QED
    BY <2>1, MemberType DEF GroupOf, Roles
<1>4. /\ Grows /\ RowsSound' /\ PairsInvited'
      /\ IsMap(conversations', Conversations, BOOLEAN)
      /\ participants' \in [DOMAIN conversations' -> Members]
      /\ creator' \in [{x \in DOMAIN conversations' : conversations'[x]} -> Users]
      /\ invited' \in [DOMAIN conversations' -> SUBSET Users]
      /\ wiped' = wiped
  <2> HIDE DEF members
  <2> QED
    BY <1>2, <1>3, CreateGrows
<1>5. MessagesTypeOK'
  BY <1>2, <1>4 DEF IInv, MessagesTypeOK, TypeOK, messageVars, messageHistory
<1>6. RequestsSound'
  BY <1>2, <1>4, RequestStable DEF IInv, RequestsSound
<1> QED
  BY <1>4, <1>5, <1>6, MessagesUntouched DEF IInv

(* The creator adds somebody: the list to be written names who is invited  *)
(* from now on.                                                            *)
LEMMA AddStep ==
  ASSUME IInv, NEW q \in Requests, NEW by \in Users, NEW u \in Users, NEW c \in Existing,
         addParticipant(q, by, u, c), Free(q), UNCHANGED messageVars
  PROVE  IInv'
<1>l. PICK list : list = addedTo(Loaded(c), u)
  OBVIOUS
<1> DEFINE r == [pc |-> "delete", conv |-> c, list |-> list]
<1>1. /\ isAdmin(c, by) /\ Goto(q, r)
      /\ invited' = IF by = creator[c] THEN [invited EXCEPT ![c] = @ \cup {u}] ELSE invited
      /\ UNCHANGED <<conversations, participants, creator, wiped>>
  BY <1>l DEF addParticipant, tables
<1>2. conversations[c] /\ by = creator[c]
  BY <1>1, AdminIsCreator
<1>3. /\ Loaded(c) \in Lists /\ Sound(c, Loaded(c)) /\ c \in Conversations
      /\ \A v \in DOMAIN Loaded(c) : ~Loaded(c)[v].left
  BY <1>1, AccessFacts, LoadedFacts DEF isAdmin, IInv, MessagesTypeOK
<1>4. TypeOK
  BY DEF IInv, MessagesTypeOK
<1>5. /\ invited' \in [DOMAIN conversations -> SUBSET Users]
      /\ invited'[c] = invited[c] \cup {u}
      /\ \A x \in Existing : x # c => invited'[x] = invited[x]
  BY <1>1, <1>2, <1>4 DEF TypeOK, Existing
<1>6. Grows
  BY <1>1, <1>2, <1>5 DEF Grows, Existing
<1>7. u \notin DOMAIN Loaded(c)
  BY <1>3 DEF addParticipant, mayBeAdded, isParticipant
<1>8. /\ DOMAIN list = DOMAIN Loaded(c) \cup {u}
      /\ list[u].role = "member"
      /\ \A v \in DOMAIN Loaded(c) : list[v] = Loaded(c)[v]
  BY <1>7, <1>l DEF addedTo, With
<1>9. list \in Lists
  <2>1. DOMAIN Loaded(c) \subseteq Users /\ Loaded(c) \in [DOMAIN Loaded(c) -> Participant]
    BY <1>3, ListType
  <2>2. [role |-> "member", left |-> FALSE] \in Participant
    BY DEF Participant, Roles
  <2>3. DOMAIN list \subseteq Users /\ list \in [DOMAIN list -> Participant]
    BY <1>l, <2>1, <2>2 DEF addedTo, With
  <2> QED
    BY <2>3, ListType
<1>10. Sound(c, list)'
  <2>1. /\ creator[c] \in DOMAIN Loaded(c) /\ DOMAIN Loaded(c) \subseteq invited[c]
        /\ \A v \in DOMAIN Loaded(c) : Loaded(c)[v].role = "admin" <=> v = creator[c]
    BY <1>2, <1>3 DEF Sound
  <2>2. \A v \in DOMAIN list : list[v].role = "admin" <=> v = creator[c]
    BY <1>7, <1>8, <2>1
  <2> QED
    BY <1>1, <1>2, <1>5, <1>8, <2>1, <2>2 DEF Sound, Existing
<1>11. r \in Request /\ RequestSound(r)'
  BY <1>3, <1>9, <1>10 DEF Request, RequestSound
<1>12. /\ req' \in [Requests -> Request]
       /\ req'[q] = r
       /\ \A p \in Requests : p # q => req'[p] = req[p]
  BY <1>1, <1>4, <1>11, GotoFacts
<1>13. MessagesTypeOK'
  BY <1>1, <1>5, <1>12
  DEF IInv, MessagesTypeOK, TypeOK, messageVars, messageHistory, Free
<1>14. RequestsSound'
  BY <1>6, <1>11, <1>12, OtherRequests
<1>15. RowsSound' /\ PairsInvited'
  BY <1>1, <1>6, SameRows DEF tables
<1> QED
  BY <1>6, <1>13, <1>14, <1>15, MessagesUntouched DEF IInv

LEMMA DeleteParticipantsStep ==
  ASSUME IInv, NEW q \in Requests, deleteParticipants(q), UNCHANGED messageVars
  PROVE  IInv'
<1>c. PICK c : c = req[q].conv
  OBVIOUS
<1>r. PICK r : r = [pc |-> "insert", conv |-> c, list |-> req[q].list]
  OBVIOUS
<1>1. /\ req[q].pc = "delete"
      /\ participants' = [participants EXCEPT ![c] = [u \in {} |-> "member"]]
      /\ Goto(q, [req[q] EXCEPT !.pc = "insert"])
      /\ UNCHANGED <<conversations, creator, invited, wiped>>
  BY <1>c DEF deleteParticipants, history
<1>2. op[q] = Idle /\ req[q] \in Request /\ Sound(c, req[q].list)
  BY <1>1, <1>c, BusyRequest DEF RequestSound
<1>3. Goto(q, r) /\ r \in Request /\ c \in Existing
  BY <1>1, <1>2, <1>c, <1>r, RequestShape DEF Request, Sound
<1>4. Grows
  BY <1>1, SameGrows
<1>5. TypeOK
  BY DEF IInv, MessagesTypeOK
<1>6. /\ participants' \in [DOMAIN conversations -> Members]
      /\ participants'[c] = [u \in {} |-> "member"]
      /\ \A x \in Existing : x # c => participants'[x] = participants[x]
  BY <1>1, <1>3, <1>5, MemberType DEF TypeOK, Existing
<1>7. RowsSound'
  BY <1>1, <1>6
  DEF IInv, RowsSound, Existing, Loadable, Loaded, fromPrimitives, Sound
<1>8. /\ req' \in [Requests -> Request]
      /\ req'[q] = r
      /\ \A p \in Requests : p # q => req'[p] = req[p]
  BY <1>3, <1>5, GotoFacts
<1>9. MessagesTypeOK'
  BY <1>1, <1>2, <1>6, <1>8
  DEF IInv, MessagesTypeOK, TypeOK, messageVars, messageHistory
<1>10. RequestSound(r)'
  BY <1>1, <1>2, <1>r DEF RequestSound, Sound, Existing
<1>11. RequestsSound'
  BY <1>4, <1>8, <1>10, OtherRequests
<1>12. PairsInvited'
  BY <1>1 DEF IInv, PairsInvited, Existing
<1> QED
  BY <1>4, <1>7, <1>9, <1>11, <1>12, MessagesUntouched DEF IInv

(* Rows are inserted only where there are none: all lists of a             *)
(* conversation share its creator, or both its members.                    *)
LEMMA InsertParticipantsStep ==
  ASSUME IInv, NEW q \in Requests, insertParticipants(q), UNCHANGED messageVars
  PROVE  IInv'
<1>c. PICK c : c = req[q].conv
  OBVIOUS
<1>l. PICK list : list = req[q].list
  OBVIOUS
<1>1. /\ req[q].pc = "insert"
      /\ DOMAIN participants[c] \cap DOMAIN list = {}
      /\ participants' = [participants EXCEPT ![c] = WithAll(participants[c], Stored(list))]
      /\ Goto(q, Idle)
      /\ UNCHANGED <<conversations, creator, invited, wiped>>
  BY <1>c, <1>l DEF insertParticipants, history, Collides
<1>2. req[q] \in Request /\ Sound(c, list) /\ list \in Lists
  BY <1>1, <1>c, <1>l, BusyRequest, RequestShape DEF RequestSound
<1>3. TypeOK
  BY DEF IInv, MessagesTypeOK
<1>4. c \in Existing /\ c \in Conversations
  BY <1>2, LoadedFacts, <1>3 DEF Sound
<1>5. DOMAIN participants[c] = {}
  <2> SUFFICES ASSUME Loadable(c) PROVE FALSE
    BY DEF Loadable
  <2>1. Sound(c, Loaded(c)) /\ DOMAIN Loaded(c) = DOMAIN participants[c]
    BY <1>3, <1>4, LoadedFacts DEF IInv, RowsSound
  <2>2. conversations[c] \in BOOLEAN
    BY <1>3, <1>4 DEF TypeOK, IsMap, Existing
  <2> QED
    BY <1>1, <1>2, <2>1, <2>2 DEF Sound
<1>6. /\ WithAll(participants[c], Stored(list)) = [u \in DOMAIN list |-> list[u].role]
      /\ DOMAIN list \subseteq Users
      /\ [u \in DOMAIN list |-> list[u].role] \in Members
  <2>1. WithAll(participants[c], Stored(list)) = [u \in DOMAIN list |-> list[u].role]
    BY <1>5 DEF WithAll, Stored
  <2>2. DOMAIN list \subseteq Users /\ list \in [DOMAIN list -> Participant]
    BY <1>2, ListType
  <2>3. [u \in DOMAIN list |-> list[u].role] \in [DOMAIN list -> Roles]
    BY <2>2 DEF Participant
  <2> QED
    BY <2>1, <2>2, <2>3, MemberType
<1>7. /\ participants' \in [DOMAIN conversations -> Members]
      /\ participants'[c] = [u \in DOMAIN list |-> list[u].role]
      /\ \A x \in Existing : x # c => participants'[x] = participants[x]
  BY <1>1, <1>3, <1>4, <1>6 DEF TypeOK, Existing
<1>8. Sound(c, Loaded(c))'
  <2>1. /\ DOMAIN Loaded(c)' = DOMAIN list
        /\ \A u \in DOMAIN list : Loaded(c)'[u].role = list[u].role
    BY <1>7 DEF Loaded, fromPrimitives
  <2> QED
    BY <1>1, <1>2, <2>1 DEF Sound, Existing
<1>9. RowsSound'
  BY <1>1, <1>7, <1>8
  DEF IInv, RowsSound, Existing, Loadable, Loaded, fromPrimitives, Sound
<1>10. /\ req' \in [Requests -> Request]
       /\ req'[q] = Idle
       /\ \A p \in Requests : p # q => req'[p] = req[p]
  BY <1>1, <1>3, IdleIsSound, GotoFacts
<1>11. MessagesTypeOK'
  BY <1>1, <1>7, <1>10
  DEF IInv, MessagesTypeOK, TypeOK, messageVars, messageHistory
<1>12. Grows
  BY <1>1, SameGrows
<1>13. RequestsSound'
  BY <1>10, <1>12, IdleIsSound, RequestStable, OtherRequests
<1>14. PairsInvited'
  BY <1>1 DEF IInv, PairsInvited, Existing
<1> QED
  BY <1>9, <1>11, <1>12, <1>13, <1>14, MessagesUntouched DEF IInv

(* A restart forgets all requests.                                         *)
LEMMA RestartStep == IInv /\ restart => IInv'
<1> SUFFICES ASSUME IInv, restart
             PROVE  IInv'
  OBVIOUS
<1>1. /\ UNCHANGED <<conversations, participants, creator, invited>>
      /\ UNCHANGED <<messages, edited, overtaken, deleted>>
      /\ req' = [q \in Requests |-> Idle] /\ op' = [q \in Requests |-> Idle]
      /\ wiped' = wiped \cup {req[q].conv : q \in Inserting}
  BY DEF restart, drop, tables, messageHistory
<1>2. Grows
  BY <1>1, SameGrows
<1>3. wiped' \subseteq Conversations
  BY <1>1, RequestShape DEF Inserting, IInv, MessagesTypeOK, TypeOK
<1>4. MessagesTypeOK'
  BY <1>1, <1>3, IdleIsSound DEF IInv, MessagesTypeOK, TypeOK
<1>5. RowsSound' /\ PairsInvited'
  BY <1>1, <1>2, SameRows DEF tables
<1>6. RequestsSound' /\ OpsSound'
  BY <1>1 DEF RequestsSound, OpsSound, RequestSound, OpSound, Idle
<1>7. MessagesSound'
  BY <1>1 DEF IInv, MessagesSound, Existing
<1> QED
  BY <1>4, <1>5, <1>6, <1>7 DEF IInv

-----------------------------------------------------------------------------
LEMMA ControllerStep ==
  ASSUME IInv, NEW q \in Requests, Free(q), NEW u \in Users, ConversationController(q, u),
         UNCHANGED messageVars
  PROVE  IInv'
<1>1. CASE createPrivate(q, u)
  BY <1>1, FindExistingStep DEF createPrivate
<1>2. CASE getConversations(q, u)
  BY <1>2, ListConversationsStep DEF getConversations
<1>3. ASSUME NEW c \in Existing, postParticipant(q, u, c) PROVE IInv'
  <2>1. PICK dto \in AddParticipantDto : addParticipant(q, u, dto.userId, c)
    BY <1>3 DEF postParticipant
  <2>2. dto.userId \in Users
    BY DEF AddParticipantDto
  <2> QED
    BY <2>1, <2>2, AddStep
<1>4. ASSUME NEW c \in Existing, deleteParticipant(q, u, c) \/ leaveConversation(q, u, c)
      PROVE  IInv'
  BY <1>4, RemoveStep DEF deleteParticipant, leaveConversation
<1>5. ASSUME NEW c \in Existing,
             putTitle(q, u, c) \/ postArchive(q, u, c) \/ postUnarchive(q, u, c)
      PROVE  IInv'
  BY <1>5, RewriteStep
  DEF putTitle, updateConversationTitle, postArchive, postUnarchive, archiveConversation,
      unarchiveConversation
<1> QED
  BY <1>1, <1>2, <1>3, <1>4, <1>5 DEF ConversationController

LEMMA ConversationStepIInv ==
  ASSUME IInv, ConversationStep, UNCHANGED messageVars
  PROVE  IInv'
<1>1. ASSUME NEW u \in Users, createGroup(u) PROVE IInv'
  BY <1>1, CreateGroupStep
<1>2. ASSUME NEW q \in Requests, Proceed(q) PROVE IInv'
  BY <1>2, SavePrivateStep, ForgetStep, LastMessagesStep, DeleteParticipantsStep,
     InsertParticipantsStep DEF Proceed
<1> QED
  BY <1>1, <1>2, ControllerStep DEF ConversationStep

-----------------------------------------------------------------------------
(* The messages.                                                           *)
LEMMA BusyOp ==
  ASSUME IInv, NEW q \in Requests, op[q].pc # "idle"
  PROVE  /\ req[q] = Idle
         /\ op[q] \in Op /\ OpSound(op[q])
  BY DEF IInv, MessagesTypeOK, OpsSound, Idle

LEMMA BeginFacts ==
  ASSUME IInv, NEW q \in Requests, NEW o \in Op, BeginOp(q, o), OpSound(o), Free(q),
         UNCHANGED messageHistory
  PROVE  IInv'
  BY OpStep DEF BeginOp, Free

(* What a message is loaded as.                                            *)
LEMMA CopyFacts ==
  ASSUME IInv, NEW m, Found(m)
  PROVE  /\ m \in Messages /\ messages[m] \in Row /\ mapToMessage(m) \in Message
         /\ ~mapToMessage(m).isRead /\ ~mapToMessage(m).delivered /\ mapToMessage(m).id = m
         /\ Current(mapToMessage(m))
<1>1. m \in Messages /\ messages[m] \in Row
  BY DEF IInv, MessagesTypeOK, IsMap, Found
<1>2. ~messages[m].isRead /\ (messages[m].content = edited[m] \/ m \in overtaken)
  BY DEF IInv, MessagesSound, Found
<1> QED
  BY <1>1, <1>2 DEF mapToMessage, Message, Row, Current

(* A loaded message cannot be marked as read: it was never delivered.      *)
LEMMA NeverRead ==
  ASSUME NEW copy, ~copy.delivered
  PROVE  markAsRead(copy) = Idle
  BY DEF markAsRead

LEMMA SendStep ==
  ASSUME IInv, NEW q \in Requests, NEW u \in Users, NEW c \in Existing, NEW content,
         hasAccess(c, u), Free(q), UNCHANGED messageHistory,
         \/ createTextMessage(q, u, c, content)
         \/ \E m \in Messages : createReplyMessage(q, u, c, content, m)
  PROVE  IInv'
<1>1. content \in Texts
  BY DEF createTextMessage, createReplyMessage, MessageContent
<1>2. /\ draftOf(u, c, content) \in Draft
      /\ Sound(c, Loaded(c)) /\ u \in invited[c]
  BY <1>1, AccessFacts DEF draftOf, Draft
<1>3. draftOf(u, c, content).conv = c /\ draftOf(u, c, content).list = Loaded(c)
        /\ draftOf(u, c, content).user = u
  BY DEF draftOf
<1>4. CASE createTextMessage(q, u, c, content)
  <2> DEFINE o == [pc |-> "save", draft |-> draftOf(u, c, content)]
  <2>1. BeginOp(q, o)
    BY <1>4 DEF createTextMessage
  <2>2. o \in Op /\ OpSound(o)
    BY <1>2, <1>3 DEF Op, OpSound
  <2> QED
    BY <2>1, <2>2, BeginFacts
<1>5. ASSUME NEW m \in Messages, createReplyMessage(q, u, c, content, m)
      PROVE  IInv'
  <2> DEFINE o == [pc |-> "reply", draft |-> draftOf(u, c, content), to |-> m]
  <2>1. BeginOp(q, o)
    BY <1>5 DEF createReplyMessage
  <2>2. o \in Op /\ OpSound(o)
    BY <1>2, <1>3 DEF Op, OpSound
  <2> QED
    BY <2>1, <2>2, BeginFacts
<1> QED
  BY <1>4, <1>5

LEMMA LoadStep ==
  ASSUME IInv, NEW q \in Requests, NEW u \in Users, NEW m, Found(m), Free(q),
         NEW why \in Emojis \cup {"read"}, UNCHANGED messageHistory,
         BeginOp(q, [pc |-> "access", user |-> u, copy |-> mapToMessage(m), for |-> why])
  PROVE  IInv'
<1> DEFINE o == [pc |-> "access", user |-> u, copy |-> mapToMessage(m), for |-> why]
<1>1. o \in Op /\ OpSound(o)
  BY CopyFacts DEF Op, OpSound, Found
<1> QED
  BY <1>1, BeginFacts

LEMMA EditStep ==
  ASSUME IInv, NEW q \in Requests, NEW u \in Users, NEW m \in Messages, NEW dto,
         editMessage(q, u, m, dto), Free(q)
  PROVE  IInv'
<1> DEFINE o == [pc |-> "update", edit |-> u = messages[m].sender,
                 copy |-> edit(mapToMessage(m), dto.newContent)]
<1>1. /\ Found(m) /\ messages[m].sender = u /\ dto.newContent \in Texts
      /\ BeginOp(q, o) /\ UNCHANGED messageHistory
  BY DEF editMessage, validateMessageOperation, MessageContent
<1>2. o.copy \in Message /\ ~o.copy.isRead /\ ~o.copy.delivered /\ o.copy.id = m
  BY <1>1, CopyFacts DEF edit, Message
<1>3. o \in Op /\ OpSound(o)
  BY <1>1, <1>2 DEF Op, OpSound, Found
<1> QED
  BY <1>1, <1>3, BeginFacts

LEMMA MessageControllerStep ==
  ASSUME IInv, NEW q \in Requests, Free(q), NEW u \in Users, MessageController(q, u)
  PROVE  IInv'
<1>1. ASSUME NEW c \in Existing, postText(q, u, c) \/ postMedia(q, u, c) \/ postReply(q, u, c)
      PROVE  IInv'
  BY <1>1, SendStep
  DEF postText, postMedia, postReply, sendTextMessage, sendMediaMessage, sendReplyMessage,
      createMediaMessage, SendReplyMessageDto
<1>2. ASSUME NEW c \in Existing, postReadAll(q, u, c)
      PROVE  IInv'
  <2> DEFINE o == [pc |-> "unread", user |-> u, conv |-> c]
  <2>1. BeginOp(q, o) /\ UNCHANGED messageHistory
    BY <1>2 DEF postReadAll, markConversationAsRead
  <2>2. o \in Op /\ OpSound(o)
    BY LoadedFacts DEF Op, OpSound, IInv, MessagesTypeOK
  <2> QED
    BY <2>1, <2>2, BeginFacts
<1>3. ASSUME NEW m \in Messages, putMessage(q, u, m)
      PROVE  IInv'
  BY <1>3, EditStep DEF putMessage
<1>4. ASSUME NEW m \in Messages, deleteById(q, u, m)
      PROVE  IInv'
  <2> DEFINE o == [pc |-> "delete", id |-> m]
  <2>1. BeginOp(q, o) /\ UNCHANGED messageHistory
    BY <1>4 DEF deleteById, deleteMessage
  <2>2. o \in Op /\ OpSound(o)
    BY DEF Op, OpSound
  <2> QED
    BY <2>1, <2>2, BeginFacts
<1>5. ASSUME NEW m \in Messages, postReaction(q, u, m)
      PROVE  IInv'
  <2>1. PICK dto \in AddReactionDto : addReaction(q, u, m, dto)
    BY <1>5 DEF postReaction
  <2> QED
    BY <2>1, LoadStep DEF addReaction, AddReactionDto
<1>6. ASSUME NEW m \in Messages, deleteReaction(q, u, m)
      PROVE  IInv'
  BY <1>6, LoadStep DEF deleteReaction, removeReaction, addReaction, Emojis
<1>7. ASSUME NEW m \in Messages, postRead(q, u, m)
      PROVE  IInv'
  BY <1>7, LoadStep DEF postRead, markMessageAsRead
<1> QED
  BY <1>1, <1>2, <1>3, <1>4, <1>5, <1>6, <1>7 DEF MessageController

-----------------------------------------------------------------------------
(* What a request about messages does next.                                *)
LEMMA FindRepliedStep ==
  ASSUME IInv, NEW q \in Requests, findReplied(q)
  PROVE  IInv'
<1>1. op[q].pc = "reply" /\ UNCHANGED <<vars, messages, messageHistory>>
  BY DEF findReplied
<1>2. req[q] = Idle /\ op[q].draft \in Draft /\ OpSound(op[q])
  BY <1>1, BusyOp, OpShape
<1>3. [pc |-> "save", draft |-> op[q].draft] \in Op
        /\ OpSound([pc |-> "save", draft |-> op[q].draft])
  BY <1>1, <1>2 DEF Op, OpSound
<1> QED
  BY <1>1, <1>2, <1>3, IdleIsSound, OpStep DEF findReplied

LEMMA AccessCheckStep ==
  ASSUME IInv, NEW q \in Requests, validateConversationAccess(q)
  PROVE  IInv'
<1>1. op[q].pc = "access" /\ UNCHANGED <<vars, messages, messageHistory>>
  BY DEF validateConversationAccess
<1>2. req[q] = Idle /\ op[q].copy \in Message /\ OpSound(op[q])
  BY <1>1, BusyOp, OpShape
<1>3. reacted(op[q].copy) \in Op /\ OpSound(reacted(op[q].copy))
  BY <1>1, <1>2 DEF reacted, Op, OpSound
<1>4. markAsRead(op[q].copy) = Idle
  BY <1>1, <1>2, NeverRead DEF OpSound
<1>5. GotoOp(q, Idle) \/ GotoOp(q, reacted(op[q].copy))
  BY <1>4 DEF validateConversationAccess
<1> QED
  BY <1>1, <1>2, <1>3, <1>5, IdleIsSound, OpStep

LEMMA MarkUnreadStep ==
  ASSUME IInv, NEW q \in Requests, markUnread(q)
  PROVE  IInv'
<1>1. \A m \in UnreadOf(op[q].conv, op[q].user) : markAsRead(mapToMessage(m)) = Idle
  BY CopyFacts, NeverRead DEF UnreadOf, Found
<1>2. GotoOp(q, Idle) /\ UNCHANGED <<vars, messages, messageHistory>>
  BY <1>1 DEF markUnread
<1> QED
  BY <1>2, IdleIsSound, OpStep

LEMMA RowGoneStep ==
  ASSUME IInv, NEW q \in Requests, rowGone(q)
  PROVE  IInv'
  BY IdleIsSound, OpStep DEF rowGone

(* What the steps that write a message leave of the conversations.         *)
LEMMA ConversationsUntouched ==
  ASSUME IInv, UNCHANGED vars
  PROVE  Grows /\ RowsSound' /\ PairsInvited' /\ RequestsSound' /\ TypeOK'
<1>1. UNCHANGED <<conversations, participants, creator, invited, wiped, req>>
  BY DEF vars, tables, history
<1>2. Grows
  BY <1>1, SameGrows
<1>3. RowsSound' /\ PairsInvited'
  BY <1>1, <1>2, SameRows DEF tables
<1>4. RequestsSound'
  BY <1>1 DEF IInv, RequestsSound, RequestSound, Sound, Existing
<1> QED
  BY <1>1, <1>2, <1>3, <1>4 DEF IInv, MessagesTypeOK, TypeOK

(* A message is stored, and its conversation is to be rewritten: nobody    *)
(* holds a copy of what was not stored before.                             *)
LEMMA SaveStep ==
  ASSUME IInv, NEW q \in Requests, NEW m \in Messages, save(q, m)
  PROVE  IInv'
<1>d. PICK d : d = op[q].draft
  OBVIOUS
<1> DEFINE r == [pc |-> "delete", conv |-> d.conv, list |-> d.list]
           row == [conversation |-> d.conv, sender |-> d.user, content |-> d.content,
                   isRead |-> FALSE]
<1>1. /\ op[q].pc = "save" /\ m \notin DOMAIN messages \cup deleted
      /\ messages' = With(messages, m, row)
      /\ edited' = With(edited, m, d.content)
      /\ Goto(q, r) /\ GotoOp(q, Idle)
      /\ UNCHANGED <<conversations, participants, creator, invited, wiped, overtaken, deleted>>
  BY <1>d DEF save, tables, history
<1>2. d \in Draft /\ Sound(d.conv, d.list) /\ d.user \in invited[d.conv]
  BY <1>1, <1>d, BusyOp, OpShape DEF OpSound
<1>3. r \in Request /\ RequestSound(r) /\ row \in Row /\ d.content \in Texts
        /\ d.conv \in Existing
  BY <1>2 DEF Draft, Request, RequestSound, Row, Sound
<1>4. /\ req' \in [Requests -> Request]
      /\ req'[q] = r
      /\ \A p \in Requests : p # q => req'[p] = req[p]
  BY <1>1, <1>3, GotoFacts DEF IInv, MessagesTypeOK
<1>5. /\ op' \in [Requests -> Op]
      /\ op'[q] = Idle
      /\ \A p \in Requests : p # q => op'[p] = op[p]
  BY <1>1, IdleIsSound, GotoOpFacts DEF IInv
<1>6. IsMap(messages', Messages, Row) /\ IsMap(edited', Messages, Texts)
  BY <1>1, <1>3, WithType DEF IInv, MessagesTypeOK
<1>7. MessagesTypeOK'
  BY <1>1, <1>4, <1>5, <1>6 DEF IInv, MessagesTypeOK, TypeOK
<1>8. Grows
  BY <1>1, SameGrows
<1>9. RowsSound' /\ PairsInvited'
  BY <1>1, <1>8, SameRows DEF tables
<1>10. RequestsSound'
  BY <1>3, <1>4, <1>8, RequestStable, OtherRequests
<1> HIDE DEF row, r
<1>11. /\ DOMAIN messages' = DOMAIN messages \cup {m} /\ messages'[m] = row
       /\ DOMAIN edited' = DOMAIN edited \cup {m} /\ edited'[m] = d.content
       /\ \A n \in DOMAIN messages : messages'[n] = messages[n]
       /\ \A n \in DOMAIN edited : edited'[n] = edited[n]
  BY <1>1 DEF IInv, MessagesSound, With
<1>12. MessagesSound'
  <2>1. /\ ~row.isRead /\ row.content = d.content /\ row.conversation \in Existing'
        /\ row.sender \in invited'[row.conversation]
    BY <1>1, <1>2, <1>3 DEF row, Existing
  <2> QED
    BY <1>1, <1>11, <2>1 DEF IInv, MessagesSound, Existing
<1>13. ASSUME NEW p \in Requests PROVE OpSound(op[p])'
  <2>1. CASE p = q
    BY <1>5, <2>1 DEF OpSound, Idle
  <2>2. CASE p # q
    <3>1. OpSound(op[p]) /\ op'[p] = op[p]
      BY <1>5, <2>2 DEF IInv, OpsSound
    <3>2. ASSUME NEW o, OpSound(o) PROVE OpSound(o)'
      <4>1. o.pc \in {"access", "update"} => o.copy.id # m
        BY <1>1, <3>2 DEF OpSound
      <4>2. o.pc = "access" \/ (o.pc = "update" /\ ~o.edit) => Current(o.copy)'
        BY <1>1, <1>11, <3>2, <4>1 DEF OpSound, Current, IInv, MessagesSound
      <4> QED
        BY <1>1, <1>8, <1>11, <3>2, <4>2, OpStable
    <3> QED
      BY <3>1, <3>2
  <2> QED
    BY <2>1, <2>2
<1>14. OpsSound'
  BY <1>13 DEF OpsSound
<1> QED
  BY <1>7, <1>9, <1>10, <1>12, <1>14 DEF IInv

(* A copy is written back.  Of an edit, those who hold another content     *)
(* make the message overtaken; anything else writes what was current.      *)
LEMMA UpdateStep ==
  ASSUME IInv, NEW q \in Requests, update(q)
  PROVE  IInv'
<1>c. PICK copy : copy = op[q].copy
  OBVIOUS
<1> DEFINE m == copy.id
<1>1. /\ op[q].pc = "update" /\ m \in DOMAIN messages
      /\ messages' = [messages EXCEPT ![m].content = copy.content, ![m].isRead = copy.isRead]
      /\ edited' = IF op[q].edit THEN [edited EXCEPT ![m] = copy.content] ELSE edited
      /\ overtaken' = IF op[q].edit /\ Stale(q, copy) # {} THEN overtaken \cup {m} ELSE overtaken
      /\ GotoOp(q, Idle) /\ UNCHANGED vars /\ deleted' = deleted
  BY <1>c DEF update, Found
<1>2. copy \in Message /\ ~copy.isRead /\ OpSound(op[q]) /\ op[q].edit \in BOOLEAN
  BY <1>1, <1>c, BusyOp, OpShape DEF OpSound
<1>3. copy.content \in Texts /\ copy.isRead \in BOOLEAN /\ m \in Messages
  BY <1>2 DEF Message
<1>4. /\ IsMap(messages, Messages, Row) /\ IsMap(edited, Messages, Texts)
      /\ DOMAIN edited = DOMAIN messages
  BY DEF IInv, MessagesTypeOK, MessagesSound
<1>5. /\ DOMAIN messages' = DOMAIN messages
      /\ messages'[m].content = copy.content /\ messages'[m].isRead = copy.isRead
      /\ messages'[m].conversation = messages[m].conversation
      /\ messages'[m].sender = messages[m].sender
      /\ \A n \in DOMAIN messages : n # m => messages'[n] = messages[n]
      /\ IsMap(messages', Messages, Row)
  BY <1>1, <1>3, <1>4 DEF IsMap, Row
<1>6. /\ DOMAIN edited' = DOMAIN edited
      /\ op[q].edit => edited'[m] = copy.content
      /\ ~op[q].edit => edited'[m] = edited[m]
      /\ \A n \in DOMAIN edited : n # m => edited'[n] = edited[n]
      /\ IsMap(edited', Messages, Texts)
  BY <1>1, <1>3, <1>4 DEF IsMap
<1>7. /\ op' \in [Requests -> Op]
      /\ op'[q] = Idle
      /\ \A p \in Requests : p # q => op'[p] = op[p]
  BY <1>1, IdleIsSound, GotoOpFacts DEF IInv
<1>8. Grows /\ RowsSound' /\ PairsInvited' /\ RequestsSound' /\ TypeOK'
  BY <1>1, ConversationsUntouched
<1>9. req' = req /\ invited' = invited /\ conversations' = conversations
  BY <1>1 DEF vars, tables, history
<1>10. overtaken \subseteq overtaken' /\ overtaken' \subseteq overtaken \cup {m}
  BY <1>1
<1>11. MessagesTypeOK'
  BY <1>1, <1>3, <1>5, <1>6, <1>7, <1>8, <1>9, <1>10 DEF IInv, MessagesTypeOK
<1>12. messages'[m].content = edited'[m] \/ m \in overtaken'
  BY <1>1, <1>2, <1>c, <1>5, <1>6, <1>10 DEF OpSound, Current
<1>13. MessagesSound'
  BY <1>1, <1>2, <1>5, <1>6, <1>9, <1>10, <1>12 DEF IInv, MessagesSound, Existing
<1>14. ASSUME NEW p \in Requests PROVE OpSound(op[p])'
  <2>1. CASE p = q
    BY <1>7, <2>1 DEF OpSound, Idle
  <2>2. CASE p # q
    <3>o. PICK o : o = op[p]
      OBVIOUS
    <3>1. OpSound(o) /\ o = op'[p]
      BY <1>7, <2>2, <3>o DEF IInv, OpsSound
    <3>2. ASSUME o.pc = "access" \/ (o.pc = "update" /\ ~o.edit)
          PROVE  Current(o.copy)'
      <4>1. Current(o.copy)
        BY <3>1, <3>2 DEF OpSound
      <4>2. CASE o.copy.id # m
        BY <1>5, <1>6, <1>10, <4>1, <4>2, <1>4 DEF Current
      <4>3. CASE o.copy.id = m /\ op[q].edit
        <5>1. o.copy.content # copy.content => p \in Stale(q, copy)
          BY <2>2, <3>o, <3>2, <4>3 DEF Stale
        <5> QED
          BY <1>1, <1>6, <4>3, <5>1 DEF Current
      <4>4. CASE o.copy.id = m /\ ~op[q].edit
        BY <1>1, <1>5, <1>6, <4>1, <4>4 DEF Current
      <4> QED
        BY <1>2, <4>2, <4>3, <4>4
    <3> QED
      BY <1>1, <1>5, <1>8, <3>1, <3>2, OpStable
  <2> QED
    BY <2>1, <2>2
<1>15. OpsSound'
  BY <1>14 DEF OpsSound
<1> QED
  BY <1>8, <1>11, <1>13, <1>15 DEF IInv

LEMMA DeleteStep ==
  ASSUME IInv, NEW q \in Requests, delete(q)
  PROVE  IInv'
<1>m. PICK m : m = op[q].id
  OBVIOUS
<1>1. /\ op[q].pc = "delete" /\ m \in DOMAIN messages
      /\ messages' = Without(messages, {m}) /\ edited' = Without(edited, {m})
      /\ deleted' = deleted \cup {m} /\ overtaken' = overtaken
      /\ GotoOp(q, Idle) /\ UNCHANGED vars
  BY <1>m DEF delete, Found
<1>2. /\ op' \in [Requests -> Op]
      /\ op'[q] = Idle
      /\ \A p \in Requests : p # q => op'[p] = op[p]
  BY <1>1, IdleIsSound, GotoOpFacts DEF IInv
<1>3. Grows /\ RowsSound' /\ PairsInvited' /\ RequestsSound' /\ TypeOK'
  BY <1>1, ConversationsUntouched
<1>4. req' = req /\ invited' = invited /\ conversations' = conversations
  BY <1>1 DEF vars, tables, history
<1>5. IsMap(messages', Messages, Row) /\ IsMap(edited', Messages, Texts) /\ m \in Messages
  <2>1. IsMap(messages, Messages, Row) /\ IsMap(edited, Messages, Texts)
    BY DEF IInv, MessagesTypeOK
  <2>2. m \in Messages
    BY <1>1, <2>1 DEF IsMap
  <2> QED
    BY <1>1, <2>1, <2>2, WithoutType
<1>6. MessagesTypeOK'
  BY <1>1, <1>2, <1>3, <1>4, <1>5 DEF IInv, MessagesTypeOK
<1>7. /\ DOMAIN messages' = DOMAIN messages \ {m} /\ DOMAIN edited' = DOMAIN edited \ {m}
      /\ \A n \in DOMAIN messages \ {m} : messages'[n] = messages[n]
      /\ \A n \in DOMAIN edited \ {m} : edited'[n] = edited[n]
  BY <1>1, WithoutFacts
<1>8. MessagesSound'
  BY <1>1, <1>4, <1>7 DEF IInv, MessagesSound, Existing
<1>9. ASSUME NEW o, OpSound(o) PROVE OpSound(o)'
  <2>1. o.pc = "access" \/ (o.pc = "update" /\ ~o.edit) => Current(o.copy)'
    BY <1>1, <1>7, <1>9 DEF OpSound, Current, IInv, MessagesSound
  <2> QED
    BY <1>1, <1>3, <1>7, <1>9, <2>1, OpStable
<1>10. OpsSound'
  BY <1>2, <1>9, IdleIsSound DEF IInv, OpsSound
<1> QED
  BY <1>3, <1>6, <1>8, <1>10 DEF IInv

LEMMA ProceedOpStep ==
  ASSUME IInv, NEW q \in Requests, ProceedOp(q)
  PROVE  IInv'
  BY FindRepliedStep, SaveStep, AccessCheckStep, MarkUnreadStep, UpdateStep, DeleteStep,
     RowGoneStep DEF ProceedOp

-----------------------------------------------------------------------------
LEMMA InitIInv == MessagesInit => IInv
<1> SUFFICES ASSUME MessagesInit
             PROVE  IInv
  OBVIOUS
<1>1. TypeOK
  BY IdleIsSound DEF MessagesInit, Init, TypeOK, IsMap, Empty
<1>2. MessagesTypeOK
  BY <1>1, IdleIsSound DEF MessagesInit, Init, MessagesTypeOK, IsMap, Empty
<1>3. RowsSound /\ PairsInvited /\ MessagesSound
  BY DEF MessagesInit, Init, RowsSound, PairsInvited, MessagesSound, Existing, Empty
<1>4. RequestsSound /\ OpsSound
  BY IdleIsSound DEF MessagesInit, Init, RequestsSound, OpsSound
<1> QED
  BY <1>2, <1>3, <1>4 DEF IInv

LEMMA NextIInv == IInv /\ [MessagesNext]_allVars => IInv'
<1> SUFFICES ASSUME IInv, [MessagesNext]_allVars
             PROVE  IInv'
  OBVIOUS
<1>1. CASE ConversationStep /\ UNCHANGED messageVars
  BY <1>1, ConversationStepIInv
<1>2. ASSUME NEW q \in Requests, Free(q), NEW u \in Users, MessageController(q, u)
      PROVE  IInv'
  BY <1>2, MessageControllerStep
<1>3. ASSUME NEW q \in Requests, ProceedOp(q)
      PROVE  IInv'
  BY <1>3, ProceedOpStep
<1>4. CASE restart
  BY <1>4, RestartStep
<1>5. CASE UNCHANGED allVars
  <2>1. UNCHANGED vars /\ UNCHANGED messageVars
    BY <1>5 DEF allVars
  <2> QED
    BY <2>1, ConversationsUntouched, MessagesUntouched
    DEF IInv, MessagesTypeOK, messageVars, messageHistory, vars
<1> QED
  BY <1>1, <1>2, <1>3, <1>4, <1>5 DEF MessagesNext

LEMMA SpecIInv == MessagesSpec => []IInv
<1>1. MessagesInit => IInv
  BY InitIInv
<1>2. IInv /\ [MessagesNext]_allVars => IInv'
  BY NextIInv
<1> QED
  BY <1>1, <1>2, PTL DEF MessagesSpec

-----------------------------------------------------------------------------
(* Whatever lists overlapping requests write back, and whenever the server *)
(* restarts between their statements: who was not invited by the creator   *)
(* never takes part in a conversation and is never shown it.               *)
THEOREM StrangersStayOut == MessagesSpec => []OnlyInvited
<1>1. IInv => OnlyInvited
  <2> SUFFICES ASSUME IInv
               PROVE  OnlyInvited
    OBVIOUS
  <2>1. \A c \in Existing, u \in Users : getConversationById(c, u) => u \in invited[c]
    BY AccessFacts DEF getConversationById
  <2>2. \A q \in Requests :
          req[q].pc = "listed" => \A c \in req[q].shown : req[q].user \in invited[c]
    BY DEF IInv, RequestsSound, RequestSound
  <2> QED
    BY <2>1, <2>2 DEF OnlyInvited
<1> QED
  BY <1>1, SpecIInv, PTL

(* A group that can be loaded has its creator, and nobody else, as admin.  *)
THEOREM CreatorStaysAdmin == MessagesSpec => []CreatorIsAdmin
<1>1. IInv => CreatorIsAdmin
  <2> SUFFICES ASSUME IInv, NEW c \in DOMAIN creator, Loadable(c), NEW u \in Users
               PROVE  isAdmin(c, u) <=> u = creator[c]
    BY DEF CreatorIsAdmin
  <2>1. c \in Existing /\ conversations[c]
    BY DEF IInv, MessagesTypeOK, TypeOK, Existing
  <2>2. Sound(c, Loaded(c))
    BY <2>1 DEF IInv, RowsSound
  <2>3. TypeOK
    BY DEF IInv, MessagesTypeOK
  <2> QED
    BY <2>1, <2>2, <2>3, LoadedFacts DEF isAdmin, hasAccess, isParticipant, Sound
<1> QED
  BY <1>1, SpecIInv, PTL

(* A private conversation is its two participants', and whoever asks for a *)
(* conversation is answered one of users asked for: who asks for two is    *)
(* answered theirs, although the query also finds conversations whose rows *)
(* are being rewritten.                                                    *)
THEOREM PrivateKeepsItsPair == MessagesSpec => []PrivateForThePair
<1>1. IInv => PrivateForThePair
  <2> SUFFICES ASSUME IInv
               PROVE  PrivateForThePair
    OBVIOUS
  <2>1. ASSUME NEW c \in Existing, isPrivate(c)
        PROVE  Cardinality(invited[c]) = 2 /\ DOMAIN participants[c] \in {{}, invited[c]}
    <3>1. Cardinality(invited[c]) = 2
      BY <2>1 DEF IInv, PairsInvited, Pairs, isPrivate
    <3>2. DOMAIN Loaded(c) = DOMAIN participants[c]
      BY LoadedFacts DEF IInv, MessagesTypeOK
    <3> QED
      BY <2>1, <3>1, <3>2 DEF IInv, RowsSound, Sound, Loadable, isPrivate
  <2>2. \A q \in Requests :
          req[q].pc = "opened" =>
            isPrivate(req[q].conv) /\ invited[req[q].conv] \subseteq req[q].asked
    BY DEF IInv, RequestsSound, RequestSound, isPrivate
  <2> QED
    BY <2>1, <2>2 DEF PrivateForThePair
<1> QED
  BY <1>1, SpecIInv, PTL

(* A message keeps the words its sender gave it last, unless another       *)
(* request had loaded it before; and its sender was invited.               *)
THEOREM WordsAreKept == MessagesSpec => []EditsKept
<1>1. IInv => EditsKept
  BY DEF IInv, MessagesSound, EditsKept
<1> QED
  BY <1>1, SpecIInv, PTL

(* What the run MessagesRead finds in one instance is so in every one: no  *)
(* message is ever stored as read, although two handlers say they do it.   *)
THEOREM NoMessageIsRead ==
  MessagesSpec => [](\A m \in DOMAIN messages : ~messages[m].isRead)
<1>1. IInv => \A m \in DOMAIN messages : ~messages[m].isRead
  BY DEF IInv, MessagesSound
<1> QED
  BY <1>1, SpecIInv, PTL
=============================================================================
