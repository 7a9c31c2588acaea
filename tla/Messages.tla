------------------------------- MODULE Messages ------------------------------
(***************************************************************************)
(* The messages of the conversations: MessageController and                *)
(* MessageUseCases over the table Message, composed with Conversations,    *)
(* whose participants decide who may send, react and read, and whose rows  *)
(* every sending rewrites.                                                 *)
(*                                                                         *)
(* A row keeps a content and whether it was read.  What else the message   *)
(* of the domain has (a delivery, reactions, an attachment, the message it *)
(* answers) is not stored, so a message that is loaded has none of it; yet *)
(* whoever reacts writes back the content as loaded.  The 24 hours within  *)
(* which an edit is allowed are left out: an edit may always be tried, and *)
(* need not be.                                                            *)
(***************************************************************************)
EXTENDS Conversations

CONSTANTS Messages,  \* message ids
          Texts      \* contents that are neither blank nor too long

VARIABLES
  messages,   \* Message: id -> [conversation, sender, content, isRead]
  op,         \* request -> where it is in a use case of the messages
  edited,     \* history: id -> what its sender last sent, or stored as an edit
  overtaken,  \* history: ids of which an edit was stored while another request
              \* held a copy with the content before
  deleted     \* history: ids of deleted messages

messageHistory == <<edited, overtaken, deleted>>
messageVars == <<messages, op, messageHistory>>
allVars == <<vars, messageVars>>

Row == [conversation : Conversations, sender : Users, content : Texts, isRead : BOOLEAN]

(* A message of the domain, as far as it is used.                          *)
Message == [id : Messages, content : Texts, isRead : BOOLEAN, delivered : BOOLEAN]

Draft == [user : Users, conv : Conversations, list : Lists, content : Texts]

Emojis == {"heart", "blank"}

Op ==
  {Idle}
    \cup [pc : {"save"}, draft : Draft]
    \cup [pc : {"reply"}, draft : Draft, to : Messages]
    \cup [pc : {"access"}, user : Users, copy : Message, for : Emojis \cup {"read"}]
    \cup [pc : {"unread"}, user : Users, conv : Conversations]
    \cup [pc : {"update"}, copy : Message, edit : BOOLEAN]
    \cup [pc : {"delete"}, id : Messages]

MessagesTypeOK ==
  /\ TypeOK
  /\ IsMap(messages, Messages, Row)
  /\ op \in [Requests -> Op]
  /\ \A q \in Requests : req[q] = Idle \/ op[q] = Idle
  /\ IsMap(edited, Messages, Texts)
  /\ overtaken \subseteq Messages
  /\ deleted \subseteq Messages

-----------------------------------------------------------------------------
Free(q) == req[q] = Idle /\ op[q] = Idle

GotoOp(q, r) == op' = [op EXCEPT ![q] = r]

BeginOp(q, r) ==
  /\ GotoOp(q, r)
  /\ UNCHANGED <<vars, messages>>

(* The delivery is not stored.                                             *)
mapToMessage(m) ==
  [id |-> m, content |-> messages[m].content, isRead |-> messages[m].isRead,
   delivered |-> FALSE]

Found(m) == m \in DOMAIN messages

-----------------------------------------------------------------------------
(* What a body may hold: IsNotEmpty lets a blank content pass, ...         *)
Contents == Texts \cup {"blank", "long"}

SendTextMessageDto == [content : Contents]

MessageType == {"image", "location"}

(* ... of a medium the caption may be missing, ...                         *)
SendMediaMessageDto == [type : MessageType, content : Contents \cup {"none"}]

SendReplyMessageDto == [content : Contents, replyToMessageId : Messages]

EditMessageDto == [newContent : Contents]

AddReactionDto == [emoji : Emojis]

(* ... and neither the validation nor the value object takes them.         *)
validateMessageContent(content) == content \notin {"blank", "long"}

MessageContent(content) == content \in Texts

(* What a sending makes.                                                   *)
draftOf(u, c, content) == [user |-> u, conv |-> c, list |-> Loaded(c), content |-> content]

createTextMessage(q, u, c, content) ==
  /\ MessageContent(content)
  /\ BeginOp(q, [pc |-> "save", draft |-> draftOf(u, c, content)])

createMediaMessage(q, u, c, type, content) ==
  /\ type \in {"image", "video", "audio", "document"}
  /\ createTextMessage(q, u, c, content)

sendTextMessage(q, u, c, dto) ==
  /\ hasAccess(c, u)
  /\ validateMessageContent(dto.content)
  /\ createTextMessage(q, u, c, dto.content)
  /\ UNCHANGED messageHistory

sendMediaMessage(q, u, c, dto) ==
  /\ hasAccess(c, u)
  /\ createMediaMessage(q, u, c, dto.type, dto.content)
  /\ UNCHANGED messageHistory

(* The message that is answered is looked for after the access was         *)
(* checked.                                                                *)
createReplyMessage(q, u, c, content, to) ==
  /\ MessageContent(content)
  /\ BeginOp(q, [pc |-> "reply", draft |-> draftOf(u, c, content), to |-> to])

sendReplyMessage(q, u, c, dto) ==
  /\ hasAccess(c, u)
  /\ validateMessageContent(dto.content)
  /\ createReplyMessage(q, u, c, dto.content, dto.replyToMessageId)
  /\ UNCHANGED messageHistory

findReplied(q) ==
  /\ op[q].pc = "reply"
  /\ GotoOp(q, IF Found(op[q].to) /\ messages[op[q].to].conversation = op[q].draft.conv
                 THEN [pc |-> "save", draft |-> op[q].draft] ELSE Idle)
  /\ UNCHANGED <<vars, messages, messageHistory>>

(* save, after which the use case updates the conversation it loaded       *)
(* before: its participants are rewritten.                                 *)
save(q, m) ==
  /\ op[q].pc = "save"
  /\ m \notin DOMAIN messages \cup deleted
  /\ LET d == op[q].draft IN
       /\ messages' = With(messages, m, [conversation |-> d.conv, sender |-> d.user,
                                         content |-> d.content, isRead |-> FALSE])
       /\ edited' = With(edited, m, d.content)
       /\ Goto(q, [pc |-> "delete", conv |-> d.conv, list |-> d.list])
  /\ GotoOp(q, Idle)
  /\ UNCHANGED <<tables, history, overtaken, deleted>>

-----------------------------------------------------------------------------
(* Mutant: anybody may do with a message what its sender may.              *)
AnybodysMessage(u, m) == Found(m)

validateMessageOperation(u, m) == Found(m) /\ messages[m].sender = u

edit(copy, newContent) == [copy EXCEPT !.content = newContent]

editMessage(q, u, m, dto) ==
  /\ validateMessageOperation(u, m)
  /\ validateMessageContent(dto.newContent)
  /\ MessageContent(dto.newContent)
  /\ BeginOp(q, [pc |-> "update", edit |-> u = messages[m].sender,
                 copy |-> edit(mapToMessage(m), dto.newContent)])
  /\ UNCHANGED messageHistory

deleteMessage(q, u, m) ==
  /\ validateMessageOperation(u, m)
  /\ BeginOp(q, [pc |-> "delete", id |-> m])
  /\ UNCHANGED messageHistory

(* addReaction and removeReaction load the message, ...                    *)
addReaction(q, u, m, dto) ==
  /\ Found(m)
  /\ BeginOp(q, [pc |-> "access", user |-> u, copy |-> mapToMessage(m), for |-> dto.emoji])
  /\ UNCHANGED messageHistory

(* (removing looks at no emoji)                                            *)
removeReaction(q, u, m) == addReaction(q, u, m, [emoji |-> "heart"])

(* ... and so does markMessageAsRead.                                      *)
markMessageAsRead(q, u, m) ==
  /\ Found(m)
  /\ BeginOp(q, [pc |-> "access", user |-> u, copy |-> mapToMessage(m), for |-> "read"])
  /\ UNCHANGED messageHistory

(* Message.markAsRead throws unless the message was delivered.             *)
markAsRead(copy) ==
  IF copy.delivered THEN [pc |-> "update", copy |-> [copy EXCEPT !.isRead = TRUE],
                          edit |-> FALSE]
                    ELSE Idle

(* The reaction goes to a map that is not stored.                          *)
reacted(copy) == [pc |-> "update", copy |-> copy, edit |-> FALSE]

(* Then the conversation is loaded and the access checked.                 *)
validateConversationAccess(q) ==
  /\ op[q].pc = "access"
  /\ LET o == op[q] IN
       GotoOp(q, CASE ~Found(o.copy.id) -> Idle
                   [] ~hasAccess(messages[o.copy.id].conversation, o.user) -> Idle
                   [] o.for = "read" -> markAsRead(o.copy)
                   [] o.for = "blank" -> Idle
                   [] OTHER -> reacted(o.copy))
  /\ UNCHANGED <<vars, messages, messageHistory>>

markConversationAsRead(q, u, c) ==
  /\ hasAccess(c, u)
  /\ BeginOp(q, [pc |-> "unread", user |-> u, conv |-> c])
  /\ UNCHANGED messageHistory

UnreadOf(c, u) ==
  {m \in DOMAIN messages : /\ messages[m].conversation = c
                           /\ messages[m].sender # u
                           /\ ~messages[m].isRead}

(* The first of them ends the loop by throwing.                            *)
markUnread(q) ==
  /\ op[q].pc = "unread"
  /\ LET unread == UnreadOf(op[q].conv, op[q].user) IN
       \/ unread = {} /\ GotoOp(q, Idle)
       \/ \E m \in unread : GotoOp(q, markAsRead(mapToMessage(m)))
  /\ UNCHANGED <<vars, messages, messageHistory>>

countUnreadMessages(c, u) == Cardinality(UnreadOf(c, u))

(* Who asks is not looked at.                                              *)
getUnreadMessageCount(c, u) == countUnreadMessages(c, u)

-----------------------------------------------------------------------------
(* Who else holds a copy of the message with another content than this.    *)
Stale(q, copy) ==
  {p \in Requests \ {q} : /\ op[p].pc \in {"access", "update"}
                          /\ op[p].copy.id = copy.id
                          /\ op[p].copy.content # copy.content}

(* update writes the content and the status of the copy, edited or not.    *)
update(q) ==
  /\ op[q].pc = "update" /\ Found(op[q].copy.id)
  /\ LET copy == op[q].copy IN
       /\ messages' = [messages EXCEPT ![copy.id].content = copy.content,
                                       ![copy.id].isRead = copy.isRead]
       /\ edited' = IF op[q].edit THEN [edited EXCEPT ![copy.id] = copy.content] ELSE edited
       /\ overtaken' = IF op[q].edit /\ Stale(q, copy) # {}
                         THEN overtaken \cup {copy.id} ELSE overtaken
  /\ GotoOp(q, Idle)
  /\ UNCHANGED <<vars, deleted>>

delete(q) ==
  /\ op[q].pc = "delete" /\ Found(op[q].id)
  /\ messages' = Without(messages, {op[q].id})
  /\ edited' = Without(edited, {op[q].id})
  /\ deleted' = deleted \cup {op[q].id}
  /\ GotoOp(q, Idle)
  /\ UNCHANGED <<vars, overtaken>>

(* The row is gone: both are errors.                                       *)
rowGone(q) ==
  /\ \/ op[q].pc = "update" /\ ~Found(op[q].copy.id)
     \/ op[q].pc = "delete" /\ ~Found(op[q].id)
  /\ GotoOp(q, Idle)
  /\ UNCHANGED <<vars, messages, messageHistory>>

-----------------------------------------------------------------------------
(* The handlers of MessageController: those on a conversation, ...         *)
postText(q, u, c) == \E dto \in SendTextMessageDto : sendTextMessage(q, u, c, dto)

postMedia(q, u, c) == \E dto \in SendMediaMessageDto : sendMediaMessage(q, u, c, dto)

postReply(q, u, c) == \E dto \in SendReplyMessageDto : sendReplyMessage(q, u, c, dto)

postReadAll(q, u, c) == markConversationAsRead(q, u, c)

getUnreadCount(c, u) == getUnreadMessageCount(c, u)

(* ... and those on a message.                                             *)
putMessage(q, u, m) == \E dto \in EditMessageDto : editMessage(q, u, m, dto)

deleteById(q, u, m) == deleteMessage(q, u, m)

postReaction(q, u, m) == \E dto \in AddReactionDto : addReaction(q, u, m, dto)

deleteReaction(q, u, m) == removeReaction(q, u, m)

postRead(q, u, m) == markMessageAsRead(q, u, m)

MessageController(q, u) ==
  \/ \E c \in Existing : \/ postText(q, u, c) \/ postMedia(q, u, c)
                         \/ postReply(q, u, c) \/ postReadAll(q, u, c)
  \/ \E m \in Messages : \/ putMessage(q, u, m) \/ deleteById(q, u, m)
                         \/ postReaction(q, u, m) \/ deleteReaction(q, u, m)
                         \/ postRead(q, u, m)

ProceedOp(q) ==
  \/ findReplied(q)
  \/ \E m \in Messages : save(q, m)
  \/ validateConversationAccess(q)
  \/ markUnread(q)
  \/ update(q) \/ delete(q) \/ rowGone(q)

MessagesInit ==
  /\ Init
  /\ messages = Empty
  /\ op = [q \in Requests |-> Idle]
  /\ edited = Empty
  /\ overtaken = {} /\ deleted = {}

ConversationStep ==
  \/ \E u \in Users : createGroup(u)
  \/ \E q \in Requests : Free(q) /\ \E u \in Users : ConversationController(q, u)
  \/ \E q \in Requests : Proceed(q)

(* The server restarts: all requests in progress are gone.                 *)
restart ==
  /\ \E q \in Requests : req[q] # Idle \/ op[q] # Idle
  /\ drop
  /\ op' = [q \in Requests |-> Idle]
  /\ UNCHANGED <<messages, messageHistory>>

MessagesNext ==
  \/ ConversationStep /\ UNCHANGED messageVars
  \/ \E q \in Requests : Free(q) /\ \E u \in Users : MessageController(q, u)
  \/ \E q \in Requests : ProceedOp(q)
  \/ restart

(* A database call that was sent returns: a request that began goes on.    *)
MessagesSpec ==
  /\ MessagesInit /\ [][MessagesNext]_allVars
  /\ \A q \in Requests :
       /\ WF_allVars(Proceed(q) /\ UNCHANGED messageVars)
       /\ WF_allVars(ProceedOp(q))

-----------------------------------------------------------------------------
(* A message says what its sender last sent or edited it to, unless a      *)
(* request, another edit or anybody's reaction, had loaded it before that  *)
(* edit was stored; and only who was invited sends messages.               *)
EditsKept ==
  \A m \in DOMAIN messages :
    /\ messages[m].content = edited[m] \/ m \in overtaken
    /\ messages[m].sender \in invited[messages[m].conversation]

(* Marking a conversation as read leaves nothing unread ("Mark all as      *)
(* read", "All messages marked as read"): not so, no message that is       *)
(* loaded was delivered, and the first of them ends the marking.           *)
ReadAllReads ==
  [][\A q \in Requests :
       markUnread(q) /\ op'[q] = Idle => getUnreadCount(op[q].conv, op[q].user) = 0]_allVars
=============================================================================
