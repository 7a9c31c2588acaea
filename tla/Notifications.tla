---------------------------- MODULE Notifications ----------------------------
(***************************************************************************)
(* The notifications of the users: the Notification table, the use cases   *)
(* of NotificationApplicationService, and the HTTP handlers that call      *)
(* them.                                                                   *)
(*                                                                         *)
(* A use case on one notification loads it, changes the entity and saves   *)
(* the whole row by an upsert; a use case on many asks for their ids first *)
(* and then runs one statement over these ids.  Between the two, other     *)
(* requests run.                                                           *)
(*                                                                         *)
(* Left out: the type of a notification and the priority, icon and default *)
(* wording chosen by it, and the digests computed from a list.  Title and  *)
(* content are one text.                                                   *)
(***************************************************************************)
EXTENDS Maps, FiniteSets, Integers

CONSTANTS Users,
          Ids,        \* ids of notifications: a bound on how many are created
          Texts,
          Requests,   \* slots for requests in progress
          BatchLimit, \* most notifications one bulk use case handles: 1000
          AllLimit    \* most that "delete all" handles: 10000

ASSUME LimitAssumption == {BatchLimit, AllLimit} \subseteq Nat \ {0}

VARIABLES
  notifications, \* id -> row
  req,           \* request -> where it is in its use case
  known,         \* user -> ids a client of the user has been shown
  saved,         \* history: id -> the user it was stored for
  asked          \* history: id -> what its row was last asked to be, unless it
                 \*   was saved from a copy that was no longer current

store == <<notifications, saved, asked>>
vars == <<store, known, req>>

Blank == "blank"   \* a text of blanks
NoText == "none"   \* a field the request leaves out

(* Of createdAt it matters whether it lies before the cutoff of a cleanup. *)
Row == [userId : Users, isRead : BOOLEAN, text : Texts, old : BOOLEAN]

Fields == {"isRead", "text"}

Idle == [pc |-> "idle"]

(* A request holds an entity to save and the fields it was asked to set;   *)
(* or ids for a statement.  History: whether the rows it looked at have    *)
(* changed since, and whether the ids are all those it wanted.             *)
Request ==
  {Idle}
  \cup [pc : {"save"}, id : Ids, entity : Row, wants : SUBSET Fields, stale : BOOLEAN]
  \cup [pc : {"delete"}, id : Ids]
  \cup [pc : {"updateMany", "deleteMany"}, user : Users, ids : SUBSET Ids,
         isRead : BOOLEAN, all : BOOLEAN, stale : BOOLEAN]

TypeOK ==
  /\ IsMap(notifications, Ids, Row)
  /\ req \in [Requests -> Request]
  /\ known \in [Users -> SUBSET Ids]
  /\ IsMap(saved, Ids, Users) /\ DOMAIN notifications \subseteq DOMAIN saved
  /\ IsMap(asked, DOMAIN notifications, [isRead : BOOLEAN, text : Texts])

-----------------------------------------------------------------------------
(* The statements' where clauses.                                          *)
Stored == DOMAIN notifications
Of(u) == {n \in Stored : notifications[n].userId = u}
Read(S) == {n \in S : notifications[n].isRead}
Old(S) == {n \in S : notifications[n].old}

(* One page of S, the newest first: those past the limit are missing, and  *)
(* none that is younger than one shown.                                    *)
Page(S, limit) ==
  {P \in SUBSET S :
     /\ Cardinality(P) = (IF Cardinality(S) < limit THEN Cardinality(S) ELSE limit)
     /\ \A n \in P, m \in S \ P : notifications[n].old => notifications[m].old}

(* q goes on to r; the rows S of the users U change, which makes stale     *)
(* what others have read of them.                                          *)
LooksAt(r, S, U) ==
  \/ r.pc = "save" /\ r.id \in S
  \/ r.pc \in {"updateMany", "deleteMany"} /\ (r.ids \cap S # {} \/ r.user \in U)

Outdated(r, S, U) == IF LooksAt(r, S, U) THEN [r EXCEPT !.stale = TRUE] ELSE r

GotoChanging(q, r, S, U) ==
  req' = [p \in Requests |-> IF p = q THEN r ELSE Outdated(req[p], S, U)]

Goto(q, r) == req' = [req EXCEPT ![q] = r]

Owners(S) == {notifications[n].userId : n \in S}

(* A new row, and rows that are gone.                                      *)
Insert(n, row) ==
  /\ notifications' = With(notifications, n, row)
  /\ saved' = With(saved, n, row.userId)
  /\ asked' = With(asked, n, [isRead |-> row.isRead, text |-> row.text])

Remove(S) ==
  /\ notifications' = Without(notifications, S)
  /\ asked' = Without(asked, S)
  /\ UNCHANGED saved

NewId(n) ==
  /\ n \in Ids \ DOMAIN saved
  /\ \A q \in Requests : "id" \in DOMAIN req[q] => req[q].id # n

-----------------------------------------------------------------------------
(* Mutant: texts are not looked at.                                        *)
AnyText(text) == TRUE

(* Use cases on one notification.  The entity refuses an empty text, to be *)
(* read twice, and to be unread twice.                                     *)
Valid(text) == text # Blank

CanAccess(u, n) == n \in Stored /\ notifications[n].userId = u

Save(q, n, entity, wants) ==
  /\ req[q] = Idle
  /\ Goto(q, [pc |-> "save", id |-> n, entity |-> entity, wants |-> wants,
              stale |-> FALSE])
  /\ UNCHANGED <<store, known>>


NewRow(u, text) == [userId |-> u, isRead |-> FALSE, text |-> text, old |-> FALSE]

createNotification(q, n, u, text) ==
  /\ Valid(text)
  /\ NewId(n)
  /\ Save(q, n, NewRow(u, text), Fields)

markAsRead(q, n, u) ==
  /\ CanAccess(u, n)
  /\ ~notifications[n].isRead
  /\ Save(q, n, [notifications[n] EXCEPT !.isRead = TRUE], {"isRead"})

markAsUnread(q, n, u) ==
  /\ CanAccess(u, n)
  /\ notifications[n].isRead
  /\ Save(q, n, [notifications[n] EXCEPT !.isRead = FALSE], {"isRead"})

(* A new text, a read status, or both; the status it has already is no     *)
(* error here.                                                             *)
updateNotification(q, n, u, dto) ==
  /\ CanAccess(u, n)
  /\ Valid(dto.text)
  /\ LET row == notifications[n]
         newText == dto.text # NoText
         newRead == dto.isRead # {}
     IN Save(q, n,
             [row EXCEPT !.text = IF newText THEN dto.text ELSE row.text,
                         !.isRead = IF newRead THEN TRUE \in dto.isRead ELSE row.isRead],
             {f \in Fields : IF f = "text" THEN newText ELSE newRead})

deleteNotification(q, n, u) ==
  /\ req[q] = Idle
  /\ CanAccess(u, n)
  /\ Goto(q, [pc |-> "delete", id |-> n])
  /\ UNCHANGED <<store, known>>

(* Mutant: the update of the upsert leaves isRead out.                     *)
UpsertWithoutIsRead(n, entity) ==
  IF n \in Stored
    THEN With(notifications, n, [notifications[n] EXCEPT !.text = entity.text])
    ELSE With(notifications, n, entity)

(* Neither the user nor createdAt is in the update.                        *)
Upsert(n, entity) ==
  IF n \in Stored
    THEN With(notifications, n, [notifications[n] EXCEPT !.text = entity.text,
                                                         !.isRead = entity.isRead])
    ELSE With(notifications, n, entity)

(* save: a notification that was deleted since it was loaded comes back.   *)
save(q) ==
  /\ req[q].pc = "save"
  /\ LET r == req[q]
         wanted == [f \in Fields |-> IF f \in r.wants THEN r.entity[f] ELSE asked[r.id][f]]
         outdated == r.stale \/ r.id \in Stored \ DOMAIN asked
     IN /\ notifications' = Upsert(r.id, r.entity)
        /\ saved' = With(saved, r.id, r.entity.userId)
        /\ asked' = IF outdated THEN Without(asked, {r.id}) ELSE With(asked, r.id, wanted)
        /\ GotoChanging(q, Idle, {r.id}, {r.entity.userId})
  /\ UNCHANGED known

(* delete fails for a notification that is gone.                           *)
delete(q) ==
  /\ req[q].pc = "delete"
  /\ req[q].id \in Stored
  /\ LET S == {req[q].id} IN
       /\ Remove(S)
       /\ GotoChanging(q, Idle, S, Owners(S))
  /\ UNCHANGED known

-----------------------------------------------------------------------------
(* Use cases on many: the ids are read first, and the statement comes      *)
(* after.  An id that is missing, or another user's, fails the whole.      *)
Batch(q, pc, u, ids, isRead, all) ==
  /\ req[q] = Idle
  /\ ids # {}
  /\ Goto(q, [pc |-> pc, user |-> u, ids |-> ids, isRead |-> isRead, all |-> all,
              stale |-> FALSE])
  /\ UNCHANGED <<store, known>>

markAsReadBulk(q, S, u) ==
  /\ S \subseteq Of(u)
  /\ Batch(q, "updateMany", u, S, TRUE, FALSE)

markAsUnreadBulk(q, S, u) ==
  /\ S \subseteq Of(u)
  /\ Batch(q, "updateMany", u, S, FALSE, FALSE)

deleteNotificationsBulk(q, S, u) ==
  /\ S \subseteq Of(u)
  /\ Batch(q, "deleteMany", u, S, TRUE, FALSE)

(* Mutant: the filter on isRead is forgotten.                              *)
MarkNewest(q, u) ==
  \E P \in Page(Of(u), BatchLimit) :
    Batch(q, "updateMany", u, P, TRUE, Cardinality(Of(u) \ Read(Of(u))) <= BatchLimit)

markAllAsRead(q, u) ==
  LET unread == Of(u) \ Read(Of(u)) IN
    \E P \in Page(unread, BatchLimit) :
      Batch(q, "updateMany", u, P, TRUE, Cardinality(unread) <= BatchLimit)

(* The old ones among the newest read ones.                                *)
cleanupReadNotifications(q, u) ==
  \E P \in Page(Read(Of(u)), BatchLimit) : Batch(q, "deleteMany", u, Old(P), TRUE, FALSE)

deleteAllNotifications(q, u) ==
  \E P \in Page(Of(u), AllLimit) : Batch(q, "deleteMany", u, P, TRUE, FALSE)

(* The statements take the ids of the user only.                           *)
updateMany(q) ==
  /\ req[q].pc = "updateMany"
  /\ LET r == req[q]
         S == {n \in r.ids \cap Of(r.user) : notifications[n].isRead # r.isRead}
     IN /\ notifications' = WithAll(notifications,
                              [n \in S |-> [notifications[n] EXCEPT !.isRead = r.isRead]])
        /\ asked' = WithAll(asked, [n \in r.ids \cap Of(r.user) \cap DOMAIN asked |->
                                      [asked[n] EXCEPT !.isRead = r.isRead]])
        /\ GotoChanging(q, Idle, S, Owners(S))
  /\ UNCHANGED <<known, saved>>

deleteMany(q) ==
  /\ req[q].pc = "deleteMany"
  /\ LET S == req[q].ids \cap Of(req[q].user) IN
       /\ Remove(S)
       /\ GotoChanging(q, Idle, S, Owners(S))
  /\ UNCHANGED known

(* Cleanups that are one statement.  Which notifications are about the     *)
(* entity that was deleted is open; they are counted first, for the answer *)
(* only.                                                                   *)
Sweep(q, S) ==
  /\ req[q] = Idle
  /\ Remove(S)
  /\ GotoChanging(q, Idle, S, Owners(S))
  /\ UNCHANGED known

cleanupUserReadNotifications(q, u) == Sweep(q, Old(Read(Of(u))))
cleanupSystemOldNotifications(q) == Sweep(q, Old(Stored))
cleanupNotificationsByEntity(q, S) == S \subseteq Stored /\ Sweep(q, S)

-----------------------------------------------------------------------------
(* Reads.  Of what they answer, which notifications it is about matters:   *)
(* the ids a client has been shown are those it can name later.  Asking    *)
(* for one of these shows nothing new.                                     *)
Shown(u, S) ==
  /\ known' = [known EXCEPT ![u] = @ \cup S]
  /\ UNCHANGED <<store, req>>

(* A page of the user's notifications, read or unread or both.             *)
getNotifications(u, isRead, limit) ==
  \E P \in Page({n \in Of(u) : notifications[n].isRead \in isRead}, limit) : Shown(u, P)

(* Those created since a moment: none of the old ones, or all.             *)
getLatestNotifications(u, since, limit) ==
  \E P \in Page(IF since = "recently" THEN Of(u) \ Old(Of(u)) ELSE Of(u), limit) :
    Shown(u, P)

(* Time passes for a notification and whoever holds a copy of it.          *)
Age(n) ==
  /\ n \in Stored /\ ~notifications[n].old
  /\ notifications' = [notifications EXCEPT ![n].old = TRUE]
  /\ req' = [q \in Requests |->
               IF req[q].pc = "save" /\ req[q].id = n THEN [req[q] EXCEPT !.entity.old = TRUE]
               ELSE req[q]]
  /\ UNCHANGED <<known, saved, asked>>

(* A statement fails, or the process ends: so does the request.            *)
fail(q) ==
  /\ req[q] # Idle
  /\ Goto(q, Idle)
  /\ UNCHANGED <<store, known>>

-----------------------------------------------------------------------------
(* The bodies and queries the DTOs let through, of ids the client knows.   *)
CreateDto == [text : Texts \cup {Blank}]
UpdateDto == [text : Texts \cup {NoText, Blank}, isRead : {{}, {TRUE}, {FALSE}}]
QueryDto == [isRead : {{TRUE}, {FALSE}, BOOLEAN}, limit : 1 .. BatchLimit]
BulkDto(u) == SUBSET known[u]

(* The handlers of NotificationController, and the operations the service  *)
(* offers to other modules only.                                           *)
CreateHandler(q, u) ==
  \E n \in Ids, dto \in CreateDto : createNotification(q, n, u, dto.text)

UpdateHandler(q, u) ==
  \E n \in known[u], dto \in UpdateDto : updateNotification(q, n, u, dto)

ReadHandlers(u) ==
  \/ \E query \in QueryDto : getNotifications(u, query.isRead, query.limit)
  \/ \E limit \in 1 .. BatchLimit : getLatestNotifications(u, "recently", limit)

MarkHandlers(q, u) ==
  \/ \E n \in known[u] : markAsRead(q, n, u) \/ markAsUnread(q, n, u)
  \/ \E S \in BulkDto(u) : markAsReadBulk(q, S, u) \/ markAsUnreadBulk(q, S, u)
  \/ markAllAsRead(q, u)

DeleteHandlers(q, u) ==
  \/ \E n \in known[u] : deleteNotification(q, n, u)
  \/ \E S \in BulkDto(u) : deleteNotificationsBulk(q, S, u)

CleanupHandlers(q, u) ==
  \/ cleanupUserReadNotifications(q, u)
  \/ cleanupSystemOldNotifications(q)

ForOtherModules(q, u) ==
  \/ cleanupReadNotifications(q, u)
  \/ deleteAllNotifications(q, u)
  \/ \E S \in SUBSET Ids : cleanupNotificationsByEntity(q, S)

Statement(q) == save(q) \/ delete(q) \/ updateMany(q) \/ deleteMany(q) \/ fail(q)

Init ==
  /\ notifications = [n \in {} |-> n]
  /\ known = [u \in Users |-> {}]
  /\ req = [q \in Requests |-> Idle]
  /\ saved = [n \in {} |-> n]
  /\ asked = [n \in {} |-> n]

Next ==
  \/ \E q \in Requests, u \in Users :
       \/ CreateHandler(q, u)
       \/ UpdateHandler(q, u)
       \/ MarkHandlers(q, u)
       \/ DeleteHandlers(q, u)
       \/ CleanupHandlers(q, u)
       \/ ForOtherModules(q, u)
  \/ \E u \in Users : ReadHandlers(u)
  \/ \E q \in Requests : Statement(q)
  \/ \E n \in Ids : Age(n)

Spec == Init /\ [][Next]_vars

-----------------------------------------------------------------------------
(* What a client asked of a notification last, to be read or unread or to  *)
(* have another text, is what its row says, unless somebody saved a copy   *)
(* of the row that was no longer current.                                  *)
UpdatesKept ==
  \A n \in DOMAIN asked : \A f \in Fields : notifications[n][f] = asked[n][f]

(* Marking all notifications of a user as read, if they were no more than  *)
(* the limit and nothing else changed them, leaves none unread.            *)
MarksAll(q) ==
  updateMany(q) /\ req[q].all /\ ~req[q].stale
  => \A n \in Of(req[q].user) : notifications'[n].isRead

MarkAllMarksAll == [][\A q \in Requests : MarksAll(q)]_vars
=============================================================================
