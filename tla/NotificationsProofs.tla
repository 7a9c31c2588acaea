------------------------ MODULE NotificationsProofs ------------------------
(***************************************************************************)
(* The notification store, and the delivery through the queue, for every   *)
(* number of users, notifications, overlapping requests and jobs.  The     *)
(* steps of the store are shared by both specifications, and so are the    *)
(* lemmas about them: IInv is what the store and its requests satisfy,     *)
(* JobsSound what the queue adds.                                          *)
(***************************************************************************)
EXTENDS NotificationDelivery, MapTheorems, FiniteSetTheorems

(* A row belongs to the user it was first stored for, and the user has     *)
(* been shown no row but theirs.                                           *)
Owned ==
  /\ \A n \in Stored : saved[n] = notifications[n].userId
  /\ \A u \in Users : \A n \in known[u] : n \in DOMAIN saved /\ saved[n] = u

(* So do the copies requests are about to save.                            *)
CopiesOwned ==
  /\ \A q \in Requests : req[q].pc = "save" /\ req[q].id \in DOMAIN saved =>
       saved[req[q].id] = req[q].entity.userId
  /\ \A p, q \in Requests :
       req[p].pc = "save" /\ req[q].pc = "save" /\ req[p].id = req[q].id =>
         req[p].entity.userId = req[q].entity.userId

(* A copy that is still current agrees with its row in what it is not      *)
(* going to change.                                                        *)
Current(r) ==
  r.pc = "save" /\ ~r.stale =>
    /\ r.id \in Stored \/ r.wants = Fields
    /\ r.id \in DOMAIN asked => \A f \in Fields \ r.wants : r.entity[f] = asked[r.id][f]

(* The ids of a request that marks all, and is still current, are all the  *)
(* unread ones.                                                            *)
Complete(r) ==
  r.pc = "updateMany" /\ r.all /\ ~r.stale =>
    r.isRead /\ \A n \in Of(r.user) \ r.ids : notifications[n].isRead

IInv ==
  /\ TypeOK
  /\ IsFiniteSet(Stored)
  /\ Owned
  /\ CopiesOwned
  /\ UpdatesKept
  /\ \A q \in Requests : Current(req[q]) /\ Complete(req[q])

(* A message is about a row that was stored for the user it goes to, and   *)
(* that an entity can be made of.                                          *)
About(m) == m.id \in DOMAIN saved \ unreadable /\ saved[m.id] = m.user

(* What a user has been shown an entity can be made of.                    *)
Readable == \A u \in Users : known[u] \cap unreadable = {}

(* The queue: a job has made no more rows for a target than it was given   *)
(* to workers, and one fewer if it is still to make one.                   *)
JobSound(job) ==
  /\ job.todo \subseteq job.targets
  /\ job.status = "waiting" => job.todo = {}
  /\ \A m \in job.toPublish : About(m)
  /\ \A u \in Users :
       /\ u \notin job.targets => job.made[u] = 0
       /\ u \in job.targets => job.made[u] <= 1 + job.stalls
       /\ job.status = "waiting" \/ u \in job.todo => job.made[u] <= job.stalls

JobsSound ==
  /\ IsMap(jobs, Jobs, Job)
  /\ channel \subseteq Message
  /\ unreadable \subseteq DOMAIN saved
  /\ \A j \in DOMAIN jobs : JobSound(jobs[j])
  /\ \A m \in channel : About(m)

DeliveryIInv == IInv /\ JobsSound /\ Readable

-----------------------------------------------------------------------------
(* Rows and requests, and what is changed in them.                         *)
LEMMA RowExcept ==
  ASSUME NEW row \in Row, NEW b \in BOOLEAN
  PROVE  /\ [row EXCEPT !.isRead = b] =
              [userId |-> row.userId, isRead |-> b, text |-> row.text, old |-> row.old]
         /\ [row EXCEPT !.old = b] =
              [userId |-> row.userId, isRead |-> row.isRead, text |-> row.text, old |-> b]
         /\ \A t : [row EXCEPT !.text = t, !.isRead = b] =
                     [userId |-> row.userId, isRead |-> b, text |-> t, old |-> row.old]
<1>1. [row EXCEPT !.isRead = b] =
        [userId |-> row.userId, isRead |-> b, text |-> row.text, old |-> row.old]
  BY DEF Row
<1>2. [row EXCEPT !.old = b] =
        [userId |-> row.userId, isRead |-> row.isRead, text |-> row.text, old |-> b]
  BY DEF Row
<1>3. ASSUME NEW t
      PROVE  [row EXCEPT !.text = t, !.isRead = b] =
               [userId |-> row.userId, isRead |-> b, text |-> t, old |-> row.old]
  <2>1. PICK s : s = [row EXCEPT !.text = t]
    OBVIOUS
  <2>2. s = [userId |-> row.userId, isRead |-> row.isRead, text |-> t, old |-> row.old]
    BY <2>1 DEF Row
  <2>3. [s EXCEPT !.isRead = b] =
          [userId |-> row.userId, isRead |-> b, text |-> t, old |-> row.old]
    BY <2>2
  <2> QED
    BY <2>1, <2>3, Zenon
<1> QED
  BY <1>1, <1>2, <1>3

LEMMA RequestShape ==
  ASSUME NEW r \in Request
  PROVE  /\ r.pc \in {"idle", "save", "delete", "updateMany", "deleteMany"}
         /\ r.pc = "save" =>
              /\ r.id \in Ids /\ r.entity \in Row /\ r.wants \subseteq Fields
              /\ r.stale \in BOOLEAN /\ "id" \in DOMAIN r
              /\ r = [pc |-> "save", id |-> r.id, entity |-> r.entity, wants |-> r.wants,
                      stale |-> r.stale]
         /\ r.pc = "delete" => r.id \in Ids
         /\ r.pc \in {"updateMany", "deleteMany"} =>
              /\ r.user \in Users /\ r.ids \subseteq Ids /\ r.isRead \in BOOLEAN
              /\ r.all \in BOOLEAN /\ r.stale \in BOOLEAN
              /\ r = [pc |-> r.pc, user |-> r.user, ids |-> r.ids, isRead |-> r.isRead,
                      all |-> r.all, stale |-> r.stale]
  BY DEF Request, Idle

LEMMA IdleFacts == Idle \in Request /\ Idle.pc = "idle"
  BY DEF Request, Idle

LEMMA StaleFacts ==
  ASSUME NEW r \in Request, r.pc \in {"save", "updateMany", "deleteMany"}, NEW yes \in BOOLEAN
  PROVE  \E s \in Request :
           /\ s = [r EXCEPT !.stale = yes] /\ s.stale = yes /\ s.pc = r.pc
           /\ r.pc = "save" => s.id = r.id /\ s.entity = r.entity /\ s.wants = r.wants
           /\ r.pc = "updateMany" => /\ s.user = r.user /\ s.ids = r.ids
                                     /\ s.isRead = r.isRead /\ s.all = r.all
<1>1. CASE r.pc = "save"
  <2>1. PICK id, e, w, st : r = [pc |-> "save", id |-> id, entity |-> e, wants |-> w, stale |-> st]
    BY <1>1, RequestShape
  <2>2. [r EXCEPT !.stale = yes] =
          [pc |-> "save", id |-> id, entity |-> e, wants |-> w, stale |-> yes]
    BY <2>1
  <2>3. id \in Ids /\ e \in Row /\ w \subseteq Fields
    BY <1>1, <2>1, RequestShape
  <2> QED
    BY <1>1, <2>1, <2>2, <2>3 DEF Request
<1>2. CASE r.pc \in {"updateMany", "deleteMany"}
  <2>1. PICK pc, u, ids, b, all, st :
          r = [pc |-> pc, user |-> u, ids |-> ids, isRead |-> b, all |-> all, stale |-> st]
    BY <1>2, RequestShape
  <2>2. [r EXCEPT !.stale = yes] =
          [pc |-> pc, user |-> u, ids |-> ids, isRead |-> b, all |-> all, stale |-> yes]
    BY <2>1
  <2>3. pc \in {"updateMany", "deleteMany"} /\ u \in Users /\ ids \subseteq Ids
          /\ b \in BOOLEAN /\ all \in BOOLEAN
    BY <1>2, <2>1, RequestShape
  <2> QED
    BY <1>2, <2>1, <2>2, <2>3 DEF Request
<1> QED
  BY <1>1, <1>2

(* A request that looked at rows that change is stale, others are as they  *)
(* were.                                                                   *)
LEMMA OutdatedFacts ==
  ASSUME NEW r \in Request, NEW S, NEW U, NEW s, s = Outdated(r, S, U)
  PROVE  /\ s \in Request /\ s.pc = r.pc
         /\ r.pc = "save" => s.id = r.id /\ s.entity = r.entity /\ s.wants = r.wants
         /\ ~LooksAt(r, S, U) => s = r
         /\ LooksAt(r, S, U) => s.stale
<1>1. CASE ~LooksAt(r, S, U)
  BY <1>1 DEF Outdated
<1>2. CASE LooksAt(r, S, U)
  <2>1. r.pc \in {"save", "updateMany", "deleteMany"}
    BY <1>2 DEF LooksAt
  <2>2. PICK yes \in BOOLEAN : yes = TRUE
    OBVIOUS
  <2>3. s = [r EXCEPT !.stale = yes]
    BY <1>2, <2>2 DEF Outdated
  <2>4. PICK t \in Request :
          /\ t = [r EXCEPT !.stale = yes] /\ t.stale = yes /\ t.pc = r.pc
          /\ r.pc = "save" => t.id = r.id /\ t.entity = r.entity /\ t.wants = r.wants
    BY <2>1, StaleFacts
  <2>5. s = t
    BY <2>3, <2>4
  <2>6. s.stale = TRUE
    BY <2>2, <2>4, <2>5
  <2> QED
    BY <1>2, <2>4, <2>5, <2>6
<1> QED
  BY <1>1, <1>2

-----------------------------------------------------------------------------
(* A request goes on, and no row changes.                                  *)
LEMMA GotoStep ==
  ASSUME IInv, NEW q \in Requests, NEW r \in Request, Goto(q, r), UNCHANGED <<store, known>>,
         Current(r), Complete(r),
         r.pc = "save" =>
           /\ r.id \in DOMAIN saved => saved[r.id] = r.entity.userId
           /\ \A p \in Requests : req[p].pc = "save" /\ req[p].id = r.id =>
                req[p].entity.userId = r.entity.userId
  PROVE  IInv'
<1>1. req' \in [Requests -> Request] /\ req'[q] = r
        /\ \A p \in Requests : p # q => req'[p] = req[p]
  BY DEF Goto, IInv, TypeOK
<1>2. TypeOK'
  BY <1>1 DEF store, IInv, TypeOK
<1>3. IsFiniteSet(Stored)' /\ Owned' /\ UpdatesKept'
  BY DEF store, IInv, Stored, Owned, UpdatesKept
<1>4. CopiesOwned'
  BY <1>1 DEF store, IInv, CopiesOwned
<1>5. ASSUME NEW x, Current(x), Complete(x)
      PROVE  Current(x)' /\ Complete(x)'
  BY <1>5 DEF store, Current, Complete, Of, Stored
<1>6. \A p \in Requests : Current(req[p])' /\ Complete(req[p])'
  BY <1>1, <1>5 DEF IInv
<1> QED
  BY <1>2, <1>3, <1>4, <1>6 DEF IInv

LEMMA IdleStep ==
  ASSUME IInv, NEW q \in Requests, Goto(q, Idle), UNCHANGED <<store, known>>
  PROVE  IInv'
  BY IdleFacts, GotoStep DEF Current, Complete

(* The rows S change, which then belong to users of U, and every request   *)
(* ends or learns of it.                                                   *)
TablesChange(S, U) ==
  /\ IsMap(notifications', Ids, Row) /\ IsFiniteSet(Stored') /\ IsMap(saved', Ids, Users)
  /\ IsMap(asked', DOMAIN notifications', [isRead : BOOLEAN, text : Texts])
  /\ UpdatesKept'
  /\ UNCHANGED known
  /\ \A n \in Stored' : n \in DOMAIN saved' /\ saved'[n] = notifications'[n].userId
  /\ \A n \in DOMAIN saved : n \in DOMAIN saved' /\ saved'[n] = saved[n]
  /\ \A p \in Requests : req[p].pc = "save" /\ req[p].id \in DOMAIN saved' =>
       saved'[req[p].id] = req[p].entity.userId
  /\ \A n : n \notin S =>
       /\ n \in Stored' <=> n \in Stored
       /\ n \in Stored => notifications'[n] = notifications[n]
       /\ n \in DOMAIN asked' <=> n \in DOMAIN asked
       /\ n \in DOMAIN asked => asked'[n] = asked[n]
  /\ \A n \in S \cap Stored' : notifications'[n].userId \in U

RequestsLearn(S, U) ==
  /\ DOMAIN req' = Requests /\ req' = [p \in Requests |-> req'[p]]
  /\ \A p \in Requests : req'[p] = Idle \/ req'[p] = Outdated(req[p], S, U)

LEMMA RowsChange ==
  ASSUME IInv, NEW S, NEW U, RequestsLearn(S, U), TablesChange(S, U)
  PROVE  IInv'
<1> USE DEF RequestsLearn, TablesChange
<1>1. \A p \in Requests : req[p] \in Request
  BY DEF IInv, TypeOK
<1>2. ASSUME NEW p \in Requests
      PROVE  /\ req'[p] \in Request
             /\ req'[p] = Idle \/ req'[p].pc = req[p].pc
             /\ req'[p].pc = "save" =>
                  req'[p].id = req[p].id /\ req'[p].entity = req[p].entity
             /\ \/ req'[p] = Idle
                \/ req'[p] = req[p] /\ ~LooksAt(req[p], S, U)
                \/ req'[p].stale
  <2>1. CASE req'[p] = Idle
    BY <2>1, IdleFacts
  <2>2. CASE req'[p] = Outdated(req[p], S, U)
    <3>1. PICK r : r = req[p]
      OBVIOUS
    <3>2. PICK s : s = req'[p]
      OBVIOUS
    <3>3. s = Outdated(r, S, U) /\ r \in Request
      BY <1>1, <2>2, <3>1, <3>2
    <3> QED
      BY <3>1, <3>2, <3>3, OutdatedFacts
  <2> QED
    BY <2>1, <2>2
<1>3. TypeOK'
  BY <1>2 DEF IInv, TypeOK, Stored
<1>4. Owned'
  BY DEF IInv, Owned, Stored
<1>5. CopiesOwned'
  <2>1. ASSUME NEW p \in Requests, req'[p].pc = "save"
        PROVE  req[p].pc = "save" /\ req'[p].id = req[p].id /\ req'[p].entity = req[p].entity
    BY <1>2, <2>1, IdleFacts
  <2> QED
    BY <2>1 DEF IInv, CopiesOwned
<1>6. ASSUME NEW r, Current(r), Complete(r), ~LooksAt(r, S, U)
      PROVE  Current(r)' /\ Complete(r)'
  <2>1. Current(r)'
    BY <1>6 DEF Current, LooksAt
  <2>2. Complete(r)'
    BY <1>6 DEF Complete, LooksAt, Of, Stored
  <2> QED
    BY <2>1, <2>2
<1>7. ASSUME NEW r, r.stale \/ r.pc = "idle"
      PROVE  Current(r)' /\ Complete(r)'
  BY <1>7 DEF Current, Complete
<1>8. \A p \in Requests : Current(req[p])' /\ Complete(req[p])'
  BY <1>2, <1>6, <1>7, IdleFacts DEF IInv
<1> QED
  BY <1>3, <1>4, <1>5, <1>8 DEF IInv

-----------------------------------------------------------------------------
(* The use cases on one notification, up to the call of save.              *)
LEMMA StoredFacts ==
  ASSUME IInv, NEW n \in Stored
  PROVE  /\ n \in Ids /\ notifications[n] \in Row /\ n \in DOMAIN saved
         /\ saved[n] = notifications[n].userId
  BY DEF IInv, TypeOK, IsMap, Owned, Stored

LEMMA SaveStep ==
  ASSUME IInv, NEW q \in Requests, NEW n \in Ids, NEW entity \in Row, NEW wants \in SUBSET Fields,
         Save(q, n, entity, wants),
         n \in DOMAIN saved => saved[n] = entity.userId,
         \A p \in Requests : req[p].pc = "save" /\ req[p].id = n =>
           req[p].entity.userId = entity.userId,
         n \in Stored \/ wants = Fields,
         n \in DOMAIN asked => \A f \in Fields \ wants : entity[f] = asked[n][f]
  PROVE  IInv'
<1>1. PICK no \in BOOLEAN : no = FALSE
  OBVIOUS
<1>2. PICK r : r = [pc |-> "save", id |-> n, entity |-> entity, wants |-> wants, stale |-> no]
  OBVIOUS
<1>3. Goto(q, r) /\ UNCHANGED <<store, known>>
  BY <1>1, <1>2 DEF Save
<1>4. r \in Request
  BY <1>2 DEF Request
<1>5. Current(r) /\ Complete(r)
  BY <1>2 DEF Current, Complete
<1> QED
  BY <1>2, <1>3, <1>4, <1>5, GotoStep

LEMMA createNotificationStep ==
  ASSUME IInv, NEW q \in Requests, NEW n \in Ids, NEW u \in Users,
         NEW text \in Texts \cup {Blank}, createNotification(q, n, u, text)
  PROVE  IInv'
<1>1. PICK row : row = NewRow(u, text)
  OBVIOUS
<1>2. row \in Row
  BY <1>1 DEF createNotification, Valid, NewRow, Row
<1>3. n \notin DOMAIN saved /\ n \notin Stored /\ n \notin DOMAIN asked
  BY DEF createNotification, NewId, IInv, TypeOK, IsMap, Stored
<1>4. \A p \in Requests : req[p].pc = "save" => req[p].id # n
  <2>1. ASSUME NEW p \in Requests, req[p].pc = "save"
        PROVE  req[p].id # n
    <3>1. req[p] \in Request
      BY DEF IInv, TypeOK
    <3>2. "id" \in DOMAIN req[p]
      BY <2>1, <3>1, RequestShape
    <3> QED
      BY <3>2 DEF createNotification, NewId
  <2> QED
    BY <2>1
<1>5. Save(q, n, row, Fields)
  BY <1>1 DEF createNotification
<1> QED
  BY <1>2, <1>3, <1>4, <1>5, SaveStep

LEMMA ChangeRowStep ==
  ASSUME IInv, NEW q \in Requests, NEW n, NEW u, CanAccess(u, n), NEW entity \in Row,
         entity.userId = notifications[n].userId, NEW wants \in SUBSET Fields,
         \A f \in Fields \ wants : entity[f] = notifications[n][f], Save(q, n, entity, wants)
  PROVE  IInv'
<1>1. n \in Stored
  BY DEF CanAccess
<1>2. n \in Ids /\ n \in DOMAIN saved /\ saved[n] = entity.userId
  BY <1>1, StoredFacts
<1>3. \A p \in Requests : req[p].pc = "save" /\ req[p].id = n =>
        req[p].entity.userId = entity.userId
  BY <1>2 DEF IInv, CopiesOwned
<1>4. n \in DOMAIN asked => \A f \in Fields \ wants : entity[f] = asked[n][f]
  BY DEF IInv, UpdatesKept
<1> QED
  BY <1>1, <1>2, <1>3, <1>4, SaveStep

LEMMA MarkStep ==
  ASSUME IInv, NEW q \in Requests, NEW n, NEW u, CanAccess(u, n), NEW b \in BOOLEAN,
         Save(q, n, [notifications[n] EXCEPT !.isRead = b], {"isRead"})
  PROVE  IInv'
<1>1. PICK row \in Row : row = notifications[n]
  BY StoredFacts DEF CanAccess
<1>2. PICK entity : entity = [row EXCEPT !.isRead = b]
  OBVIOUS
<1>3. entity = [userId |-> row.userId, isRead |-> b, text |-> row.text, old |-> row.old]
  BY <1>2, RowExcept
<1>4. entity \in Row /\ entity.userId = row.userId /\ entity.text = row.text
  BY <1>3 DEF Row
<1>5. \A f \in Fields \ {"isRead"} : entity[f] = row[f]
  BY <1>3 DEF Fields, Row
<1>6. {"isRead"} \in SUBSET Fields /\ Save(q, n, entity, {"isRead"})
  BY <1>1, <1>2 DEF Fields
<1> QED
  BY <1>1, <1>4, <1>5, <1>6, ChangeRowStep

LEMMA markAsReadStep ==
  ASSUME IInv, NEW q \in Requests, NEW n, NEW u, markAsRead(q, n, u)
  PROVE  IInv'
<1>1. PICK b \in BOOLEAN : b = TRUE
  OBVIOUS
<1>2. Save(q, n, [notifications[n] EXCEPT !.isRead = b], {"isRead"}) /\ CanAccess(u, n)
  BY <1>1 DEF markAsRead
<1> QED
  BY <1>2, MarkStep

LEMMA markAsUnreadStep ==
  ASSUME IInv, NEW q \in Requests, NEW n, NEW u, markAsUnread(q, n, u)
  PROVE  IInv'
<1>1. PICK b \in BOOLEAN : b = FALSE
  OBVIOUS
<1>2. Save(q, n, [notifications[n] EXCEPT !.isRead = b], {"isRead"}) /\ CanAccess(u, n)
  BY <1>1 DEF markAsUnread
<1> QED
  BY <1>2, MarkStep

LEMMA updateNotificationStep ==
  ASSUME IInv, NEW q \in Requests, NEW n, NEW u, NEW dto \in UpdateDto,
         updateNotification(q, n, u, dto)
  PROVE  IInv'
<1>1. CanAccess(u, n) /\ dto.text # Blank
  BY DEF updateNotification, Valid
<1>2. PICK row \in Row : row = notifications[n]
  BY <1>1, StoredFacts DEF CanAccess
<1>3. PICK text : text = IF dto.text # NoText THEN dto.text ELSE row.text
  OBVIOUS
<1>4. PICK b : b = IF dto.isRead # {} THEN TRUE \in dto.isRead ELSE row.isRead
  OBVIOUS
<1>5. PICK wants : wants = {f \in Fields : IF f = "text" THEN dto.text # NoText
                                           ELSE dto.isRead # {}}
  OBVIOUS
<1>6. PICK entity : entity = [row EXCEPT !.text = text, !.isRead = b]
  OBVIOUS
<1>7. Save(q, n, entity, wants)
  BY <1>2, <1>3, <1>4, <1>5, <1>6 DEF updateNotification
<1>8. text \in Texts
  BY <1>1, <1>3 DEF UpdateDto, Row
<1>9. b \in BOOLEAN
  <2>1. row.isRead \in BOOLEAN /\ (TRUE \in dto.isRead) \in BOOLEAN
    BY DEF Row
  <2>2. CASE dto.isRead # {}
    BY <1>4, <2>1, <2>2
  <2>3. CASE dto.isRead = {}
    BY <1>4, <2>1, <2>3
  <2> QED
    BY <2>2, <2>3
<1>10. entity = [userId |-> row.userId, isRead |-> b, text |-> text, old |-> row.old]
  BY <1>6, <1>9, RowExcept
<1>11. entity \in Row /\ entity.userId = row.userId
  BY <1>8, <1>9, <1>10 DEF Row
<1>12. \A f \in Fields \ wants : entity[f] = row[f]
  <2>1. "text" \notin wants => entity.text = row.text
    BY <1>3, <1>5, <1>10 DEF Fields
  <2>2. "isRead" \notin wants => entity.isRead = row.isRead
    BY <1>4, <1>5, <1>10 DEF Fields
  <2> QED
    BY <2>1, <2>2 DEF Fields
<1>13. wants \in SUBSET Fields
  BY <1>5
<1> QED
  BY <1>1, <1>2, <1>7, <1>11, <1>12, <1>13, ChangeRowStep

LEMMA deleteNotificationStep ==
  ASSUME IInv, NEW q \in Requests, NEW n, NEW u, deleteNotification(q, n, u)
  PROVE  IInv'
<1>1. PICK r : r = [pc |-> "delete", id |-> n]
  OBVIOUS
<1>2. r \in Request /\ Goto(q, r) /\ UNCHANGED <<store, known>>
  BY <1>1, StoredFacts DEF deleteNotification, CanAccess, Request
<1>3. Current(r) /\ Complete(r) /\ r.pc # "save"
  BY <1>1 DEF Current, Complete
<1> QED
  BY <1>2, <1>3, GotoStep

-----------------------------------------------------------------------------
(* The use cases on many, up to their statement.                           *)
LEMMA BatchStep ==
  ASSUME IInv, NEW q \in Requests, NEW pc \in {"updateMany", "deleteMany"}, NEW u \in Users,
         NEW S \in SUBSET Of(u), NEW b \in BOOLEAN, NEW all \in BOOLEAN, Batch(q, pc, u, S, b, all),
         pc = "updateMany" /\ all => b /\ \A n \in Of(u) \ S : notifications[n].isRead
  PROVE  IInv'
<1>1. PICK no \in BOOLEAN : no = FALSE
  OBVIOUS
<1>2. PICK r : r = [pc |-> pc, user |-> u, ids |-> S, isRead |-> b, all |-> all, stale |-> no]
  OBVIOUS
<1>3. Goto(q, r) /\ UNCHANGED <<store, known>>
  BY <1>1, <1>2 DEF Batch
<1>4. S \subseteq Ids
  BY StoredFacts DEF Of
<1>5. r \in Request
  BY <1>2, <1>4 DEF Request
<1>6. r.pc = pc /\ r.user = u /\ r.ids = S /\ r.isRead = b /\ r.all = all
  BY <1>2
<1>7. Current(r)
  BY <1>6 DEF Current
<1>8. Complete(r)
  BY <1>6 DEF Complete
<1> QED
  BY <1>3, <1>5, <1>6, <1>7, <1>8, GotoStep

LEMMA PickedStep ==
  ASSUME IInv, NEW q \in Requests, NEW u \in Users, NEW S,
         markAsReadBulk(q, S, u) \/ markAsUnreadBulk(q, S, u) \/ deleteNotificationsBulk(q, S, u)
  PROVE  IInv'
<1>1. PICK yes \in BOOLEAN, no \in BOOLEAN : yes = TRUE /\ no = FALSE
  OBVIOUS
<1>2. CASE markAsReadBulk(q, S, u)
  <2>1. S \in SUBSET Of(u) /\ Batch(q, "updateMany", u, S, yes, no)
    BY <1>1, <1>2 DEF markAsReadBulk
  <2> QED
    BY <1>1, <2>1, BatchStep
<1>3. CASE markAsUnreadBulk(q, S, u)
  <2>1. S \in SUBSET Of(u) /\ Batch(q, "updateMany", u, S, no, no)
    BY <1>1, <1>3 DEF markAsUnreadBulk
  <2> QED
    BY <1>1, <2>1, BatchStep
<1>4. CASE deleteNotificationsBulk(q, S, u)
  <2>1. S \in SUBSET Of(u) /\ Batch(q, "deleteMany", u, S, yes, no)
    BY <1>1, <1>4 DEF deleteNotificationsBulk
  <2> QED
    BY <1>1, <2>1, BatchStep
<1> QED
  BY <1>2, <1>3, <1>4

(* The page of a set that is no larger than the limit is the set.          *)
LEMMA WholePage ==
  ASSUME NEW S, IsFiniteSet(S), NEW limit \in Nat, Cardinality(S) <= limit, NEW P \in Page(S, limit)
  PROVE  P = S
<1>1. Cardinality(S) \in Nat
  BY FS_CardinalityType
<1>2. P \subseteq S /\ Cardinality(P) = (IF Cardinality(S) < limit THEN Cardinality(S) ELSE limit)
  BY DEF Page
<1>3. Cardinality(P) = Cardinality(S)
  BY <1>1, <1>2
<1> QED
  BY <1>2, <1>3, FS_Subset

LEMMA markAllAsReadStep ==
  ASSUME IInv, NEW q \in Requests, NEW u \in Users, markAllAsRead(q, u)
  PROVE  IInv'
<1>1. PICK unread : unread = Of(u) \ Read(Of(u))
  OBVIOUS
<1>2. PICK P \in Page(unread, BatchLimit) :
        Batch(q, "updateMany", u, P, TRUE, Cardinality(unread) <= BatchLimit)
  BY <1>1 DEF markAllAsRead
<1>3. PICK all \in BOOLEAN : all = (Cardinality(unread) <= BatchLimit)
  <2>1. (Cardinality(unread) <= BatchLimit) \in BOOLEAN
    OBVIOUS
  <2> QED
    BY <2>1, Zenon
<1>4. PICK yes \in BOOLEAN : yes = TRUE
  OBVIOUS
<1>7. Batch(q, "updateMany", u, P, yes, all)
  BY <1>2, <1>3, <1>4
<1>5. P \in SUBSET Of(u)
  BY <1>1 DEF Page
<1>6. ASSUME all
      PROVE  \A n \in Of(u) \ P : notifications[n].isRead
  <2>1. IsFiniteSet(unread)
    BY <1>1, FS_Subset DEF IInv, Of
  <2>2. Cardinality(unread) <= BatchLimit /\ BatchLimit \in Nat
    BY <1>3, <1>6, LimitAssumption
  <2>3. P = unread
    BY <2>1, <2>2, WholePage
  <2> QED
    BY <1>1, <2>3 DEF Read
<1> QED
  BY <1>4, <1>5, <1>6, <1>7, BatchStep

LEMMA DeletePageStep ==
  ASSUME IInv, NEW q \in Requests, NEW u \in Users,
         cleanupReadNotifications(q, u) \/ deleteAllNotifications(q, u)
  PROVE  IInv'
<1>1. PICK yes \in BOOLEAN, no \in BOOLEAN : yes = TRUE /\ no = FALSE
  OBVIOUS
<1>2. PICK S \in SUBSET Of(u) : Batch(q, "deleteMany", u, S, yes, no)
  BY <1>1 DEF cleanupReadNotifications, deleteAllNotifications, Page, Old, Read
<1> QED
  BY <1>2, BatchStep

-----------------------------------------------------------------------------
(* The statements.                                                         *)
LEMMA ChangingRequests ==
  ASSUME NEW q \in Requests, NEW S, NEW U, GotoChanging(q, Idle, S, U)
  PROVE  RequestsLearn(S, U)
  BY DEF GotoChanging, RequestsLearn

LEMMA TypeFacts ==
  ASSUME IInv
  PROVE  /\ IsMap(notifications, Ids, Row) /\ IsMap(saved, Ids, Users)
         /\ IsMap(asked, Stored, [isRead : BOOLEAN, text : Texts])
         /\ Stored \subseteq DOMAIN saved /\ IsFiniteSet(Stored) /\ Stored = DOMAIN notifications
         /\ \A q \in Requests : req[q] \in Request
  BY DEF IInv, TypeOK, Stored

LEMMA RemoveStep ==
  ASSUME IInv, NEW q \in Requests, NEW S, NEW U, Remove(S), GotoChanging(q, Idle, S, U),
         UNCHANGED known
  PROVE  IInv'
<1>1. notifications' = Without(notifications, S) /\ asked' = Without(asked, S) /\ saved' = saved
  BY DEF Remove
<1>2. IsMap(notifications', Ids, Row) /\ IsMap(saved', Ids, Users)
  BY <1>1, TypeFacts, WithoutType
<1>3. Stored' = Stored \ S /\ DOMAIN notifications' = Stored \ S /\ DOMAIN asked' = DOMAIN asked \ S
  BY <1>1 DEF Without, Restrict, Stored
<1>4. IsMap(asked', DOMAIN notifications', [isRead : BOOLEAN, text : Texts])
  BY <1>1, <1>3, TypeFacts DEF IsMap, Without, Restrict
<1>5. IsFiniteSet(Stored')
  BY <1>3, TypeFacts, FS_Subset
<1>6. \A n \in Stored' : n \in Stored /\ n \notin S /\ notifications'[n] = notifications[n]
  BY <1>1, <1>3 DEF Without, Restrict, Stored
<1>7. \A n \in DOMAIN asked' : n \in DOMAIN asked /\ n \notin S /\ asked'[n] = asked[n]
  BY <1>1, <1>3 DEF Without, Restrict
<1>8. UpdatesKept'
  <2>1. \A n \in DOMAIN asked' : n \in Stored'
    BY <1>4, <1>3 DEF IsMap
  <2> QED
    BY <1>6, <1>7, <2>1 DEF IInv, UpdatesKept
<1>9. \A n \in Stored' : n \in DOMAIN saved' /\ saved'[n] = notifications'[n].userId
  BY <1>1, <1>6, StoredFacts
<1>10. \A n \in DOMAIN saved : n \in DOMAIN saved' /\ saved'[n] = saved[n]
  BY <1>1
<1>11. \A p \in Requests : req[p].pc = "save" /\ req[p].id \in DOMAIN saved' =>
         saved'[req[p].id] = req[p].entity.userId
  BY <1>1 DEF IInv, CopiesOwned
<1>12. \A n : n \notin S =>
         /\ n \in Stored' <=> n \in Stored
         /\ n \in Stored => notifications'[n] = notifications[n]
         /\ n \in DOMAIN asked' <=> n \in DOMAIN asked
         /\ n \in DOMAIN asked => asked'[n] = asked[n]
  BY <1>3, <1>6, <1>7
<1>13. \A n \in S \cap Stored' : notifications'[n].userId \in U
  BY <1>3
<1> QED
  <2>1. TablesChange(S, U)
    BY <1>2, <1>4, <1>5, <1>8, <1>9, <1>10, <1>11, <1>12, <1>13 DEF TablesChange
  <2>2. RequestsLearn(S, U)
    BY ChangingRequests
  <2> QED
    BY <2>1, <2>2, RowsChange

LEMMA deleteStep ==
  ASSUME IInv, NEW q \in Requests, delete(q)
  PROVE  IInv'
  BY RemoveStep DEF delete

LEMMA deleteManyStep ==
  ASSUME IInv, NEW q \in Requests, deleteMany(q)
  PROVE  IInv'
  BY RemoveStep DEF deleteMany

LEMMA SweepStep ==
  ASSUME IInv, NEW q \in Requests, NEW S, Sweep(q, S)
  PROVE  IInv'
  BY RemoveStep DEF Sweep

(* One row is stored, and says what was asked of it, or nothing is said to *)
(* have been asked.                                                        *)
LEMMA PutStep ==
  ASSUME IInv, NEW n \in Ids, NEW row \in Row, NEW u \in Users, row.userId = u,
         n \in DOMAIN saved => saved[n] = u,
         \A p \in Requests : req[p].pc = "save" /\ req[p].id = n => req[p].entity.userId = u,
         notifications' = With(notifications, n, row),
         saved' = With(saved, n, u),
         \/ asked' = Without(asked, {n})
         \/ asked' = With(asked, n, [isRead |-> row.isRead, text |-> row.text]),
         RequestsLearn({n}, {u}), UNCHANGED known
  PROVE  IInv'
<1>1. IsMap(notifications', Ids, Row) /\ IsMap(saved', Ids, Users)
  BY TypeFacts, WithType
<1>2. /\ Stored' = Stored \cup {n} /\ DOMAIN notifications' = Stored \cup {n}
      /\ notifications'[n] = row /\ \A m \in Stored : m # n => notifications'[m] = notifications[m]
  BY DEF With, Stored
<1>3. DOMAIN saved' = DOMAIN saved \cup {n} /\ saved'[n] = u
        /\ \A m \in DOMAIN saved : saved'[m] = saved[m]
  BY DEF With
<1>4. IsFiniteSet(Stored')
  BY <1>2, TypeFacts, FS_AddElement
<1>5. /\ \A m : m # n => (m \in DOMAIN asked' <=> m \in DOMAIN asked)
      /\ \A m \in DOMAIN asked' : m # n => asked'[m] = asked[m]
      /\ n \in DOMAIN asked' => asked'[n] = [isRead |-> row.isRead, text |-> row.text]
  BY DEF With, Without, Restrict
<1>6. IsMap(asked', DOMAIN notifications', [isRead : BOOLEAN, text : Texts])
  <2>1. [isRead |-> row.isRead, text |-> row.text] \in [isRead : BOOLEAN, text : Texts]
    BY DEF Row
  <2>2. CASE asked' = Without(asked, {n})
    BY <1>2, <2>2, TypeFacts DEF IsMap, Without, Restrict
  <2>3. CASE asked' = With(asked, n, [isRead |-> row.isRead, text |-> row.text])
    <3>1. IsMap(asked, Stored \cup {n}, [isRead : BOOLEAN, text : Texts])
      BY TypeFacts DEF IsMap
    <3>2. IsMap(asked', Stored \cup {n}, [isRead : BOOLEAN, text : Texts])
      BY <2>1, <2>3, <3>1, WithType
    <3> QED
      BY <1>2, <3>2
  <2> QED
    BY <2>2, <2>3
<1>7. UpdatesKept'
  <2>1. ASSUME NEW m \in DOMAIN asked', NEW f \in Fields
        PROVE  notifications'[m][f] = asked'[m][f]
    <3>1. CASE m = n
      BY <1>2, <1>5, <3>1 DEF Fields
    <3>2. CASE m # n
      <4>1. m \in DOMAIN asked /\ m \in Stored
        BY <1>5, <3>2, TypeFacts DEF IsMap
      <4> QED
        BY <1>2, <1>5, <3>2, <4>1 DEF IInv, UpdatesKept
    <3> QED
      BY <3>1, <3>2
  <2> QED
    BY <2>1 DEF UpdatesKept
<1>8. \A m \in Stored' : m \in DOMAIN saved' /\ saved'[m] = notifications'[m].userId
  BY <1>2, <1>3, StoredFacts
<1>9. \A m \in DOMAIN saved : m \in DOMAIN saved' /\ saved'[m] = saved[m]
  BY <1>3
<1>10. \A p \in Requests : req[p].pc = "save" /\ req[p].id \in DOMAIN saved' =>
         saved'[req[p].id] = req[p].entity.userId
  BY <1>3 DEF IInv, CopiesOwned
<1>11. \A m : m \notin {n} =>
         /\ m \in Stored' <=> m \in Stored
         /\ m \in Stored => notifications'[m] = notifications[m]
         /\ m \in DOMAIN asked' <=> m \in DOMAIN asked
         /\ m \in DOMAIN asked => asked'[m] = asked[m]
  BY <1>2, <1>5
<1>12. \A m \in {n} \cap Stored' : notifications'[m].userId \in {u}
  BY <1>2
<1> QED
  <2>1. TablesChange({n}, {u})
    BY <1>1, <1>4, <1>6, <1>7, <1>8, <1>9, <1>10, <1>11, <1>12 DEF TablesChange
  <2> QED
    BY <2>1, RowsChange

LEMMA saveStep ==
  ASSUME IInv, NEW q \in Requests, save(q)
  PROVE  IInv'
<1>1. PICK n, entity, wants, stale :
        /\ n \in Ids /\ entity \in Row /\ wants \subseteq Fields
        /\ req[q].id = n /\ req[q].entity = entity /\ req[q].wants = wants
        /\ req[q].pc = "save" /\ stale = req[q].stale
  BY TypeFacts, RequestShape DEF save
<1>2. PICK u \in Users : u = entity.userId
  BY <1>1 DEF Row
<1>3. PICK wanted : wanted = [f \in Fields |-> IF f \in wants THEN entity[f] ELSE asked[n][f]]
  OBVIOUS
<1>4. PICK row : row = IF n \in Stored
                       THEN [notifications[n] EXCEPT !.text = entity.text, !.isRead = entity.isRead]
                       ELSE entity
  OBVIOUS
<1>5. notifications' = With(notifications, n, row) /\ saved' = With(saved, n, u)
  BY <1>1, <1>2, <1>4 DEF save, Upsert
<1>6. GotoChanging(q, Idle, {n}, {u}) /\ UNCHANGED known
  BY <1>1, <1>2 DEF save
<1>7. asked' = Without(asked, {n})
        \/ /\ ~req[q].stale /\ n \notin Stored \ DOMAIN asked
           /\ asked' = With(asked, n, wanted)
  BY <1>1, <1>3 DEF save
<1>8. /\ n \in DOMAIN saved => saved[n] = u
      /\ \A p \in Requests : req[p].pc = "save" /\ req[p].id = n => req[p].entity.userId = u
  BY <1>1, <1>2 DEF IInv, CopiesOwned
<1>9. row \in Row /\ row.userId = u /\ row.text = entity.text /\ row.isRead = entity.isRead
  <2>1. CASE n \in Stored
    <3>1. PICK old \in Row : old = notifications[n] /\ old.userId = u
      BY <1>8, <2>1, StoredFacts
    <3>2. PICK t \in Texts : t = entity.text
      BY <1>1 DEF Row
    <3>3. PICK b \in BOOLEAN : b = entity.isRead
      BY <1>1 DEF Row
    <3>4. PICK s : s = [old EXCEPT !.text = t]
      OBVIOUS
    <3>5. s = [userId |-> old.userId, isRead |-> old.isRead, text |-> t, old |-> old.old]
      BY <3>4 DEF Row
    <3>6. [s EXCEPT !.isRead = b] =
            [userId |-> old.userId, isRead |-> b, text |-> t, old |-> old.old]
      BY <3>5
    <3>7. row = [old EXCEPT !.text = t, !.isRead = b]
      BY <1>4, <2>1, <3>1, <3>2, <3>3, Zenon
    <3>8. row = [s EXCEPT !.isRead = b]
      BY <3>4, <3>7, Zenon
    <3>9. row = [userId |-> old.userId, isRead |-> b, text |-> t, old |-> old.old]
      BY <3>6, <3>8
    <3> QED
      BY <3>1, <3>2, <3>3, <3>9 DEF Row
  <2>2. CASE n \notin Stored
    BY <1>1, <1>2, <1>4, <2>2
  <2> QED
    BY <2>1, <2>2
<1>10. ASSUME ~req[q].stale, n \notin Stored \ DOMAIN asked
       PROVE  wanted = [isRead |-> row.isRead, text |-> row.text]
  <2>1. \A f \in Fields : wanted[f] = entity[f]
    <3>1. Current(req[q])
      BY DEF IInv
    <3>2. CASE n \in DOMAIN asked
      BY <1>1, <1>3, <1>10, <3>1, <3>2 DEF Current
    <3>3. CASE n \notin Stored
      BY <1>1, <1>3, <1>10, <3>1, <3>3 DEF Current
    <3> QED
      BY <1>10, <3>2, <3>3
  <2>2. wanted = [f \in {"isRead", "text"} |-> wanted[f]]
    BY <1>3 DEF Fields
  <2>3. wanted["isRead"] = row.isRead /\ wanted["text"] = row.text
    BY <1>9, <2>1 DEF Fields
  <2> QED
    BY <2>2, <2>3
<1>11. \/ asked' = Without(asked, {n})
       \/ asked' = With(asked, n, [isRead |-> row.isRead, text |-> row.text])
  BY <1>7, <1>10
<1> QED
  <2>1. RequestsLearn({n}, {u})
    BY <1>6, ChangingRequests
  <2> QED
    BY <1>1, <1>5, <1>6, <1>8, <1>9, <1>11, <2>1, PutStep

(* What was asked of a row, told to be read or unread.                     *)
LEMMA AskedExcept ==
  ASSUME NEW a \in [isRead : BOOLEAN, text : Texts], NEW b \in BOOLEAN
  PROVE  /\ [a EXCEPT !.isRead = b] = [isRead |-> b, text |-> a.text]
         /\ [a EXCEPT !.isRead = b] \in [isRead : BOOLEAN, text : Texts]
<1>1. PICK x, t : a = [isRead |-> x, text |-> t] /\ t \in Texts
  OBVIOUS
<1>2. [a EXCEPT !.isRead = b] = [isRead |-> b, text |-> t]
  BY <1>1
<1> QED
  BY <1>1, <1>2

LEMMA updateManyStep ==
  ASSUME IInv, NEW q \in Requests, updateMany(q)
  PROVE  /\ IInv'
         /\ saved' = saved
         /\ req[q].all /\ ~req[q].stale
            => \A n \in Of(req[q].user) : notifications'[n].isRead
<1>1. PICK u, ids : req[q].user = u /\ req[q].ids = ids
  OBVIOUS
<1>2. PICK b \in BOOLEAN : req[q].isRead = b
  BY TypeFacts, RequestShape DEF updateMany
<1>3. PICK S : S = {n \in ids \cap Of(u) : notifications[n].isRead # b}
  OBVIOUS
<1>4. PICK A : A = ids \cap Of(u) \cap DOMAIN asked
  OBVIOUS
<1>5. /\ notifications' = WithAll(notifications,
                            [n \in S |-> [notifications[n] EXCEPT !.isRead = b]])
      /\ asked' = WithAll(asked, [n \in A |-> [asked[n] EXCEPT !.isRead = b]])
      /\ GotoChanging(q, Idle, S, Owners(S))
      /\ saved' = saved /\ known' = known
  BY <1>1, <1>2, <1>3, <1>4 DEF updateMany
<1>6. S \subseteq Stored /\ A \subseteq DOMAIN asked /\ DOMAIN asked \subseteq Stored
  BY <1>3, <1>4, TypeFacts DEF Of, IsMap
<1>7. Stored' = Stored /\ DOMAIN notifications' = Stored /\ DOMAIN asked' = DOMAIN asked
  BY <1>5, <1>6 DEF WithAll, Stored
<1>8. ASSUME NEW n \in Stored
      PROVE  /\ notifications'[n] \in Row
             /\ notifications'[n].userId = notifications[n].userId
             /\ notifications'[n].text = notifications[n].text
             /\ n \in S => notifications'[n].isRead = b
             /\ n \notin S => notifications'[n] = notifications[n]
  <2>1. CASE n \in S
    <3>1. PICK row \in Row : row = notifications[n]
      BY StoredFacts
    <3>2. notifications'[n] = [notifications[n] EXCEPT !.isRead = b]
      BY <1>5, <1>6, <2>1 DEF WithAll
    <3>3. notifications'[n] =
            [userId |-> row.userId, isRead |-> b, text |-> row.text, old |-> row.old]
      BY <3>1, <3>2, RowExcept
    <3> QED
      BY <2>1, <3>1, <3>3 DEF Row
  <2>2. CASE n \notin S
    BY <1>5, <2>2, StoredFacts DEF WithAll, Stored
  <2> QED
    BY <2>1, <2>2
<1>9. ASSUME NEW n \in DOMAIN asked
      PROVE  /\ asked'[n] \in [isRead : BOOLEAN, text : Texts]
             /\ asked'[n].text = asked[n].text
             /\ n \in A => asked'[n].isRead = b
             /\ n \notin A => asked'[n] = asked[n]
  <2>1. PICK a \in [isRead : BOOLEAN, text : Texts] : a = asked[n]
    BY TypeFacts DEF IsMap
  <2>2. CASE n \in A
    <3>1. asked'[n] = [a EXCEPT !.isRead = b]
      BY <1>5, <2>1, <2>2 DEF WithAll
    <3> QED
      BY <2>1, <2>2, <3>1, AskedExcept
  <2>3. CASE n \notin A
    BY <1>5, <2>1, <2>3 DEF WithAll
  <2> QED
    BY <2>2, <2>3
<1>10. IsMap(notifications', Ids, Row)
  <2>1. notifications' = [n \in DOMAIN notifications' |-> notifications'[n]]
    BY <1>5 DEF WithAll
  <2> QED
    BY <1>7, <1>8, <2>1, TypeFacts DEF IsMap
<1>11. IsMap(asked', DOMAIN notifications', [isRead : BOOLEAN, text : Texts])
  <2>1. asked' = [n \in DOMAIN asked' |-> asked'[n]]
    BY <1>5 DEF WithAll
  <2> QED
    BY <1>6, <1>7, <1>9, <2>1 DEF IsMap
<1>12. \A n \in DOMAIN asked : notifications[n].isRead = asked[n].isRead
                                /\ notifications[n].text = asked[n].text
  BY DEF IInv, UpdatesKept, Fields
<1>13. \A n \in DOMAIN asked : notifications'[n].isRead = asked'[n].isRead
                                 /\ notifications'[n].text = asked'[n].text
  BY <1>3, <1>4, <1>6, <1>8, <1>9, <1>12
<1>14. UpdatesKept'
  BY <1>7, <1>13 DEF UpdatesKept, Fields
<1>15. ASSUME NEW n \in DOMAIN asked, n \notin S
       PROVE  asked'[n] = asked[n]
  <2>1. CASE n \in A
    <3>1. asked[n].isRead = b /\ asked'[n].isRead = b /\ asked'[n].text = asked[n].text
      BY <1>3, <1>4, <1>9, <1>12, <1>15, <2>1
    <3>2. asked[n] \in [isRead : BOOLEAN, text : Texts]
      BY TypeFacts DEF IsMap
    <3> QED
      BY <1>9, <3>1, <3>2
  <2> QED
    BY <1>9, <2>1
<1>16. \A n \in Stored' : n \in DOMAIN saved' /\ saved'[n] = notifications'[n].userId
  BY <1>5, <1>7, <1>8, StoredFacts
<1>17. \A p \in Requests : req[p].pc = "save" /\ req[p].id \in DOMAIN saved' =>
         saved'[req[p].id] = req[p].entity.userId
  BY <1>5 DEF IInv, CopiesOwned
<1>18. \A n \in S \cap Stored' : notifications'[n].userId \in Owners(S)
  BY <1>6, <1>8 DEF Owners
<1>19. TablesChange(S, Owners(S))
  BY <1>5, <1>7, <1>8, <1>10, <1>11, <1>14, <1>15, <1>16, <1>17, <1>18, TypeFacts
     DEF TablesChange
<1>20. IInv'
  <2>1. RequestsLearn(S, Owners(S))
    BY <1>5, ChangingRequests
  <2> QED
    BY <1>19, <2>1, RowsChange
<1>21. ASSUME req[q].all, ~req[q].stale, NEW n \in Of(u)
       PROVE  notifications'[n].isRead
  <2>1. Complete(req[q])
    BY DEF IInv
  <2>2. b /\ \A m \in Of(u) \ ids : notifications[m].isRead
    BY <1>1, <1>2, <1>21, <2>1 DEF Complete, updateMany
  <2>3. n \in Stored
    BY DEF Of
  <2> QED
    BY <1>3, <1>8, <2>2, <2>3 DEF Row
<1> QED
  BY <1>1, <1>5, <1>20, <1>21

(* A statement fails, reads, and time that passes.                         *)
LEMMA failStep ==
  ASSUME IInv, NEW q \in Requests, fail(q)
  PROVE  IInv'
  BY IdleStep DEF fail

LEMMA ShownStep ==
  ASSUME IInv, NEW u \in Users, NEW S \in SUBSET Of(u), Shown(u, S)
  PROVE  IInv'
<1>1. \A n \in S : n \in Ids /\ n \in DOMAIN saved /\ saved[n] = u
  BY StoredFacts DEF Of
<1>2. /\ known' \in [Users -> SUBSET Ids] /\ known'[u] = known[u] \cup S
      /\ \A v \in Users : v # u => known'[v] = known[v]
  BY <1>1 DEF Shown, IInv, TypeOK
<1>3. TypeOK'
  BY <1>2 DEF Shown, store, IInv, TypeOK
<1>4. Owned'
  <2>1. \A v \in Users : \A n \in known'[v] : n \in DOMAIN saved /\ saved[n] = v
    BY <1>1, <1>2 DEF IInv, Owned
  <2> QED
    BY <2>1 DEF Shown, store, IInv, Owned, Stored
<1>5. IsFiniteSet(Stored)' /\ CopiesOwned' /\ UpdatesKept'
  BY DEF Shown, store, IInv, Stored, CopiesOwned, UpdatesKept
<1>6. \A p \in Requests : Current(req[p])' /\ Complete(req[p])'
  BY DEF Shown, store, IInv, Current, Complete, Of, Stored
<1> QED
  BY <1>3, <1>4, <1>5, <1>6 DEF IInv

LEMMA ReadsStep ==
  ASSUME IInv, NEW u \in Users, NEW limit, NEW isRead, NEW since,
         getNotifications(u, isRead, limit) \/ getLatestNotifications(u, since, limit)
  PROVE  IInv'
<1>1. PICK S \in SUBSET Of(u) : Shown(u, S)
  BY DEF getNotifications, getLatestNotifications, Page
<1> QED
  BY <1>1, ShownStep

LEMMA AgedRequest ==
  ASSUME NEW r \in Request, r.pc = "save", NEW b \in BOOLEAN
  PROVE  \E s \in Request :
           /\ s = [r EXCEPT !.entity.old = b]
           /\ s.pc = "save" /\ s.id = r.id /\ s.wants = r.wants /\ s.stale = r.stale
           /\ s.entity.userId = r.entity.userId
           /\ s.entity.isRead = r.entity.isRead /\ s.entity.text = r.entity.text
<1>1. PICK id, e, w, st : r = [pc |-> "save", id |-> id, entity |-> e, wants |-> w, stale |-> st]
  BY RequestShape
<1>2. id \in Ids /\ e \in Row /\ w \subseteq Fields /\ st \in BOOLEAN
  BY <1>1, RequestShape
<1>3. PICK f : f = [r.entity EXCEPT !.old = b]
  OBVIOUS
<1>4. f = [e EXCEPT !.old = b]
  BY <1>1, <1>3
<1>5. f = [userId |-> e.userId, isRead |-> e.isRead, text |-> e.text, old |-> b]
  BY <1>2, <1>4, RowExcept
<1>6. [r EXCEPT !.entity.old = b] = [r EXCEPT !.entity = f]
  BY <1>3
<1>7. [r EXCEPT !.entity = f] = [pc |-> "save", id |-> id, entity |-> f, wants |-> w, stale |-> st]
  BY <1>1
<1>8. f \in Row
  BY <1>2, <1>5 DEF Row
<1>9. PICK s : s = [pc |-> "save", id |-> id, entity |-> f, wants |-> w, stale |-> st]
  OBVIOUS
<1>10. s \in Request
  BY <1>2, <1>8, <1>9 DEF Request
<1> QED
  BY <1>1, <1>5, <1>6, <1>7, <1>9, <1>10

LEMMA AgeStep ==
  ASSUME IInv, NEW n \in Ids, Age(n)
  PROVE  IInv'
<1>1. PICK yes \in BOOLEAN : yes = TRUE
  OBVIOUS
<1>2. n \in Stored /\ UNCHANGED <<known, saved, asked>>
  BY DEF Age
<1>3. PICK row \in Row : row = notifications[n]
  BY <1>2, StoredFacts
<1>4. PICK new : new = [notifications[n] EXCEPT !.old = yes]
  OBVIOUS
<1>5. notifications' = [notifications EXCEPT ![n] = new]
  BY <1>1, <1>4 DEF Age
<1>6. new = [userId |-> row.userId, isRead |-> row.isRead, text |-> row.text, old |-> yes]
  BY <1>3, <1>4, RowExcept
<1>7. IsMap(notifications', Ids, Row) /\ DOMAIN notifications' = Stored /\ Stored' = Stored
  BY <1>5, <1>6, TypeFacts DEF Row, IsMap, Stored
<1>8. \A m \in Stored : /\ notifications'[m].userId = notifications[m].userId
                        /\ notifications'[m].isRead = notifications[m].isRead
                        /\ notifications'[m].text = notifications[m].text
  BY <1>3, <1>5, <1>6 DEF Stored
<1>9. ASSUME NEW p \in Requests
      PROVE  /\ req'[p] \in Request
             /\ \/ req'[p] = req[p]
                \/ /\ req'[p].pc = "save" /\ req[p].pc = "save"
                   /\ req'[p].id = req[p].id /\ req'[p].wants = req[p].wants
                   /\ req'[p].stale = req[p].stale
                   /\ req'[p].entity.userId = req[p].entity.userId
                   /\ req'[p].entity.isRead = req[p].entity.isRead
                   /\ req'[p].entity.text = req[p].entity.text
  <2>1. PICK r \in Request : r = req[p]
    BY TypeFacts
  <2>2. CASE r.pc = "save" /\ r.id = n
    <3>1. req'[p] = [r EXCEPT !.entity.old = yes]
      BY <1>1, <2>1, <2>2 DEF Age
    <3>2. PICK s \in Request :
            /\ s = [r EXCEPT !.entity.old = yes]
            /\ s.pc = "save" /\ s.id = r.id /\ s.wants = r.wants /\ s.stale = r.stale
            /\ s.entity.userId = r.entity.userId
            /\ s.entity.isRead = r.entity.isRead /\ s.entity.text = r.entity.text
      BY <2>2, AgedRequest
    <3>3. req'[p] = s
      BY <3>1, <3>2
    <3> QED
      BY <2>1, <2>2, <3>2, <3>3
  <2>3. CASE ~(r.pc = "save" /\ r.id = n)
    BY <2>1, <2>3 DEF Age
  <2> QED
    BY <2>2, <2>3
<1>10. TypeOK'
  <2>1. req' = [p \in Requests |-> req'[p]]
    BY DEF Age
  <2> QED
    BY <1>2, <1>7, <1>9, <2>1 DEF IInv, TypeOK, Stored
<1>11. IsFiniteSet(Stored') /\ Owned'
  BY <1>2, <1>7, <1>8, TypeFacts DEF IInv, Owned
<1>12. CopiesOwned'
  BY <1>2, <1>9 DEF IInv, CopiesOwned
<1>13. UpdatesKept'
  <2>1. DOMAIN asked \subseteq Stored
    BY TypeFacts DEF IsMap
  <2> QED
    BY <1>2, <1>8, <2>1 DEF IInv, UpdatesKept, Fields
<1>14. ASSUME NEW p \in Requests
       PROVE  Current(req[p])'
  BY <1>2, <1>7, <1>9 DEF IInv, Current, Fields
<1>15. ASSUME NEW p \in Requests
       PROVE  Complete(req[p])'
  <2>1. req'[p].pc = "updateMany" => req'[p] = req[p]
    BY <1>9
  <2> QED
    BY <1>7, <1>8, <2>1 DEF IInv, Complete, Of
<1> QED
  BY <1>10, <1>11, <1>12, <1>13, <1>14, <1>15 DEF IInv

-----------------------------------------------------------------------------
(* Every step of the store.                                                *)
LEMMA InitIInv == Init => IInv
<1> SUFFICES ASSUME Init PROVE IInv
  OBVIOUS
<1>1. Stored = {} /\ DOMAIN saved = {} /\ DOMAIN asked = {}
  BY DEF Init, Stored
<1>2. \A q \in Requests : req[q] = Idle /\ req[q].pc = "idle"
  BY IdleFacts DEF Init
<1>3. TypeOK
  BY <1>1, IdleFacts DEF Init, TypeOK, IsMap, Stored
<1>4. IsFiniteSet(Stored)
  BY <1>1, FS_EmptySet
<1>5. Owned /\ UpdatesKept
  BY <1>1 DEF Init, Owned, UpdatesKept
<1>6. CopiesOwned /\ \A q \in Requests : Current(req[q]) /\ Complete(req[q])
  BY <1>2 DEF CopiesOwned, Current, Complete
<1> QED
  BY <1>3, <1>4, <1>5, <1>6 DEF IInv

LEMMA StatementStep ==
  ASSUME IInv, NEW q \in Requests, Statement(q)
  PROVE  IInv'
  BY saveStep, deleteStep, updateManyStep, deleteManyStep, failStep DEF Statement

LEMMA HandlersStep ==
  ASSUME IInv, NEW q \in Requests, NEW u \in Users,
         \/ CreateHandler(q, u) \/ UpdateHandler(q, u) \/ MarkHandlers(q, u)
         \/ DeleteHandlers(q, u) \/ CleanupHandlers(q, u) \/ ForOtherModules(q, u)
  PROVE  IInv'
<1>1. CASE CreateHandler(q, u)
  <2>1. PICK n \in Ids, dto \in CreateDto : createNotification(q, n, u, dto.text)
    BY <1>1 DEF CreateHandler
  <2>2. dto.text \in Texts \cup {Blank}
    BY DEF CreateDto
  <2> QED
    BY <2>1, <2>2, createNotificationStep
<1>2. CASE UpdateHandler(q, u)
  BY <1>2, updateNotificationStep DEF UpdateHandler
<1>3. CASE MarkHandlers(q, u)
  BY <1>3, markAsReadStep, markAsUnreadStep, PickedStep, markAllAsReadStep DEF MarkHandlers
<1>4. CASE DeleteHandlers(q, u)
  BY <1>4, deleteNotificationStep, PickedStep DEF DeleteHandlers
<1>5. CASE CleanupHandlers(q, u)
  BY <1>5, SweepStep
     DEF CleanupHandlers, cleanupUserReadNotifications, cleanupSystemOldNotifications
<1>6. CASE ForOtherModules(q, u)
  BY <1>6, SweepStep, DeletePageStep DEF ForOtherModules, cleanupNotificationsByEntity
<1> QED
  BY <1>1, <1>2, <1>3, <1>4, <1>5, <1>6

LEMMA NextIInv == IInv /\ [Next]_vars => IInv'
<1> SUFFICES ASSUME IInv, [Next]_vars PROVE IInv'
  OBVIOUS
<1>1. ASSUME NEW q \in Requests, NEW u \in Users,
             \/ CreateHandler(q, u) \/ UpdateHandler(q, u) \/ MarkHandlers(q, u)
             \/ DeleteHandlers(q, u) \/ CleanupHandlers(q, u) \/ ForOtherModules(q, u)
      PROVE  IInv'
  BY <1>1, HandlersStep
<1>2. ASSUME NEW u \in Users, ReadHandlers(u)
      PROVE  IInv'
  BY <1>2, ReadsStep DEF ReadHandlers
<1>3. ASSUME NEW q \in Requests, Statement(q)
      PROVE  IInv'
  BY <1>3, StatementStep
<1>4. ASSUME NEW n \in Ids, Age(n)
      PROVE  IInv'
  BY <1>4, AgeStep
<1>5. CASE UNCHANGED vars
  BY <1>5 DEF vars, store, IInv, TypeOK, Stored, Of, Owned, CopiesOwned, UpdatesKept, Current,
              Complete
<1> QED
  BY <1>1, <1>2, <1>3, <1>4, <1>5 DEF Next

LEMMA SpecIInv == Spec => []IInv
  BY InitIInv, NextIInv, PTL DEF Spec

(* Rows, requests, what users have been shown and the histories are of     *)
(* their types.                                                            *)
THEOREM StoreIsWellTyped == Spec => []TypeOK
<1>1. IInv => TypeOK
  BY DEF IInv
<1> QED
  BY <1>1, SpecIInv, PTL

(* What was asked of a notification last is what its row says, whoever     *)
(* else has loaded, marked, deleted or saved it meanwhile.                 *)
THEOREM LastUpdateStays == Spec => []UpdatesKept
<1>1. IInv => UpdatesKept
  BY DEF IInv
<1> QED
  BY <1>1, SpecIInv, PTL

(* The update of many after all unread ones were listed leaves none of the *)
(* user's notifications unread, unless something else changed them between *)
(* the two.                                                                *)
THEOREM NoneIsLeftUnread == Spec => MarkAllMarksAll
<1>1. ASSUME IInv, NEW q \in Requests
      PROVE  MarksAll(q)
  BY <1>1, updateManyStep DEF MarksAll
<1>2. IInv /\ [Next]_vars => [\A q \in Requests : MarksAll(q)]_vars
  BY <1>1
<1> QED
  BY <1>2, SpecIInv, PTL DEF Spec, MarkAllMarksAll

-----------------------------------------------------------------------------
(* The queue and the gateway.                                              *)
SavedStays ==
  \A n \in DOMAIN saved : /\ n \in DOMAIN saved' /\ saved'[n] = saved[n]
                          /\ n \in unreadable' => n \in unreadable

LEMMA AboutStays ==
  ASSUME SavedStays, NEW m, About(m)
  PROVE  About(m)'
  BY DEF SavedStays, About

LEMMA JobsStay ==
  ASSUME JobsSound, UNCHANGED <<jobs, unreadable>>, SavedStays, channel' \subseteq Message,
         \A m \in channel' : m \in channel \/ About(m)'
  PROVE  JobsSound'
<1>1. ASSUME NEW job, JobSound(job)
      PROVE  JobSound(job)'
  BY <1>1, AboutStays DEF JobSound
<1>2. \A m \in channel' : About(m)'
  BY AboutStays DEF JobsSound
<1>3. unreadable' \subseteq DOMAIN saved'
  BY DEF JobsSound, SavedStays
<1> QED
  BY <1>1, <1>2, <1>3 DEF JobsSound

LEMMA JobChanges ==
  ASSUME JobsSound, NEW j \in Jobs, NEW job \in Job, SavedStays, JobSound(job)',
         (Become(j, job) /\ j \in DOMAIN jobs) \/ jobs' = With(jobs, j, job),
         channel' \subseteq Message, \A m \in channel' : m \in channel \/ About(m)',
         \A n \in unreadable' : n \in unreadable \/ n \in DOMAIN saved'
  PROVE  JobsSound'
<1>1. IsMap(jobs', Jobs, Job)
  <2>1. CASE jobs' = With(jobs, j, job)
    BY <2>1, WithType DEF JobsSound
  <2>2. CASE Become(j, job) /\ j \in DOMAIN jobs
    BY <2>2 DEF Become, JobsSound, IsMap
  <2> QED
    BY <2>1, <2>2
<1>2. \A i \in DOMAIN jobs' : jobs'[i] = job \/ (i \in DOMAIN jobs /\ jobs'[i] = jobs[i])
  BY DEF Become, With
<1>3. ASSUME NEW x, JobSound(x)
      PROVE  JobSound(x)'
  BY <1>3, AboutStays DEF JobSound
<1>4. \A i \in DOMAIN jobs' : JobSound(jobs[i])'
  <2>1. ASSUME NEW i \in DOMAIN jobs'
        PROVE  JobSound(jobs[i])'
    <3>1. CASE jobs'[i] = job
      BY <3>1
    <3>2. CASE i \in DOMAIN jobs /\ jobs'[i] = jobs[i]
      <4>1. PICK x : x = jobs[i]
        OBVIOUS
      <4>2. JobSound(x)'
        BY <1>3, <3>2, <4>1 DEF JobsSound
      <4> QED
        BY <3>2, <4>1, <4>2
    <3> QED
      BY <1>2, <3>1, <3>2
  <2> QED
    BY <2>1
<1>5. \A m \in channel' : About(m)'
  BY AboutStays DEF JobsSound
<1>6. unreadable' \subseteq DOMAIN saved'
  BY DEF JobsSound, SavedStays
<1> QED
  BY <1>1, <1>4, <1>5, <1>6 DEF JobsSound

LEMMA JobFacts ==
  ASSUME JobsSound, NEW j \in DOMAIN jobs
  PROVE  j \in Jobs /\ jobs[j] \in Job /\ JobSound(jobs[j])
  BY DEF JobsSound, IsMap

LEMMA NothingSaved ==
  ASSUME UNCHANGED saved, UNCHANGED unreadable
  PROVE  SavedStays
  BY DEF SavedStays

(* A new row nobody was shown before, so what they were stays readable.    *)
LEMMA ReadableStays ==
  ASSUME IInv, Readable, SavedStays, UNCHANGED known
  PROVE  Readable'
  BY DEF IInv, Owned, Readable, SavedStays

LEMMA ZeroMade == [u \in Users |-> 0] \in [Users -> Nat]
  OBVIOUS

LEMMA AddStep ==
  ASSUME JobsSound, NEW j \in Jobs, NEW name \in Names, NEW U \in SUBSET Users, Add(j, name, U)
  PROVE  JobsSound'
<1>1. PICK no \in BOOLEAN : no = FALSE
  OBVIOUS
<1>2. PICK none \in [Users -> Nat] : none = [u \in Users |-> 0]
  BY ZeroMade
<1>3. PICK job : job = [name |-> name, targets |-> U, status |-> "waiting", todo |-> {},
                        toPublish |-> {}, skipped |-> no, stalls |-> 0, made |-> none]
  OBVIOUS
<1>4. jobs' = With(jobs, j, job) /\ channel' = channel /\ saved' = saved /\ unreadable' = unreadable
  BY <1>1, <1>2, <1>3 DEF Add, store
<1>5. job \in Job
  BY <1>3 DEF Job
<1>6. JobSound(job)'
  BY <1>2, <1>3 DEF JobSound
<1> QED
  BY <1>4, <1>5, <1>6, NothingSaved, JobChanges DEF JobsSound

LEMMA processStep ==
  ASSUME JobsSound, NEW j, NEW found \in BOOLEAN, process(j, found)
  PROVE  JobsSound'
<1>1. PICK job \in Job : job = jobs[j] /\ JobSound(job) /\ job.status = "waiting" /\ j \in Jobs
  BY JobFacts DEF process
<1>2. PICK todo : todo = IF CASE job.name \in ByActor -> found
                              [] job.name \in {"create-notification", "bulk-notification"} -> TRUE
                              [] OTHER -> FALSE
                         THEN job.targets ELSE {}
  OBVIOUS
<1>3. PICK skipped \in BOOLEAN : skipped = (job.name \in ByActor /\ ~found)
  <2>1. (job.name \in ByActor /\ ~found) \in BOOLEAN
    OBVIOUS
  <2> QED
    BY <2>1, Zenon
<1>4. PICK new : new = [job EXCEPT !.status = "active", !.todo = todo, !.skipped = skipped]
  OBVIOUS
<1>5. /\ Become(j, new) /\ j \in DOMAIN jobs
      /\ channel' = channel /\ saved' = saved /\ unreadable' = unreadable
  BY <1>1, <1>2, <1>3, <1>4 DEF process, store
<1>6. todo \subseteq job.targets
  BY <1>2
<1>7. /\ new \in Job /\ new.status = "active" /\ new.todo = todo
      /\ new.targets = job.targets /\ new.toPublish = job.toPublish
      /\ new.made = job.made /\ new.stalls = job.stalls
  BY <1>4, <1>6 DEF Job
<1>8. JobSound(new)'
  BY <1>1, <1>5, <1>6, <1>7 DEF JobSound, About
<1> QED
  BY <1>1, <1>5, <1>7, <1>8, NothingSaved, JobChanges DEF JobsSound

(* The row of a job, and what every job may then become.                   *)
LEMMA insertStep ==
  ASSUME IInv, NEW j, NEW u \in Users, NEW n \in Ids, insert(j, u, n), UNCHANGED known
  PROVE  /\ IInv' /\ n \notin DOMAIN saved
         /\ DOMAIN saved' = DOMAIN saved \cup {n} /\ saved'[n] = u
         /\ \A k \in DOMAIN saved : saved'[k] = saved[k]
<1>1. PICK text \in Texts : Insert(n, NewRow(u, text))
  BY DEF insert
<1>2. PICK row : row = NewRow(u, text)
  OBVIOUS
<1>3. row \in Row /\ row.userId = u
  BY <1>2 DEF NewRow, Row
<1>4. /\ notifications' = With(notifications, n, row)
      /\ saved' = With(saved, n, u)
      /\ asked' = With(asked, n, [isRead |-> row.isRead, text |-> row.text])
  BY <1>1, <1>2, <1>3 DEF Insert
<1>5. n \notin DOMAIN saved
  BY DEF insert, NewId
<1>6. ASSUME NEW p \in Requests, req[p].pc = "save"
      PROVE  req[p].id # n
  <2>1. "id" \in DOMAIN req[p]
    BY <1>6, TypeFacts, RequestShape
  <2> QED
    BY <2>1 DEF insert, NewId
<1>7. IInv'
  <2>1. RequestsLearn({n}, {u})
    BY DEF insert, RequestsLearn
  <2> QED
    BY <1>3, <1>4, <1>5, <1>6, <2>1, PutStep
<1> QED
  BY <1>4, <1>5, <1>7 DEF With

LEMMA createStep ==
  ASSUME DeliveryIInv, NEW j, NEW u \in Users, NEW n \in Ids, create(j, u, n)
  PROVE  DeliveryIInv'
<1>1. IInv /\ JobsSound /\ Readable
  BY DEF DeliveryIInv
<1>2. UNCHANGED <<known, channel, unreadable>>
  BY DEF create
<1>3. /\ IInv' /\ n \notin DOMAIN saved
      /\ DOMAIN saved' = DOMAIN saved \cup {n} /\ saved'[n] = u
      /\ \A k \in DOMAIN saved : saved'[k] = saved[k]
  BY <1>1, <1>2, insertStep DEF create
<1>4. n \notin unreadable
  BY <1>1, <1>3 DEF JobsSound
<1>5. SavedStays /\ n \in DOMAIN saved' \ unreadable' /\ saved'[n] = u
  BY <1>2, <1>3, <1>4 DEF SavedStays
<1>6. PICK job \in Job : /\ job = jobs[j] /\ JobSound(job) /\ job.status = "active"
                         /\ j \in DOMAIN jobs /\ j \in Jobs /\ u \in job.todo
  BY <1>1, JobFacts DEF create, insert, Active
<1>7. PICK m \in Message : m = [user |-> u, id |-> n]
  BY DEF Message
<1>8. PICK made : made = [job.made EXCEPT ![u] = job.made[u] + 1]
  OBVIOUS
<1>9. PICK new : new = [job EXCEPT !.todo = job.todo \ {u}, !.toPublish = job.toPublish \cup {m},
                                   !.made = made]
  OBVIOUS
<1>10. Become(j, new)
  BY <1>6, <1>7, <1>8, <1>9 DEF create
<1>11. /\ made \in [Users -> Nat] /\ made[u] = job.made[u] + 1
       /\ \A v \in Users : v # u => made[v] = job.made[v]
  BY <1>8 DEF Job
<1>12. /\ new \in Job /\ new.todo = job.todo \ {u} /\ new.toPublish = job.toPublish \cup {m}
       /\ new.made = made /\ new.status = "active" /\ new.targets = job.targets
       /\ new.stalls = job.stalls
  BY <1>6, <1>9, <1>11 DEF Job
<1>13. \A x \in new.toPublish : About(x)'
  BY <1>5, <1>6, <1>7, <1>12, AboutStays DEF About, JobSound
<1>14. JobSound(new)'
  <2>1. \A v \in Users : job.made[v] \in Nat /\ job.stalls \in Nat
    BY DEF Job
  <2> QED
    BY <1>6, <1>11, <1>12, <1>13, <2>1 DEF JobSound
<1>15. JobsSound'
  BY <1>1, <1>2, <1>3, <1>5, <1>6, <1>10, <1>12, <1>14, JobChanges DEF JobsSound
<1>16. Readable'
  BY <1>1, <1>2, <1>5, ReadableStays
<1> QED
  BY <1>3, <1>15, <1>16 DEF DeliveryIInv

LEMMA createUnreadableStep ==
  ASSUME DeliveryIInv, NEW j, NEW u \in Users, NEW n \in Ids, createUnreadable(j, u, n)
  PROVE  DeliveryIInv'
<1>1. IInv /\ JobsSound /\ Readable
  BY DEF DeliveryIInv
<1>2. UNCHANGED <<known, channel>> /\ unreadable' = unreadable \cup {n}
  BY DEF createUnreadable
<1>3. /\ IInv' /\ n \notin DOMAIN saved
      /\ DOMAIN saved' = DOMAIN saved \cup {n} /\ saved'[n] = u
      /\ \A k \in DOMAIN saved : saved'[k] = saved[k]
  BY <1>1, <1>2, insertStep DEF createUnreadable
<1>4. SavedStays
  BY <1>2, <1>3 DEF SavedStays
<1>5. PICK job \in Job : /\ job = jobs[j] /\ JobSound(job) /\ job.status = "active"
                         /\ j \in DOMAIN jobs /\ j \in Jobs /\ u \in job.todo
  BY <1>1, JobFacts DEF createUnreadable, insert, Active
<1>6. PICK made : made = [job.made EXCEPT ![u] = job.made[u] + 1]
  OBVIOUS
<1>7. PICK new : new = [job EXCEPT !.todo = {}, !.status = "failed", !.made = made]
  OBVIOUS
<1>8. Become(j, new)
  BY <1>5, <1>6, <1>7 DEF createUnreadable
<1>9. /\ made \in [Users -> Nat] /\ made[u] = job.made[u] + 1
      /\ \A v \in Users : v # u => made[v] = job.made[v]
  BY <1>6 DEF Job
<1>10. /\ new \in Job /\ new.todo = {} /\ new.toPublish = job.toPublish
       /\ new.made = made /\ new.status = "failed" /\ new.targets = job.targets
       /\ new.stalls = job.stalls
  BY <1>5, <1>7, <1>9 DEF Job
<1>11. \A x \in new.toPublish : About(x)'
  BY <1>4, <1>5, <1>10, AboutStays DEF JobSound
<1>12. JobSound(new)'
  <2>1. \A v \in Users : job.made[v] \in Nat /\ job.stalls \in Nat
    BY DEF Job
  <2> QED
    BY <1>5, <1>9, <1>10, <1>11, <2>1 DEF JobSound
<1>13. JobsSound'
  BY <1>1, <1>2, <1>3, <1>4, <1>5, <1>8, <1>10, <1>12, JobChanges DEF JobsSound
<1>14. Readable'
  BY <1>1, <1>2, <1>4, ReadableStays
<1> QED
  BY <1>3, <1>13, <1>14 DEF DeliveryIInv

LEMMA ActiveJob ==
  ASSUME JobsSound, NEW j, Active(j)
  PROVE  /\ jobs[j] \in Job /\ JobSound(jobs[j]) /\ jobs[j].status = "active"
         /\ j \in DOMAIN jobs /\ j \in Jobs
  BY JobFacts DEF Active

LEMMA createFailsStep ==
  ASSUME JobsSound, NEW j, NEW u, createFails(j, u)
  PROVE  JobsSound'
<1>1. PICK job \in Job : /\ job = jobs[j] /\ JobSound(job) /\ job.status = "active"
                         /\ j \in DOMAIN jobs /\ j \in Jobs
  BY ActiveJob DEF createFails
<1>2. channel' = channel /\ saved' = saved /\ unreadable' = unreadable
  BY DEF createFails, store
<1>3. PICK new \in Job :
        /\ Become(j, new) /\ new.todo \subseteq job.todo /\ new.status # "waiting"
        /\ new.targets = job.targets /\ new.toPublish = job.toPublish
        /\ new.made = job.made /\ new.stalls = job.stalls
  <2>1. CASE job.name = "bulk-notification"
    <3>1. PICK new : new = [job EXCEPT !.todo = job.todo \ {u}]
      OBVIOUS
    <3>2. Become(j, new)
      BY <1>1, <2>1, <3>1 DEF createFails
    <3>3. /\ new \in Job /\ new.todo = job.todo \ {u} /\ new.status = "active"
          /\ new.targets = job.targets /\ new.toPublish = job.toPublish
          /\ new.made = job.made /\ new.stalls = job.stalls
      BY <1>1, <3>1 DEF Job
    <3> QED
      BY <3>2, <3>3
  <2>2. CASE job.name # "bulk-notification"
    <3>1. PICK new : new = [job EXCEPT !.todo = {}, !.status = "failed"]
      OBVIOUS
    <3>2. Become(j, new)
      BY <1>1, <2>2, <3>1 DEF createFails
    <3>3. /\ new \in Job /\ new.todo = {} /\ new.status = "failed"
          /\ new.targets = job.targets /\ new.toPublish = job.toPublish
          /\ new.made = job.made /\ new.stalls = job.stalls
      BY <1>1, <3>1 DEF Job
    <3> QED
      BY <3>2, <3>3
  <2> QED
    BY <2>1, <2>2
<1>4. JobSound(new)'
  BY <1>1, <1>2, <1>3 DEF JobSound, About
<1> QED
  BY <1>1, <1>2, <1>3, <1>4, NothingSaved, JobChanges DEF JobsSound

LEMMA publishStep ==
  ASSUME JobsSound, NEW j, NEW m \in Message, publishNotificationEvent(j, m)
  PROVE  JobsSound'
<1>1. PICK job \in Job : /\ job = jobs[j] /\ JobSound(job) /\ job.status = "active"
                         /\ j \in DOMAIN jobs /\ j \in Jobs /\ m \in job.toPublish
  BY ActiveJob DEF publishNotificationEvent
<1>2. PICK new : new = [job EXCEPT !.toPublish = job.toPublish \ {m}]
  OBVIOUS
<1>3. Become(j, new) /\ channel' \subseteq channel \cup {m}
      /\ saved' = saved /\ unreadable' = unreadable
  BY <1>1, <1>2 DEF publishNotificationEvent, store
<1>4. /\ new \in Job /\ new.toPublish = job.toPublish \ {m} /\ new.status = "active"
      /\ new.targets = job.targets /\ new.todo = job.todo
      /\ new.made = job.made /\ new.stalls = job.stalls
  BY <1>1, <1>2 DEF Job
<1>5. About(m)'
  BY <1>1, <1>3 DEF JobSound, About
<1>6. JobSound(new)'
  BY <1>1, <1>3, <1>4 DEF JobSound, About
<1> QED
  BY <1>1, <1>3, <1>4, <1>5, <1>6, NothingSaved, JobChanges DEF JobsSound

LEMMA completeStep ==
  ASSUME JobsSound, NEW j, complete(j)
  PROVE  JobsSound'
<1>1. PICK job \in Job : /\ job = jobs[j] /\ JobSound(job) /\ job.status = "active"
                         /\ j \in DOMAIN jobs /\ j \in Jobs
  BY ActiveJob DEF complete
<1>2. PICK new : new = [job EXCEPT !.status = "completed"]
  OBVIOUS
<1>3. Become(j, new) /\ channel' = channel /\ saved' = saved /\ unreadable' = unreadable
  BY <1>1, <1>2 DEF complete, store
<1>4. /\ new \in Job /\ new.toPublish = job.toPublish /\ new.status = "completed"
      /\ new.targets = job.targets /\ new.todo = job.todo
      /\ new.made = job.made /\ new.stalls = job.stalls
  BY <1>1, <1>2 DEF Job
<1>5. JobSound(new)'
  BY <1>1, <1>3, <1>4 DEF JobSound, About
<1> QED
  BY <1>1, <1>3, <1>4, <1>5, NothingSaved, JobChanges DEF JobsSound

(* A job that waits again has been given away once more.                   *)
LEMMA stallStep ==
  ASSUME JobsSound, NEW j, stall(j)
  PROVE  JobsSound'
<1>1. PICK job \in Job : /\ job = jobs[j] /\ JobSound(job) /\ job.status = "active"
                         /\ j \in DOMAIN jobs /\ j \in Jobs
  BY ActiveJob DEF stall
<1>2. PICK status, stalls :
        /\ status = IF job.stalls < MaxStalled THEN "waiting" ELSE "failed"
        /\ stalls = IF job.stalls < MaxStalled THEN job.stalls + 1 ELSE job.stalls
  OBVIOUS
<1>3. PICK new : new = [job EXCEPT !.status = status, !.stalls = stalls, !.todo = {},
                                   !.toPublish = {}]
  OBVIOUS
<1>4. PICK s : s = [job EXCEPT !.status = status]
  OBVIOUS
<1>5. s.stalls = job.stalls
  BY <1>4 DEF Job
<1>6. Become(j, new) /\ channel' = channel /\ saved' = saved /\ unreadable' = unreadable
  BY <1>1, <1>2, <1>3, <1>4, <1>5 DEF stall, store
<1>7. job.stalls \in Nat /\ stalls \in Nat /\ status \in {"waiting", "failed"}
        /\ job.stalls <= stalls /\ (status = "waiting" => stalls = job.stalls + 1)
  BY <1>2 DEF Job
<1>8. /\ new \in Job /\ new.toPublish = {} /\ new.status = status /\ new.todo = {}
      /\ new.targets = job.targets /\ new.made = job.made /\ new.stalls = stalls
  BY <1>3, <1>7 DEF Job
<1>9. JobSound(new)'
  <2>1. \A v \in Users : job.made[v] \in Nat
    BY DEF Job
  <2> QED
    BY <1>1, <1>7, <1>8, <2>1 DEF JobSound
<1> QED
  BY <1>1, <1>6, <1>8, <1>9, NothingSaved, JobChanges DEF JobsSound

(* The steps that leave the store alone.                                   *)
LEMMA QueueStep ==
  ASSUME DeliveryIInv, UNCHANGED <<store, known, req, unreadable>>, JobsSound'
  PROVE  DeliveryIInv'
<1>1. IInv'
  BY DEF DeliveryIInv, store, IInv, TypeOK, Stored, Of, Owned, CopiesOwned, UpdatesKept, Current,
         Complete
<1> QED
  BY <1>1 DEF DeliveryIInv, Readable

LEMMA WorkerStep ==
  ASSUME DeliveryIInv, NEW j, Worker(j) \/ stall(j)
  PROVE  DeliveryIInv'
<1>1. JobsSound
  BY DEF DeliveryIInv
<1>2. ASSUME NEW u \in Users, NEW n \in Ids, create(j, u, n) \/ createUnreadable(j, u, n)
      PROVE  DeliveryIInv'
  BY <1>2, createStep, createUnreadableStep
<1>3. ASSUME NEW found \in BOOLEAN, process(j, found)
      PROVE  DeliveryIInv'
  BY <1>1, <1>3, processStep, QueueStep DEF process
<1>4. ASSUME NEW u \in Users, createFails(j, u)
      PROVE  DeliveryIInv'
  BY <1>1, <1>4, createFailsStep, QueueStep DEF createFails
<1>5. ASSUME NEW m \in Message, publishNotificationEvent(j, m)
      PROVE  DeliveryIInv'
  BY <1>1, <1>5, publishStep, QueueStep DEF publishNotificationEvent
<1>6. CASE complete(j)
  BY <1>1, <1>6, completeStep, QueueStep DEF complete
<1>7. CASE stall(j)
  BY <1>1, <1>7, stallStep, QueueStep DEF stall
<1> QED
  BY <1>2, <1>3, <1>4, <1>5, <1>6, <1>7 DEF Worker

(* The requests of the store beside the queue.                             *)
LEMMA StoreStep ==
  ASSUME JobsSound, IInv', SavedStays, Readable', UNCHANGED queueVars
  PROVE  DeliveryIInv'
  BY JobsStay DEF JobsSound, queueVars, DeliveryIInv

LEMMA StatementsKeepSaved ==
  ASSUME IInv, NEW q \in Requests, Statement(q), UNCHANGED unreadable
  PROVE  SavedStays
<1>1. CASE save(q)
  <2>1. PICK n, u : n = req[q].id /\ u = req[q].entity.userId /\ saved' = With(saved, n, u)
    BY <1>1 DEF save
  <2>2. n \in DOMAIN saved => saved[n] = u
    BY <1>1, <2>1 DEF save, IInv, CopiesOwned
  <2> QED
    BY <2>1, <2>2 DEF SavedStays, With
<1>2. CASE ~save(q)
  <2>1. saved' = saved
    BY <1>2 DEF Statement, delete, updateMany, deleteMany, fail, Remove, store
  <2> QED
    BY <2>1, NothingSaved
<1> QED
  BY <1>1, <1>2

(* The gateway pushes to a user what the message says is theirs.           *)
LEMMA onMessageStep ==
  ASSUME DeliveryIInv, NEW m \in Message, onMessage(m)
  PROVE  DeliveryIInv'
<1>1. /\ IInv /\ JobsSound /\ Readable
      /\ UNCHANGED <<notifications, saved, asked, req, jobs, online, unreadable>>
  BY DEF onMessage, store, DeliveryIInv
<1>2. /\ m.user \in Users /\ m.id \in Ids /\ m.id \in DOMAIN saved \ unreadable
      /\ saved[m.id] = m.user
  BY <1>1 DEF onMessage, JobsSound, About, Message
<1>3. /\ known' \in [Users -> SUBSET Ids]
      /\ \A u \in Users : \A n \in known'[u] : n \in known[u] \/ (n = m.id /\ u = m.user)
  <2>1. known' = notifyUser(m) /\ known \in [Users -> SUBSET Ids]
    BY <1>1 DEF onMessage, IInv, TypeOK
  <2> QED
    BY <1>2, <2>1 DEF notifyUser
<1>4. TypeOK'
  BY <1>1, <1>3 DEF IInv, TypeOK
<1>5. Owned'
  BY <1>1, <1>2, <1>3 DEF IInv, Owned, Stored
<1>6. IsFiniteSet(Stored)' /\ CopiesOwned' /\ UpdatesKept'
  BY <1>1 DEF IInv, Stored, CopiesOwned, UpdatesKept
<1>7. \A p \in Requests : Current(req[p])' /\ Complete(req[p])'
  BY <1>1 DEF IInv, Current, Complete, Of, Stored
<1>8. JobsSound'
  BY <1>1, NothingSaved, JobsStay DEF onMessage, JobsSound
<1>9. Readable'
  BY <1>1, <1>2, <1>3 DEF Readable
<1> QED
  BY <1>4, <1>5, <1>6, <1>7, <1>8, <1>9 DEF IInv, DeliveryIInv

LEMMA DeliveryInitIInv == DeliveryInit => DeliveryIInv
<1> SUFFICES ASSUME DeliveryInit PROVE DeliveryIInv
  OBVIOUS
<1>1. DOMAIN jobs = {} /\ IsMap(jobs, Jobs, Job)
  BY DEF DeliveryInit, IsMap
<1> QED
  BY <1>1, InitIInv DEF DeliveryInit, DeliveryIInv, JobsSound, Readable

LEMMA DeliveryNextIInv == DeliveryIInv /\ [DeliveryNext]_deliveryVars => DeliveryIInv'
<1> SUFFICES ASSUME DeliveryIInv, [DeliveryNext]_deliveryVars PROVE DeliveryIInv'
  OBVIOUS
<1>1. IInv /\ JobsSound /\ Readable
  BY DEF DeliveryIInv
<1>2. ASSUME NEW q \in Requests, NEW u \in Users, handleAck(q, u)
      PROVE  DeliveryIInv'
  <2>1. PICK n \in known[u] : markAsRead(q, n, u) /\ UNCHANGED queueVars
    BY <1>2 DEF handleAck
  <2>2. SavedStays /\ UNCHANGED known
    BY <2>1, NothingSaved DEF markAsRead, Save, store, queueVars
  <2> QED
    BY <1>1, <2>1, <2>2, markAsReadStep, ReadableStays, StoreStep
<1>3. ASSUME NEW u \in Users, handleGetNotifications(u)
      PROVE  DeliveryIInv'
  <2>1. /\ getLatestNotifications(u, "recently", BatchLimit)
        /\ known'[u] \cap unreadable = {} /\ UNCHANGED queueVars
    BY <1>3 DEF handleGetNotifications
  <2>2. SavedStays
    BY <2>1, NothingSaved DEF getLatestNotifications, Shown, store, queueVars
  <2>3. IInv'
    BY <1>1, <2>1, ReadsStep
  <2>4. \A v \in Users : v # u => known'[v] = known[v]
    BY <1>1, <2>1 DEF getLatestNotifications, Shown, IInv, TypeOK
  <2>5. Readable'
    BY <1>1, <2>1, <2>4 DEF Readable, queueVars
  <2> QED
    BY <1>1, <2>1, <2>2, <2>3, <2>5, StoreStep
<1>4. ASSUME NEW q \in Requests, NEW u \in Users, NEW n \in known[u],
             deleteNotification(q, n, u), UNCHANGED queueVars
      PROVE  DeliveryIInv'
  <2>1. SavedStays /\ UNCHANGED known
    BY <1>4, NothingSaved DEF deleteNotification, store, queueVars
  <2> QED
    BY <1>1, <1>4, <2>1, deleteNotificationStep, ReadableStays, StoreStep
<1>5. ASSUME NEW q \in Requests, Statement(q), UNCHANGED queueVars
      PROVE  DeliveryIInv'
  <2>1. SavedStays
    BY <1>1, <1>5, StatementsKeepSaved DEF queueVars
  <2>2. UNCHANGED known
    BY <1>5 DEF Statement, save, delete, updateMany, deleteMany, fail
  <2> QED
    BY <1>1, <1>5, <2>1, <2>2, StatementStep, ReadableStays, StoreStep
<1>6. ASSUME NEW j \in Jobs, NEW name \in Names, NEW U \in SUBSET Users, Add(j, name, U)
      PROVE  DeliveryIInv'
  BY <1>1, <1>6, AddStep, QueueStep DEF Add
<1>7. ASSUME NEW j \in Jobs, NEW u \in Users, createReactionNotification(j, u)
      PROVE  DeliveryIInv'
  BY <1>6, <1>7, NamesAssumption DEF createReactionNotification
<1>8. ASSUME NEW j \in Jobs, Worker(j) \/ stall(j)
      PROVE  DeliveryIInv'
  BY <1>8, WorkerStep
<1>9. ASSUME UNCHANGED <<store, known, req, jobs, unreadable>>, channel' \subseteq channel
      PROVE  DeliveryIInv'
  <2>1. JobsSound'
    BY <1>1, <1>9, NothingSaved, JobsStay DEF store, JobsSound
  <2> QED
    BY <1>9, <2>1, QueueStep
<1>10. ASSUME NEW u \in Users, handleConnection(u) \/ handleDisconnect(u)
       PROVE  DeliveryIInv'
  BY <1>9, <1>10 DEF handleConnection, handleDisconnect
<1>11. ASSUME NEW m \in Message, onMessage(m)
       PROVE  DeliveryIInv'
  BY <1>11, onMessageStep
<1>12. ASSUME NEW m \in Message, lose(m)
       PROVE  DeliveryIInv'
  BY <1>9, <1>12 DEF lose
<1>13. CASE UNCHANGED deliveryVars
  BY <1>9, <1>13 DEF deliveryVars, vars, queueVars
<1> QED
  BY <1>2, <1>3, <1>4, <1>5, <1>6, <1>7, <1>8, <1>10, <1>11, <1>12, <1>13
     DEF DeliveryNext, addExternal

LEMMA DeliverySpecIInv == DeliverySpec => []DeliveryIInv
  BY DeliveryInitIInv, DeliveryNextIInv, PTL DEF DeliverySpec

(* Workers may die over a job at any moment and the job starts from the    *)
(* beginning elsewhere: still each target gets at most one row more than   *)
(* there were such restarts, and nobody else gets any.                     *)
THEOREM RestartsBoundRows == DeliverySpec => []RowsPerJob
<1>1. JobsSound => RowsPerJob
  BY DEF JobsSound, JobSound, RowsPerJob
<1> QED
  BY <1>1, DeliverySpecIInv, PTL DEF DeliveryIInv

(* No push and no list ever shows a user the notification of another, and  *)
(* every id pushed is of a row that was stored before and can be loaded.   *)
THEOREM PushesAreStoredAndOwn == DeliverySpec => []PushedIsStored
<1>1. DeliveryIInv => PushedIsStored
  BY DEF DeliveryIInv, IInv, Owned, Readable, JobsSound, About, PushedIsStored
<1> QED
  BY <1>1, DeliverySpecIInv, PTL
=============================================================================
