------------------------ MODULE NotificationDelivery ------------------------
(***************************************************************************)
(* How a notification reaches its user: a producer adds a job to the       *)
(* notification queue; NotificationProcessor, in the server or in the      *)
(* worker process, stores a row per target and publishes it on the Redis   *)
(* channel; NotificationGateway emits what it hears to the sockets in the  *)
(* room of the target.  The table is that of Notifications; of its use     *)
(* cases those the gateway's clients ask for run here, and the deletion of *)
(* a notification.                                                         *)
(*                                                                         *)
(* Jobs with the names the processor knows come from producers outside the *)
(* repository; the one in it, of the reactions module, uses another name.  *)
(* Bulk jobs work in batches of 50, here all targets of a job are one, and *)
(* no job names a user twice.                                              *)
(***************************************************************************)
EXTENDS Notifications

CONSTANTS Jobs,      \* ids of jobs
          Names,     \* names jobs are added with
          MaxStalled \* how often the queue gives a stalled job to a worker again

(* The name of the jobs the repository adds itself is one of them.         *)
ASSUME NamesAssumption ==
  /\ "create-notify" \in Names
  /\ Names \subseteq {"create-notify", "create-notification", "reaction-notification",
                      "follow-notification", "comment-notification",
                      "message-notification", "bulk-notification"}

VARIABLES
  jobs,    \* id -> job in the queue
  channel, \* messages published and not heard yet
  online,  \* users with an authenticated socket, which is in their room
  unreadable \* ids of rows the entity refuses to be made of

queueVars == <<jobs, channel, online, unreadable>>
deliveryVars == <<vars, queueVars>>

Message == [user : Users, id : Ids]

(* todo: the targets still to be stored for; toPublish: rows stored whose  *)
(* message is not published.  History: stalls, and the rows made per user. *)
Job == [name : Names, targets : SUBSET Users,
        status : {"waiting", "active", "completed", "failed"},
        todo : SUBSET Users, toPublish : SUBSET Message, skipped : BOOLEAN,
        stalls : Nat, made : [Users -> Nat]]

DeliveryTypeOK ==
  /\ TypeOK
  /\ IsMap(jobs, Jobs, Job)
  /\ channel \subseteq Message
  /\ online \subseteq Users
  /\ unreadable \subseteq DOMAIN saved

-----------------------------------------------------------------------------
(* Producers.                                                              *)
(* Names of jobs about somebody who acted, whose account is looked up:     *)
(* without it the job does nothing.                                        *)
ByActor == {"reaction-notification", "follow-notification",
            "comment-notification", "message-notification"}

Add(j, name, U) ==
  /\ j \notin DOMAIN jobs
  /\ jobs' = With(jobs, j, [name |-> name, targets |-> U, status |-> "waiting",
                            todo |-> {}, toPublish |-> {}, skipped |-> FALSE,
                            stalls |-> 0, made |-> [u \in Users |-> 0]])
  /\ UNCHANGED <<store, known, req, channel, online, unreadable>>

createReactionNotification(j, u) == Add(j, "create-notify", {u})

(* A job that lacks what it needs is for nobody.                           *)
addExternal(j, name, U) ==
  /\ name # "create-notify"
  /\ name = "create-notification" => Cardinality(U) <= 1
  /\ name \in ByActor => Cardinality(U) = 1
  /\ Add(j, name, U)

-----------------------------------------------------------------------------
(* The processor.                                                          *)
Active(j) == j \in DOMAIN jobs /\ jobs[j].status = "active"

Become(j, job) == jobs' = [jobs EXCEPT ![j] = job]

(* A job of an unknown name, and one for nobody, is done at once.          *)
process(j, actorFound) ==
  /\ j \in DOMAIN jobs /\ jobs[j].status = "waiting"
  /\ LET name == jobs[j].name
         acts == CASE name \in ByActor -> actorFound
                   [] name \in {"create-notification", "bulk-notification"} -> TRUE
                   [] OTHER -> FALSE
     IN Become(j, [jobs[j] EXCEPT !.status = "active",
                                  !.todo = IF acts THEN jobs[j].targets ELSE {},
                                  !.skipped = name \in ByActor /\ ~actorFound])
  /\ UNCHANGED <<store, known, req, channel, online, unreadable>>

(* Mutant: the message is published before the row is stored.              *)
PublishFirst(j, u, n) ==
  /\ Active(j) /\ u \in jobs[j].todo
  /\ NewId(n)
  /\ Become(j, [jobs[j] EXCEPT !.todo = @ \ {u},
                               !.toPublish = @ \cup {[user |-> u, id |-> n]},
                               !.made[u] = @ + 1])
  /\ UNCHANGED <<store, known, req, channel, online, unreadable>>

(* createNotification, up to the row.                                      *)
insert(j, u, n) ==
  /\ Active(j) /\ u \in jobs[j].todo
  /\ NewId(n)
  /\ \E text \in Texts : Insert(n, NewRow(u, text))
  /\ req' = [q \in Requests |-> Outdated(req[q], {n}, {u})]

create(j, u, n) ==
  /\ insert(j, u, n)
  /\ Become(j, [jobs[j] EXCEPT !.todo = @ \ {u},
                               !.toPublish = @ \cup {[user |-> u, id |-> n]},
                               !.made[u] = @ + 1])
  /\ UNCHANGED <<known, channel, online, unreadable>>

(* Jobs of two names bring the type of what the notification is about, and *)
(* nobody looks at it before it is stored.  The entity made of the row has *)
(* none of a type it does not know, and throws: the row stays, the job has *)
(* failed.                                                                 *)
createUnreadable(j, u, n) ==
  /\ insert(j, u, n)
  /\ jobs[j].name \in {"reaction-notification", "comment-notification"}
  /\ Become(j, [jobs[j] EXCEPT !.todo = {}, !.status = "failed", !.made[u] = @ + 1])
  /\ unreadable' = unreadable \cup {n}
  /\ UNCHANGED <<known, channel, online>>

(* The row is refused, or the database gone: a bulk job goes on without    *)
(* this target, any other has failed, and is not tried again.              *)
createFails(j, u) ==
  /\ Active(j) /\ u \in jobs[j].todo
  /\ Become(j, IF jobs[j].name = "bulk-notification"
                 THEN [jobs[j] EXCEPT !.todo = @ \ {u}]
                 ELSE [jobs[j] EXCEPT !.todo = {}, !.status = "failed"])
  /\ UNCHANGED <<store, known, req, channel, online, unreadable>>

(* An error of publish is only logged.                                     *)
publishNotificationEvent(j, m) ==
  /\ Active(j) /\ m \in jobs[j].toPublish
  /\ Become(j, [jobs[j] EXCEPT !.toPublish = @ \ {m}])
  /\ channel' \in {channel, channel \cup {m}}
  /\ UNCHANGED <<store, known, req, online, unreadable>>

complete(j) ==
  /\ Active(j) /\ jobs[j].todo = {} /\ jobs[j].toPublish = {}
  /\ Become(j, [jobs[j] EXCEPT !.status = "completed"])
  /\ UNCHANGED <<store, known, req, channel, online, unreadable>>

(* Mutant: a stalled job is tried again for ever.                          *)
StallAgain(j) ==
  /\ Active(j)
  /\ Become(j, [jobs[j] EXCEPT !.status = "waiting", !.todo = {}, !.toPublish = {}])
  /\ UNCHANGED <<store, known, req, channel, online, unreadable>>

(* The worker dies over a job: the queue gives the job to another, from    *)
(* the start, unless it did so before.                                     *)
stall(j) ==
  /\ Active(j)
  /\ Become(j, [jobs[j] EXCEPT
                  !.status = IF jobs[j].stalls < MaxStalled THEN "waiting" ELSE "failed",
                  !.stalls = IF @ < MaxStalled THEN @ + 1 ELSE @,
                  !.todo = {}, !.toPublish = {}])
  /\ UNCHANGED <<store, known, req, channel, online, unreadable>>

-----------------------------------------------------------------------------
(* The gateway.  Sockets with a valid token join the room of their user;   *)
(* the others are in no room and hear nothing.                             *)
handleConnection(u) ==
  /\ online' = online \cup {u}
  /\ UNCHANGED <<store, known, req, jobs, channel, unreadable>>

handleDisconnect(u) ==
  /\ online' = online \ {u}
  /\ UNCHANGED <<store, known, req, jobs, channel, unreadable>>

notifyUser(m) ==
  [u \in Users |-> IF u \in online /\ u = m.user THEN known[u] \cup {m.id} ELSE known[u]]

(* A message is heard once, if anybody is subscribed.                      *)
onMessage(m) ==
  /\ m \in channel
  /\ channel' = channel \ {m}
  /\ known' = notifyUser(m)
  /\ UNCHANGED <<store, req, jobs, online, unreadable>>

lose(m) ==
  /\ m \in channel
  /\ channel' = channel \ {m}
  /\ UNCHANGED <<store, known, req, jobs, online, unreadable>>

(* What clients ask the gateway for.                                       *)
handleAck(q, u) ==
  \E n \in known[u] : markAsRead(q, n, u) /\ UNCHANGED queueVars

(* A row no entity can be made of fails the list it is in.                 *)
handleGetNotifications(u) ==
  /\ getLatestNotifications(u, "recently", BatchLimit)
  /\ known'[u] \cap unreadable = {}
  /\ UNCHANGED queueVars

-----------------------------------------------------------------------------
DeliveryInit ==
  /\ Init
  /\ jobs = [j \in {} |-> j]
  /\ channel = {}
  /\ online = {}
  /\ unreadable = {}

Worker(j) ==
  \/ \E found \in BOOLEAN : process(j, found)
  \/ \E u \in Users, n \in Ids : create(j, u, n) \/ createUnreadable(j, u, n)
  \/ \E u \in Users : createFails(j, u)
  \/ \E m \in Message : publishNotificationEvent(j, m)
  \/ complete(j)

DeliveryNext ==
  \/ \E q \in Requests, u \in Users : handleAck(q, u)
  \/ \E u \in Users : handleGetNotifications(u)
  \/ \E q \in Requests, u \in Users : \E n \in known[u] :
       deleteNotification(q, n, u) /\ UNCHANGED queueVars
  \/ \E q \in Requests : Statement(q) /\ UNCHANGED queueVars
  \/ \E j \in Jobs, u \in Users : createReactionNotification(j, u)
  \/ \E j \in Jobs, name \in Names, U \in SUBSET Users : addExternal(j, name, U)
  \/ \E j \in Jobs : Worker(j) \/ stall(j)
  \/ \E u \in Users : handleConnection(u) \/ handleDisconnect(u)
  \/ \E m \in Message : onMessage(m) \/ lose(m)

DeliverySpec == DeliveryInit /\ [][DeliveryNext]_deliveryVars

(* Some worker is running and takes the jobs there are.                    *)
FairDeliverySpec == DeliverySpec /\ \A j \in Jobs : WF_deliveryVars(Worker(j))

-----------------------------------------------------------------------------
(* A job stores a row for a target once, and once more for each time it    *)
(* was given to another worker.                                            *)
RowsPerJob ==
  \A j \in DOMAIN jobs, u \in Users :
    jobs[j].made[u] <= (IF u \in jobs[j].targets THEN 1 + jobs[j].stalls ELSE 0)

(* What a user has been shown or is about to be pushed was stored, and for *)
(* that user: a client can ask for it, which an entity can be made of, or  *)
(* it has been deleted since.                                              *)
PushedIsStored ==
  /\ \A m \in channel : m.id \in DOMAIN saved \ unreadable /\ saved[m.id] = m.user
  /\ \A u \in Users : \A n \in known[u] : n \in DOMAIN saved \ unreadable /\ saved[n] = u

(* Every job is done or has failed in the end.                             *)
JobsEnd ==
  \A j \in Jobs :
    j \in DOMAIN jobs ~> j \in DOMAIN jobs /\ jobs[j].status \in {"completed", "failed"}

(* Claimed by CreateReactionUseCase, "Send notification if it's a new      *)
(* reaction": when the job it adds is done, the user has a notification.   *)
ReactionNotified ==
  \A j \in DOMAIN jobs :
    jobs[j].name = "create-notify" /\ jobs[j].status = "completed"
      => \A u \in jobs[j].targets : jobs[j].made[u] >= 1
=============================================================================
