---------------------------- MODULE HttpPipeline ---------------------------
(***************************************************************************)
(* What stands around the handlers: CORS, the rate limiter, the guards and *)
(* the filters that turn an error into an answer and report it.  A request *)
(* is known by its client, by the route that limits it, and by the kind of *)
(* handler it goes to.  Left out: headers and cookies that are only set,   *)
(* logs, and the bodies of answers.  No handler carries a decorator of the *)
(* cache: its interceptor, which Cache models, passes every request on.    *)
(***************************************************************************)
EXTENDS Maps, Integers, FiniteSets

CONSTANTS Clients, Requests,
          LimitOf,       \* limited route -> [windowMs, max]
          CleanupEvery,  \* ticks between two sweeps of the store
          MaxTime,       \* bound: ticks
          MaxErrors      \* bound: answers with a status of 500 or more

VARIABLES
  now,
  store,        \* key -> [count, resetTime]
  lastCleanup,
  req,          \* request -> where it is
  passed,       \* history: key -> the <<tick, n>> of requests passed, a window back
  errors,       \* history: answers of 500 or more, those of an upload left out
  reports       \* history: reports of such answers

limiter == <<now, store, lastCleanup, passed>>
counts == <<errors, reports>>
vars == <<limiter, req, counts>>

Keys == Clients \X DOMAIN LimitOf

(* Handlers: without guards or marked SkipGuards, with JwtAuthGuard, with  *)
(* RolesGuard too, and the upload of media, with JwtAuthGuard.             *)
Handlers == {"open", "guarded", "admin", "upload"}

Idle == [pc |-> "idle"]

-----------------------------------------------------------------------------
(* The exceptions, by what the filter can tell of them.                    *)
DomainStatus ==
  [BusinessRule |-> 400, NotFound |-> 404, AlreadyExists |-> 409, Validation |-> 422,
   Unauthorized |-> 401, Forbidden |-> 403, ExternalService |-> 502, Database |-> 500,
   RateLimit |-> 429, Configuration |-> 500, FileOperation |-> 400]

(* high: HIGH or CRITICAL.                                                 *)
DomainSeverity(name) ==
  IF name \in {"Database", "ExternalService", "Configuration"} THEN "high" ELSE "lower"

PrismaStatus == [P2002 |-> 409, P2025 |-> 404, P2003 |-> 400, P2014 |-> 400, other |-> 500]

MulterStatus == [LIMIT_FILE_SIZE |-> 413, LIMIT_UNEXPECTED_FILE |-> 400, other |-> 400]

Exceptions ==
  [kind : {"domain"}, code : DOMAIN DomainStatus]
    \cup [kind : {"http"}, code : {400, 401, 403, 500}]
    \cup [kind : {"prisma"}, code : DOMAIN PrismaStatus]
    \cup [kind : {"multer"}, code : DOMAIN MulterStatus]
    \cup [kind : {"jwt", "unknown"}, code : {0}]

handleDomainException(e) ==
  [status |-> DomainStatus[e.code], report |-> DomainSeverity(e.code) = "high"]
handleHttpException(e) == [status |-> e.code, report |-> e.code >= 500]
handleMulterError(e) == [status |-> MulterStatus[e.code], report |-> FALSE]
handlePrismaError(e) == [status |-> PrismaStatus[e.code], report |-> TRUE]
handleJwtError(e) == [status |-> 401, report |-> FALSE]
handleUnknownError(e) == [status |-> 500, report |-> TRUE]

(* Mutant: an error nobody expected is not worth a report.                 *)
BuildUnreported(e) ==
  CASE e.kind = "domain" -> handleDomainException(e)
    [] e.kind = "http" -> handleHttpException(e)
    [] e.kind = "multer" -> handleMulterError(e)
    [] e.kind = "prisma" -> handlePrismaError(e)
    [] e.kind = "jwt" -> handleJwtError(e)
    [] OTHER -> [handleUnknownError(e) EXCEPT !.report = FALSE]

buildErrorInfo(e) ==
  CASE e.kind = "domain" -> handleDomainException(e)
    [] e.kind = "http" -> handleHttpException(e)
    [] e.kind = "multer" -> handleMulterError(e)
    [] e.kind = "prisma" -> handlePrismaError(e)
    [] e.kind = "jwt" -> handleJwtError(e)
    [] OTHER -> handleUnknownError(e)

(* The filter of the upload handler, which sees an error first, those of   *)
(* the guards too: each has a message, so that none is rethrown.           *)
MulterExceptionFilter(e) ==
  [status |-> IF e = [kind |-> "multer", code |-> "LIMIT_FILE_SIZE"] THEN 413 ELSE 400,
   report |-> FALSE]

IsRequest(r) ==
  \/ r = Idle
  \/ r.pc \in {"guards", "handler"} /\ r.handler \in Handlers
  \/ r.pc = "report" /\ r.failed \in BOOLEAN

(* Every value has its type.                                               *)
TypeOK ==
  /\ now \in 1..MaxTime /\ lastCleanup \in 0..now
  /\ DOMAIN store \in SUBSET Keys
  /\ \A k \in DOMAIN store :
       /\ store[k].count \in 1..(LimitOf[k[2]].max + 1)
       /\ store[k].resetTime \in 1..(now + LimitOf[k[2]].windowMs)
  /\ DOMAIN req = Requests /\ \A q \in Requests : IsRequest(req[q])
  /\ \A k \in Keys : passed[k] \subseteq (1..MaxTime) \X (Nat \ {0})
  /\ errors \in 0..MaxErrors /\ reports \in 0..MaxErrors

-----------------------------------------------------------------------------
(* The middlewares, in the order of AppModule.  OPTIONS is answered by     *)
(* CorsMiddleware, before anything is counted.                             *)
Arrive(q, handler) ==
  /\ req[q] = Idle
  /\ req' = [req EXCEPT ![q] = [pc |-> "guards", handler |-> handler]]
  /\ UNCHANGED counts

cleanupDue == lastCleanup = 0 \/ now - lastCleanup > CleanupEvery

(* Mutant: the sweep removes the windows that are still open, too.         *)
SweepAll == IF cleanupDue THEN Without(store, DOMAIN store) ELSE store

cleanupExpiredEntries ==
  IF cleanupDue THEN Without(store, {k \in DOMAIN store : now > store[k].resetTime})
                ELSE store

(* Of a route that has limits; what has none is passed unlimited.          *)
getRateLimits(route) == LimitOf[route]

(* The entry after the request is counted.  Counts over the limit are not  *)
(* told apart.                                                             *)
Counted(k) ==
  LET swept == cleanupExpiredEntries
      limit == getRateLimits(k[2])
  IN IF k \in DOMAIN swept /\ now <= swept[k].resetTime
       THEN [count |-> IF swept[k].count > limit.max THEN swept[k].count
                                                      ELSE swept[k].count + 1,
             resetTime |-> swept[k].resetTime]
       ELSE [count |-> 1, resetTime |-> now + limit.windowMs]

RateLimit(k) ==
  /\ store' = With(cleanupExpiredEntries, k, Counted(k))
  /\ lastCleanup' = IF cleanupDue THEN now ELSE lastCleanup
  /\ UNCHANGED now

Lately(k) == {p \in passed[k] : now - p[1] <= LimitOf[k[2]].windowMs}

(* The next to pass in this tick.                                          *)
Passing(k) == <<now, Cardinality({p \in passed[k] : p[1] = now}) + 1>>

(* use: 429, or on to the next.                                            *)
refuse(k) ==
  /\ Counted(k).count > getRateLimits(k[2]).max
  /\ RateLimit(k)
  /\ UNCHANGED <<passed, req, counts>>

pass(q, k, handler) ==
  /\ Counted(k).count <= getRateLimits(k[2]).max
  /\ RateLimit(k)
  /\ passed' = [passed EXCEPT ![k] = Lately(k) \cup {Passing(k)}]
  /\ Arrive(q, handler)

passUnlimited(q, handler) == Arrive(q, handler) /\ UNCHANGED limiter

(* Time passes; a restart forgets what was counted, and the requests.      *)
Tick ==
  /\ now < MaxTime
  /\ now' = now + 1
  /\ UNCHANGED <<store, lastCleanup, passed, req, counts>>

restart ==
  /\ store' = Without(store, DOMAIN store) /\ lastCleanup' = 0
  /\ passed' = [k \in Keys |-> {}]
  /\ req' = [q \in Requests |-> Idle]
  /\ errors' = 0 /\ reports' = 0
  /\ UNCHANGED now

-----------------------------------------------------------------------------
(* An exception answers the request, by the filter its handler has, and    *)
(* what is to be reported is, after the answer and without waiting.        *)
catch(q, e) ==
  LET upload == req[q].handler = "upload"
      info == IF upload THEN MulterExceptionFilter(e) ELSE buildErrorInfo(e)
      failed == info.status >= 500
  IN /\ errors < MaxErrors
     /\ errors' = IF failed THEN errors + 1 ELSE errors
     /\ req' = [req EXCEPT ![q] = IF info.report THEN [pc |-> "report", failed |-> failed]
                                                 ELSE Idle]
     /\ UNCHANGED <<limiter, reports>>

(* Without a token in the header, or in the cookie of a web client, or     *)
(* with one that does not verify, JwtAuthGuard throws; a role that is not  *)
(* the user's is forbidden.                                                *)
JwtAuthGuard(handler) == IF handler = "open" THEN {} ELSE {401}
RolesGuard(handler) == IF handler = "admin" THEN {403} ELSE {}

canActivate(q) ==
  /\ req[q].pc = "guards"
  /\ \/ /\ req' = [req EXCEPT ![q].pc = "handler"]
        /\ UNCHANGED <<limiter, counts>>
     \/ \E status \in JwtAuthGuard(req[q].handler) \cup RolesGuard(req[q].handler) :
          catch(q, [kind |-> "http", code |-> status])

(* The handler, behind the pipe that validates its parameters.             *)
handle(q) ==
  /\ req[q].pc = "handler"
  /\ \/ /\ req' = [req EXCEPT ![q] = Idle]
        /\ UNCHANGED <<limiter, counts>>
     \/ \E e \in Exceptions : catch(q, e)

(* reportError: the destinations are placeholders, and no error leaves it. *)
reportError(q) ==
  /\ req[q].pc = "report"
  /\ reports' = IF req[q].failed THEN reports + 1 ELSE reports
  /\ req' = [req EXCEPT ![q] = Idle]
  /\ UNCHANGED <<limiter, errors>>

-----------------------------------------------------------------------------
Init ==
  /\ now = 1 /\ lastCleanup = 0
  /\ store = [k \in {} |-> k]
  /\ req = [q \in Requests |-> Idle]
  /\ passed = [k \in Keys |-> {}]
  /\ errors = 0 /\ reports = 0

Next ==
  \/ \E k \in Keys :
       refuse(k) \/ \E q \in Requests, h \in Handlers : pass(q, k, h)
  \/ \E q \in Requests :
       \/ \E h \in Handlers : passUnlimited(q, h)
       \/ canActivate(q) \/ handle(q) \/ reportError(q)
  \/ Tick \/ restart

Spec == Init /\ [][Next]_vars

-----------------------------------------------------------------------------
(* The limiter counts in windows that open with a request, and sweeps its  *)
(* store now and then.  All the same, no period as long as a window sees   *)
(* more than twice the allowed requests of a client pass, the end of one   *)
(* window and the start of the next.                                       *)
AtMostTwice ==
  \A k \in Keys : Cardinality(passed[k]) <= 2 * LimitOf[k[2]].max

(* Whatever an answer of 500 or more came from, a guard, a handler or the  *)
(* database, it has been reported or is being reported.                    *)
FailuresReported ==
  errors = reports + Cardinality({q \in Requests : req[q].pc = "report" /\ req[q].failed})
=============================================================================
