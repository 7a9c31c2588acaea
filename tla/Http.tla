-------------------------------- MODULE Http --------------------------------
(***************************************************************************)
(* What HTTP requests share before and behind their handlers: the pipeline *)
(* and the cache.  As no handler of the code carries a decorator of the    *)
(* cache, a request is either one that the pipeline alone sees, or one     *)
(* that uses the cache.                                                    *)
(***************************************************************************)
EXTENDS Integers

CONSTANTS Clients, InFlight, LimitOf, CleanupEvery, MaxTime, MaxErrors,
          CachedUsers, TTL, MaxHandler, MaxVersion, MaxClock

VARIABLES
  now, store, lastCleanup, req, passed, errors, reports,
  clock, data, until, cache, tags, caching

H == INSTANCE HttpPipeline WITH Requests <- InFlight
C == INSTANCE Cache WITH Users <- CachedUsers, Requests <- InFlight,
                         now <- clock, req <- caching, MaxTime <- MaxClock

(* Of a route's limit: its window, and how many requests it lets pass.     *)
ASSUME LimitsAssumption ==
  \A route \in DOMAIN LimitOf : LimitOf[route].windowMs \in Nat /\ LimitOf[route].max \in Nat

(* For how long an entry is kept, and a value is held before it is stored. *)
ASSUME TimesAssumption == TTL \in Nat /\ MaxHandler \in Nat

ofPipeline == <<now, store, lastCleanup, req, passed, errors, reports>>
ofCache == <<clock, data, until, cache, tags, caching>>

ofHttp == <<ofPipeline, ofCache>>

HttpInit == H!Init /\ C!Init

OfPipeline == H!Next /\ UNCHANGED ofCache

OfCache == C!Next /\ UNCHANGED ofPipeline

HttpNext == OfPipeline \/ OfCache

HttpSpec == HttpInit /\ [][HttpNext]_ofHttp

(* Every value has its type.                                               *)
TypeOK == H!TypeOK /\ C!TypeOK

-----------------------------------------------------------------------------
(* The limiter counts in windows that open with a request, and sweeps its  *)
(* store now and then.  All the same, no period as long as a window sees   *)
(* more than twice the allowed requests of a client pass, the end of one   *)
(* window and the start of the next.                                       *)
AtMostTwice == H!AtMostTwice

(* Whatever an answer of 500 or more came from, it was or will be reported *)
(* once: the only failures nobody hears of are those of an upload, and the *)
(* filter of the upload answers them with less than 500.                   *)
FailuresReported == H!FailuresReported

(* Whatever order reads, changes, stores and evictions take, what the      *)
(* cache holds was current when the time to live and the time a handler    *)
(* takes have not passed since.                                            *)
CachedFresh == C!CachedFresh
=============================================================================
