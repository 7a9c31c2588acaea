------------------------------- MODULE Cache -------------------------------
(***************************************************************************)
(* The cache in front of the database, and what the interceptor does for a *)
(* handler that carries one of its decorators.  Values are versions of     *)
(* what the database holds of a user; between its read and the store of    *)
(* what it read a request may be overtaken by any other.  Left out: the    *)
(* compression of values, the counts of hits, the sorted sets, and that    *)
(* the cache has two tiers.                                                *)
(***************************************************************************)
EXTENDS Maps, Integers

CONSTANTS Users, Requests,
          TTL,         \* how long an entry is kept
          MaxHandler,  \* bound: ticks from the read of a value to its store
          MaxVersion,  \* bound: versions of a user's data
          MaxTime      \* bound: ticks

VARIABLES
  now,
  data,    \* user -> version in the database
  until,   \* history: <<user, version>> -> when it stopped being current
  cache,   \* key -> [version, expires]
  tags,    \* <<tag, key>> of the index
  req      \* request -> where it is

vars == <<now, data, until, cache, tags, req>>

Idle == [pc |-> "idle"]

(* DEFAULT_CACHE_CONFIGS: what is written, and the configuration it is     *)
(* read with.  A session is written without a prefix, and read with one.   *)
Families == {"profile", "session"}
WritePrefix == [profile |-> "user:profile", session |-> "none"]
ReadPrefix == [profile |-> "user:profile", session |-> "auth:state"]
Tags == [profile |-> {"user"}, session |-> {}]

generateCacheKey(prefix, f, u) == [prefix |-> prefix, family |-> f, user |-> u]

Keys ==
  {generateCacheKey(prefix[f], f, u) :
     prefix \in {WritePrefix, ReadPrefix}, f \in Families, u \in Users}

IsRequest(r) ==
  \/ r = Idle
  \/ r.pc \in {"set", "index"} /\ r.key \in Keys /\ r.version \in 0..MaxVersion /\ r.at \in Nat
  \/ r.pc = "evict" /\ r.key \in Keys /\ r.at \in Nat

(* Every value has its type.                                               *)
TypeOK ==
  /\ now \in 0..MaxTime
  /\ data \in [Users -> 0..MaxVersion]
  /\ IsMap(until, Users \X (0..MaxVersion), 0..MaxTime)
  /\ IsMap(cache, Keys, [version : 0..MaxVersion, expires : Nat])
  /\ tags \subseteq {"user"} \X Keys
  /\ DOMAIN req = Requests /\ \A q \in Requests : IsRequest(req[q])

-----------------------------------------------------------------------------
Goto(q, r) == req' = [req EXCEPT ![q] = r]

(* Mutant: the time to live is not handed on.                              *)
StoredForever(r) == [version |-> r.version, expires |-> MaxTime + TTL]

Stored(r) == [version |-> r.version, expires |-> now + TTL]

Storing(f, u, version) ==
  [pc |-> "set", key |-> generateCacheKey(WritePrefix[f], f, u),
   version |-> version, at |-> now]

(* handleCacheable and the getters of CacheUtils, on a miss: the handler   *)
(* runs, and what it read is stored behind its back.                       *)
handleCacheable(q, f, u) ==
  /\ req[q] = Idle
  /\ generateCacheKey(ReadPrefix[f], f, u) \notin DOMAIN cache
  /\ Goto(q, Storing(f, u, data[u]))
  /\ UNCHANGED <<now, data, until, cache, tags>>

Write(u) ==
  /\ data[u] < MaxVersion
  /\ data' = [data EXCEPT ![u] = @ + 1]
  /\ until' = With(until, <<u, data[u]>>, now)
  /\ UNCHANGED <<now, cache, tags>>

(* A handler that changes the data, and then stores its result, or evicts  *)
(* what was stored.                                                        *)
handleCacheUpdate(q, f, u) ==
  req[q] = Idle /\ Write(u) /\ Goto(q, Storing(f, u, data[u] + 1))

handleCacheEviction(q, f, u) ==
  /\ req[q] = Idle /\ Write(u)
  /\ Goto(q, [pc |-> "evict", key |-> generateCacheKey(ReadPrefix[f], f, u), at |-> now])

(* handleCacheWarm: the result is stored whatever is there.                *)
handleCacheWarm(q, f, u) ==
  /\ req[q] = Idle
  /\ Goto(q, Storing(f, u, data[u]))
  /\ UNCHANGED <<now, data, until, cache, tags>>

(* set, with the index of its tags as a second write.                      *)
set(q) ==
  /\ req[q].pc = "set"
  /\ cache' = With(cache, req[q].key, Stored(req[q]))
  /\ Goto(q, [req[q] EXCEPT !.pc = "index"])
  /\ UNCHANGED <<now, data, until, tags>>

addToTagIndex(q) ==
  /\ req[q].pc = "index"
  /\ tags' = tags \cup (Tags[req[q].key.family] \X {req[q].key})
  /\ Goto(q, Idle)
  /\ UNCHANGED <<now, data, until, cache>>

(* del and removeFromTagIndex.                                             *)
del(q) ==
  /\ req[q].pc = "evict"
  /\ cache' = Without(cache, {req[q].key})
  /\ tags' = tags \ ({"user"} \X {req[q].key})
  /\ Goto(q, Idle)
  /\ UNCHANGED <<now, data, until>>

(* An error of the store is logged; the request goes on without it.        *)
fail(q) ==
  /\ req[q] # Idle
  /\ Goto(q, Idle)
  /\ UNCHANGED <<now, data, until, cache, tags>>

(* invalidateByEvent and invalidateAll...: the entries that match, if the  *)
(* client can scan at all.  invalidateByTag: those of the index, only.     *)
invalidateByPattern(u) ==
  /\ cache' = Without(cache, {k \in DOMAIN cache : k.user = u /\ k.prefix # "none"})
  /\ UNCHANGED <<now, data, until, tags, req>>

invalidateByTag(tag) ==
  /\ tags' = {t \in tags : t[1] # tag}
  /\ UNCHANGED <<now, data, until, cache, req>>

clear ==
  /\ cache' = Without(cache, DOMAIN cache) /\ tags' = {}
  /\ UNCHANGED <<now, data, until, req>>

(* Time passes, and the store drops what has expired.                      *)
expire ==
  /\ now < MaxTime
  /\ \A q \in Requests : req[q] # Idle => now < req[q].at + MaxHandler
  /\ now' = now + 1
  /\ cache' = Without(cache, {k \in DOMAIN cache : cache[k].expires <= now + 1})
  /\ UNCHANGED <<data, until, tags, req>>

-----------------------------------------------------------------------------
Init ==
  /\ now = 0
  /\ data = [u \in Users |-> 0]
  /\ until = [p \in {} |-> p] /\ cache = [k \in {} |-> k]
  /\ tags = {}
  /\ req = [q \in Requests |-> Idle]

intercept(q) ==
  \E f \in Families, u \in Users :
    \/ handleCacheable(q, f, u) \/ handleCacheUpdate(q, f, u)
    \/ handleCacheEviction(q, f, u) \/ handleCacheWarm(q, f, u)

Next ==
  \/ \E q \in Requests : intercept(q) \/ set(q) \/ addToTagIndex(q) \/ del(q) \/ fail(q)
  \/ \E u \in Users : invalidateByPattern(u)
  \/ invalidateByTag("user") \/ clear \/ expire

Spec == Init /\ [][Next]_vars

-----------------------------------------------------------------------------
(* Whatever order reads, changes, stores and evictions take, what the      *)
(* cache holds was current when the time to live and the time a handler    *)
(* takes have not passed since: a store that overtakes an eviction, or an  *)
(* eviction that misses its key, spoils the cache no longer than that.     *)
CachedFresh ==
  \A k \in DOMAIN cache :
    <<k.user, cache[k].version>> \in DOMAIN until
      => now < until[<<k.user, cache[k].version>>] + TTL + MaxHandler + 1
=============================================================================
