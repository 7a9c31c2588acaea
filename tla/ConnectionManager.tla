------------------------- MODULE ConnectionManager --------------------------
(***************************************************************************)
(* ConnectionManagerService (shared/websocket/core): the registry of open  *)
(* websocket connections, kept in three Maps that every operation has to   *)
(* update together:                                                        *)
(*                                                                         *)
(*    connections          socketId  -> UserConnection                     *)
(*    userConnections      userId    -> Set<socketId>                      *)
(*    namespaceConnections namespace -> Set<socketId>                      *)
(*                                                                         *)
(* The methods are synchronous, so each is one step.  Of a UserConnection  *)
(* the model keeps what the methods read: its user, its namespace and the  *)
(* time of its last activity.  `now' is the wall clock in units of the     *)
(* caller's choice; MaxNow bounds it for model checking.                   *)
(***************************************************************************)
EXTENDS Integers, FiniteSets, Maps, WebSocketIds

CONSTANTS MaxInactive,   \* maxInactiveMs of cleanupInactiveConnections
          MaxNow         \* bound on the clock

ASSUME MaxInactiveAssumption == MaxInactive \in Nat
ASSUME MaxNowAssumption == MaxNow \in Nat

VARIABLES connections, userConnections, namespaceConnections, now

vars == <<connections, userConnections, namespaceConnections, now>>
maps == <<connections, userConnections, namespaceConnections>>

Connection == [userId : Users, namespace : Namespaces, lastActivity : Nat]

TypeOK ==
  /\ IsMap(connections, Sockets, Connection)
  /\ IsMap(userConnections, Users, SUBSET Sockets)
  /\ IsMap(namespaceConnections, Namespaces, SUBSET Sockets)
  /\ now \in Nat

-----------------------------------------------------------------------------
(* Queries.                                                                *)

isUserOnline(u) == u \in DOMAIN userConnections

getUserConnections(u) ==
  GetOr(userConnections, u, {}) \cap DOMAIN connections

Inactive(s) == now - connections[s].lastActivity > MaxInactive

(* healthCheck: more active users than connections is reported unhealthy.  *)
healthy == Cardinality(DOMAIN connections) >= Cardinality(DOMAIN userConnections)

-----------------------------------------------------------------------------
(* The user index without the connections of S.  A user whose set becomes  *)
(* empty loses the key: isUserOnline only asks whether the key is there.   *)
OfUser(S, u) == {s \in S : connections[s].userId = u}

\* Mutant: the key of a user without sockets stays.
KeepEmptyKeys(S) ==
  [u \in DOMAIN userConnections |-> userConnections[u] \ OfUser(S, u)]

UserIndexWithout(S) ==
  [u \in {v \in DOMAIN userConnections :
            OfUser(S, v) = {} \/ userConnections[v] \ OfUser(S, v) # {}}
     |-> userConnections[u] \ OfUser(S, u)]

(* The namespace index without the connections of S; its keys are never    *)
(* deleted.                                                                *)
OfNamespace(S, n) == {s \in S : connections[s].namespace = n}

NamespaceIndexWithout(S) ==
  [n \in DOMAIN namespaceConnections |->
     namespaceConnections[n] \ OfNamespace(S, n)]

RemoveSockets(S) ==
  /\ connections' = Without(connections, S)
  /\ userConnections' = UserIndexWithout(S)
  /\ namespaceConnections' = NamespaceIndexWithout(S)
  /\ UNCHANGED now

-----------------------------------------------------------------------------
\* Mutant: user and socket are swapped.
AddSwapped(u, s, n) ==
  /\ u \notin DOMAIN connections
  /\ connections' = With(connections, u,
                         [userId |-> s, namespace |-> n, lastActivity |-> now])
  /\ UNCHANGED <<userConnections, namespaceConnections, now>>

\* Mutant: a second socket replaces the user's Set.
AddReplacing(u, s, n) ==
  /\ s \notin DOMAIN connections
  /\ connections' = With(connections, s,
                         [userId |-> u, namespace |-> n, lastActivity |-> now])
  /\ userConnections' = With(userConnections, u, {s})
  /\ namespaceConnections' =
       With(namespaceConnections, n, GetOr(namespaceConnections, n, {}) \cup {s})
  /\ UNCHANGED now

(* addConnectionAsync.  socket.io never gives two sockets one id, hence    *)
(* the guard.                                                              *)
addConnection(u, s, n) ==
  /\ s \notin DOMAIN connections
  /\ connections' = With(connections, s,
                         [userId |-> u, namespace |-> n, lastActivity |-> now])
  /\ userConnections' =
       With(userConnections, u, GetOr(userConnections, u, {}) \cup {s})
  /\ namespaceConnections' =
       With(namespaceConnections, n, GetOr(namespaceConnections, n, {}) \cup {s})
  /\ UNCHANGED now

(* removeConnection, and removeConnectionAsync, which calls it only when   *)
(* the socket is that user's.                                              *)
removeConnection(s) ==
  /\ s \in DOMAIN connections
  /\ RemoveSockets({s})

removeConnectionAsync(u, s) ==
  /\ s \in DOMAIN connections
  /\ connections[s].userId = u
  /\ removeConnection(s)

(* removeUserConnections: the bulk operation does not go through           *)
(* removeConnection; it walks the user's index entry and edits the Maps    *)
(* itself.                                                                 *)
removeUserConnections(u) ==
  /\ u \in DOMAIN userConnections
  /\ LET sockets == userConnections[u] IN
       /\ connections' = Without(connections, sockets)
       /\ namespaceConnections' = NamespaceIndexWithout(sockets \cap DOMAIN connections)
  /\ userConnections' = Without(userConnections, {u})
  /\ UNCHANGED now

(* cleanupInactiveConnections: one synchronous loop over all connections.  *)
cleanupInactiveConnections ==
  LET inactive == {s \in DOMAIN connections : Inactive(s)} IN
    /\ inactive # {}
    /\ RemoveSockets(inactive)

(* updateLastActivity and updateUserActivity.                              *)
Touch(S) ==
  /\ connections' = [s \in DOMAIN connections |->
                       IF s \in S THEN [connections[s] EXCEPT !.lastActivity = now]
                                  ELSE connections[s]]
  /\ UNCHANGED <<userConnections, namespaceConnections, now>>

updateLastActivity(s) == s \in DOMAIN connections /\ Touch({s})

updateUserActivity(u) == Touch(getUserConnections(u))

Tick ==
  /\ now < MaxNow
  /\ now' = now + 1
  /\ UNCHANGED maps

-----------------------------------------------------------------------------
Init ==
  /\ connections = [s \in {} |-> {}]
  /\ userConnections = [u \in {} |-> {}]
  /\ namespaceConnections = [n \in {} |-> {}]
  /\ now = 0

Next ==
  \/ \E u \in Users, s \in Sockets, n \in Namespaces : addConnection(u, s, n)
  \/ \E s \in Sockets : removeConnection(s)
  \/ \E u \in Users, s \in Sockets : removeConnectionAsync(u, s)
  \/ \E u \in Users : removeUserConnections(u)
  \/ cleanupInactiveConnections
  \/ \E s \in Sockets : updateLastActivity(s)
  \/ \E u \in Users : updateUserActivity(u)
  \/ Tick

Spec == Init /\ [][Next]_vars

-----------------------------------------------------------------------------
(* The user index lists exactly the registered sockets of each user, and   *)
(* has no key for a user without sockets: getUserConnections misses no     *)
(* socket and isUserOnline, which only looks for the key, is right, after  *)
(* any mix of single, bulk and clean-up removals.                          *)
UserIndexExact ==
  /\ \A u \in Users, s \in Sockets :
       (u \in DOMAIN userConnections /\ s \in userConnections[u])
         <=> (s \in DOMAIN connections /\ connections[s].userId = u)
  /\ \A u \in DOMAIN userConnections : userConnections[u] # {}

(* The namespace index lists exactly the registered sockets of each        *)
(* namespace: a broadcast to a namespace reaches no removed socket and     *)
(* misses none.                                                            *)
NamespaceIndexExact ==
  \A n \in Namespaces, s \in Sockets :
    (n \in DOMAIN namespaceConnections /\ s \in namespaceConnections[n])
      <=> (s \in DOMAIN connections /\ connections[s].namespace = n)

(* healthCheck never reports the service unhealthy: there are at least as  *)
(* many connections as users that count as active.                         *)
AlwaysHealthy == healthy

(* The Maps implement the abstract registry: read through the user index,  *)
(* every method registers one pair or deregisters a set of sockets.        *)
Registry == INSTANCE ConnectionRegistry
              WITH live <- {p \in Users \X Sockets :
                              /\ p[1] \in DOMAIN userConnections
                              /\ p[2] \in userConnections[p[1]]}

ImplementsRegistry == Registry!Spec
=============================================================================
