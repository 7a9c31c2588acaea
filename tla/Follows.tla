------------------------------ MODULE Follows ------------------------------
(***************************************************************************)
(* Who follows whom: the follow module, which looks for a row, and after   *)
(* an await stores one or deletes it by its id.  Left out: the             *)
(* notification of a follow, which is only logged, and the routes the      *)
(* users module has for the same, which always fail: its controller passes *)
(* 'placeholder-user-id', and UserId refuses what is no UUID.              *)
(***************************************************************************)
EXTENDS Maps, Integers, FiniteSets

CONSTANTS Users, Ids, Requests,
          MaxFollowed  \* bound: rows ever created

VARIABLES
  follows,     \* id -> <<follower, following>>
  req,         \* request -> where it is in its use case
  followed,    \* history: rows created
  unfollowed   \* history: rows the end of which was confirmed to somebody

vars == <<follows, req, followed, unfollowed>>

Pairs == {p \in Users \X Users : p[1] # p[2]}

Idle == [pc |-> "idle"]

IsRequest(r) ==
  \/ r = Idle
  \/ r.pc = "create" /\ r.pair \in Pairs
  \/ r.pc = "delete" /\ r.id \in Ids

(* Every value has its type.                                               *)
TypeOK ==
  /\ IsMap(follows, Ids, Pairs)
  /\ DOMAIN req = Requests /\ \A q \in Requests : IsRequest(req[q])
  /\ followed \in 0..MaxFollowed /\ unfollowed \in Nat

-----------------------------------------------------------------------------
Following(pair) == {i \in DOMAIN follows : follows[i] = pair}

NewIds ==
  Ids \ (DOMAIN follows \cup {req[q].id : q \in {p \in Requests : req[p].pc = "delete"}})

Begin(q, r) ==
  /\ req[q] = Idle
  /\ req' = [req EXCEPT ![q] = r]
  /\ UNCHANGED <<follows, followed, unfollowed>>

End(q) == req' = [req EXCEPT ![q] = Idle]

Create(pair) ==
  /\ Following(pair) = {} /\ followed < MaxFollowed
  /\ \E i \in NewIds : follows' = With(follows, i, pair)
  /\ followed' = followed + 1
  /\ UNCHANGED unfollowed

createFollow(q, pair) == Following(pair) = {} /\ Begin(q, [pc |-> "create", pair |-> pair])

removeFollow(q, pair) == \E i \in Following(pair) : Begin(q, [pc |-> "delete", id |-> i])

(* save: the unique index refuses a second row.                            *)
save(q) == req[q].pc = "create" /\ Create(req[q].pair) /\ End(q)

(* Mutant: a deletion that deletes nothing is none the less confirmed.     *)
DeleteIfThere(q) ==
  /\ req[q].pc = "delete"
  /\ follows' = Without(follows, {req[q].id})
  /\ unfollowed' = unfollowed + 1
  /\ End(q)
  /\ UNCHANGED followed

(* delete: to delete a row that is gone is an error.                       *)
delete(q) ==
  /\ req[q].pc = "delete" /\ req[q].id \in DOMAIN follows
  /\ follows' = Without(follows, {req[q].id})
  /\ unfollowed' = unfollowed + 1
  /\ End(q)
  /\ UNCHANGED followed

(* FollowUserDto, and the id of the unfollowed user in the path.  Nobody   *)
(* follows himself.                                                        *)
validateFollow(u, other) == u # other

followUser(q, u) ==
  \E other \in Users : validateFollow(u, other) /\ createFollow(q, <<u, other>>)

unfollowUser(q, u) ==
  \E other \in Users : validateFollow(u, other) /\ removeFollow(q, <<u, other>>)

FollowsController(q) == \E u \in Users : followUser(q, u) \/ unfollowUser(q, u)

(* An error, or a crash.                                                   *)
fail(q) == req[q] # Idle /\ End(q) /\ UNCHANGED <<follows, followed, unfollowed>>

-----------------------------------------------------------------------------
(* What the handlers that read answer.                                     *)
GetFollowsQuery == [follower : Users \cup {"any"}, following : Users \cup {"any"}]

findAll(query) ==
  {i \in DOMAIN follows : /\ query.follower \in {"any", follows[i][1]}
                          /\ query.following \in {"any", follows[i][2]}}

getFollowers(u) == {follows[i][1] : i \in {j \in DOMAIN follows : follows[j][2] = u}}
getFollowing(u) == {follows[i][2] : i \in {j \in DOMAIN follows : follows[j][1] = u}}
getFollowStatus(u, other) == Following(<<u, other>>) # {}

-----------------------------------------------------------------------------
Init ==
  /\ follows = [i \in {} |-> i]
  /\ req = [q \in Requests |-> Idle]
  /\ followed = 0 /\ unfollowed = 0

Next ==
  \E q \in Requests :
    FollowsController(q) \/ save(q) \/ delete(q) \/ fail(q)

Spec == Init /\ [][Next]_vars

-----------------------------------------------------------------------------
(* Nobody is listed twice among the followers of another, or those one     *)
(* follows, though two requests may both have found no row: the totals,    *)
(* which count rows, are the numbers of users, and the status agrees with  *)
(* the lists.                                                              *)
ListedOnce ==
  /\ \A query \in GetFollowsQuery :
       (query.follower # "any" /\ query.following # "any") =>
         Cardinality(findAll(query)) =
           IF getFollowStatus(query.follower, query.following) THEN 1 ELSE 0
  /\ \A u \in Users :
       /\ Cardinality(findAll([follower |-> "any", following |-> u])) =
            Cardinality(getFollowers(u))
       /\ Cardinality(findAll([follower |-> u, following |-> "any"])) =
            Cardinality(getFollowing(u))

(* Every end of a follow that somebody was told of is the end of another   *)
(* row: of overlapping requests to unfollow the one that comes late is     *)
(* refused, also when the user was followed again in between.              *)
UnfollowedOnce == Cardinality(DOMAIN follows) = followed - unfollowed
=============================================================================
