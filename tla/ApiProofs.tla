------------------------------ MODULE ApiProofs -----------------------------
(***************************************************************************)
(* The parts of Api and of Http, each with the inductive invariant its     *)
(* properties need: for any number of users, posts, ids and overlapping    *)
(* requests.  The parts share no variable, so that a step of one of them   *)
(* preserves the invariants of the others as it leaves their variables     *)
(* alone.                                                                  *)
(***************************************************************************)
EXTENDS Api, Http, Sequences, MapTheorems, FiniteSetTheorems, WellFoundedInduction

(* The parts count with an instance of FiniteSets of their own.            *)
LEMMA SameCardinality ==
  ASSUME NEW X
  PROVE  /\ R!Cardinality(X) = Cardinality(X) /\ F!Cardinality(X) = Cardinality(X)
         /\ U!Cardinality(X) = Cardinality(X) /\ M!Cardinality(X) = Cardinality(X)
         /\ P!Cardinality(X) = Cardinality(X) /\ H!Cardinality(X) = Cardinality(X)
  BY DEF R!Cardinality, F!Cardinality, U!Cardinality, M!Cardinality,
         P!Cardinality, H!Cardinality, Cardinality

(* One more or one less counted, of a finite set.                          *)
LEMMA Recount ==
  ASSUME NEW X, IsFiniteSet(X), NEW q, NEW add \in BOOLEAN
  PROVE  LET T == IF add THEN X \cup {q} ELSE X \ {q} IN
           /\ IsFiniteSet(T)
           /\ Cardinality(X) \in Nat
           /\ Cardinality(T) = Cardinality(X) + (IF add THEN 1 ELSE 0)
                                              - (IF q \in X THEN 1 ELSE 0)
<1>1. Cardinality(X) \in Nat
  BY FS_CardinalityType
<1>2. IsFiniteSet(X \cup {q}) /\
        Cardinality(X \cup {q}) = IF q \in X THEN Cardinality(X) ELSE Cardinality(X) + 1
  BY FS_AddElement
<1>3. IsFiniteSet(X \ {q}) /\
        Cardinality(X \ {q}) = IF q \in X THEN Cardinality(X) - 1 ELSE Cardinality(X)
  BY FS_RemoveElement
<1> QED
  BY <1>1, <1>2, <1>3

(* A list and the set of what its rows name are of one size when every row *)
(* names something else.                                                   *)
LEMMA OneRowPerUser ==
  ASSUME NEW X, IsFiniteSet(X), NEW f, \A i, j \in X : f[i] = f[j] => i = j
  PROVE  Cardinality({f[i] : i \in X}) = Cardinality(X)
<1> DEFINE g == [i \in X |-> f[i]]
           Y == {f[i] : i \in X}
<1>1. g \in Bijection(X, Y)
  BY DEF Bijection, Injection, Surjection, IsInjective
<1> QED
  BY <1>1, FS_Bijection DEF ExistsBijection

(* Sets of numbers have a smallest, and, if bounded, a greatest element.   *)
LEMMA HasSmallest ==
  ASSUME NEW T, T \subseteq Nat, T # {}
  PROVE  \E x \in T : \A y \in T : x <= y
<1> DEFINE lt == OpToRel(<, Nat)
<1>1. IsWellFoundedOn(lt, Nat)
  BY NatLessThanWellFounded
<1>2. \A x, y \in Nat : x < y => <<x, y>> \in lt
  BY DEF OpToRel
<1> HIDE DEF lt
<1>3. \E x \in T : \A y \in T : ~(<<y, x>> \in lt)
  BY <1>1, WFMin, Zenon
<1>4. PICK x \in T : \A y \in T : ~(<<y, x>> \in lt)
  BY <1>3
<1>5. ASSUME NEW y \in T PROVE x <= y
  <2>1. x \in Nat /\ y \in Nat
    OBVIOUS
  <2>2. ~(y < x)
    BY <1>2, <1>4, <2>1
  <2> QED
    BY <2>1, <2>2
<1> QED
  BY <1>5

LEMMA HasGreatest ==
  ASSUME NEW n \in Nat, NEW T, T \subseteq 1..n, T # {}
  PROVE  \E x \in T : \A y \in T : x >= y
<1> DEFINE X == {n - y : y \in T}
<1>1. X \subseteq Nat /\ X # {}
  <2>1. \A y \in T : n - y \in Nat
    OBVIOUS
  <2>2. PICK y \in T : TRUE
    OBVIOUS
  <2>3. n - y \in X
    OBVIOUS
  <2> QED
    BY <2>1, <2>3
<1>2. PICK x \in X : \A y \in X : x <= y
  BY <1>1, HasSmallest
<1>3. PICK z \in T : x = n - z
  OBVIOUS
<1>4. \A y \in T : n - z <= n - y
  BY <1>2, <1>3
<1>5. \A y \in T : z >= y
  BY <1>4
<1> QED
  BY <1>5

(* What stands where in two sequences joined.                              *)
LEMMA Joined ==
  ASSUME NEW X, NEW x \in Seq(X), NEW y \in Seq(X)
  PROVE  /\ x \o y \in Seq(X) /\ Len(x \o y) = Len(x) + Len(y)
         /\ \A k \in 1..Len(x \o y) :
              /\ k <= Len(x) => (x \o y)[k] = x[k]
              /\ k > Len(x) => (x \o y)[k] = y[k - Len(x)]
<1>1. x \o y \in Seq(X) /\ Len(x \o y) = Len(x) + Len(y)
  OBVIOUS
<1>2. ASSUME NEW k \in 1..(Len(x) + Len(y))
      PROVE  /\ k <= Len(x) => (x \o y)[k] = x[k]
             /\ k > Len(x) => (x \o y)[k] = y[k - Len(x)]
  BY <1>2
<1> QED
  BY <1>1, <1>2

(* A sequence without the element at one place.                            *)
LEMMA RemovedAt ==
  ASSUME NEW X, NEW s \in Seq(X), NEW i \in 1..Len(s)
  PROVE  LET t == SubSeq(s, 1, i - 1) \o SubSeq(s, i + 1, Len(s)) IN
           /\ t \in Seq(X) /\ Len(t) = Len(s) - 1
           /\ \A k \in 1..Len(t) : /\ k < i => t[k] = s[k]
                                   /\ k >= i => t[k] = s[k + 1]
<1>1. PICK n \in Nat : n = Len(s)
  OBVIOUS
<1>2. PICK x : x = SubSeq(s, 1, i - 1)
  OBVIOUS
<1>3. PICK y : y = SubSeq(s, i + 1, n)
  OBVIOUS
<1>4. x \in Seq(X) /\ Len(x) = i - 1
  BY <1>2
<1>5. \A k \in 1..(i - 1) : x[k] = s[k]
  BY <1>2
<1>6. y \in Seq(X) /\ Len(y) = n - i
  BY <1>1, <1>3
<1>7. \A k \in 1..(n - i) : y[k] = s[i + k]
  BY <1>1, <1>3
<1>8. PICK t : t = x \o y
  OBVIOUS
<1>9. t \in Seq(X)
  BY <1>4, <1>6, <1>8, Joined
<1>10. Len(t) = Len(x) + Len(y)
  BY <1>4, <1>6, <1>8, Joined
<1>11. \A k \in 1..Len(t) : (k <= Len(x) => t[k] = x[k]) /\ (k > Len(x) => t[k] = y[k - Len(x)])
  BY <1>4, <1>6, <1>8, Joined
<1>12. i \in 1..n
  BY <1>1
<1>13. Len(t) = n - 1
  BY <1>4, <1>6, <1>10, <1>12
<1>14. ASSUME NEW k \in 1..(n - 1), k < i PROVE t[k] = s[k]
  <2>1. k \in 1..(i - 1) /\ k <= i - 1
    BY <1>12, <1>14
  <2>2. t[k] = x[k]
    BY <1>4, <1>11, <1>13, <2>1
  <2> QED
    BY <1>5, <2>1, <2>2
<1>15. ASSUME NEW k \in 1..(n - 1), k >= i PROVE t[k] = s[k + 1]
  <2>1. k - (i - 1) \in 1..(n - i) /\ i + (k - (i - 1)) = k + 1 /\ k > i - 1
    BY <1>12, <1>15
  <2>2. t[k] = y[k - (i - 1)]
    BY <1>4, <1>11, <1>13, <2>1
  <2>3. y[k - (i - 1)] = s[i + (k - (i - 1))]
    BY <1>7, <2>1
  <2> QED
    BY <2>1, <2>2, <2>3
<1> QED
  BY <1>1, <1>2, <1>3, <1>8, <1>9, <1>13, <1>14, <1>15

-----------------------------------------------------------------------------
(* Reactions.                                                              *)
Announcing == {q \in Requests : reacting[q].pc = "announce"}

(* A request asks for types the module has, and there are as many          *)
(* announcements owed as requests about to make one.                       *)
ReactingSound ==
  /\ DOMAIN reacting = Requests
  /\ \A q \in Requests :
       /\ reacting[q].pc \in {"find", "insert", "update"} => reacting[q].type \in R!validTypes
       /\ reacting[q].pc = "find" => {"pc", "type"} \subseteq DOMAIN reacting[q]
  /\ IsFiniteSet(Announcing)
  /\ owed = Cardinality(Announcing)

(* A row of another type is from the save of a post, and no user has two   *)
(* rows of one target.                                                     *)
ReactionsSound ==
  /\ \A i \in DOMAIN reactions :
       reactions[i].type \in R!validTypes \/ (i \in byPosts /\ reactions[i].type = "LAUGH")
  /\ \A i, j \in DOMAIN reactions :
       reactions[i].user = reactions[j].user /\ reactions[i].target = reactions[j].target
         => i = j

(* A request moves on.                                                     *)
LEMMA ReactingStep ==
  ASSUME ReactingSound, NEW q \in Requests, NEW r, R!Goto(q, r),
         r.pc \in {"find", "insert", "update"} => r.type \in R!validTypes,
         r.pc = "find" => {"pc", "type"} \subseteq DOMAIN r,
         owed' = owed + (IF r.pc = "announce" THEN 1 ELSE 0)
                      - (IF reacting[q].pc = "announce" THEN 1 ELSE 0)
  PROVE  ReactingSound'
<1>1. PICK add \in BOOLEAN : add = (r.pc = "announce")
  OBVIOUS
<1>2. Announcing' = IF add THEN Announcing \cup {q} ELSE Announcing \ {q}
  BY <1>1 DEF Announcing, ReactingSound, R!Goto
<1>3. q \in Announcing <=> reacting[q].pc = "announce"
  BY DEF Announcing
<1>4. /\ IsFiniteSet(Announcing')
      /\ Cardinality(Announcing') = Cardinality(Announcing) + (IF add THEN 1 ELSE 0)
                                      - (IF q \in Announcing THEN 1 ELSE 0)
  BY <1>2, Recount DEF ReactingSound
<1>5. owed' = Cardinality(Announcing')
  BY <1>1, <1>3, <1>4 DEF ReactingSound
<1> QED
  BY <1>4, <1>5 DEF ReactingSound, R!Goto, Announcing

(* One that announced nothing and will announce nothing.                   *)
LEMMA QuietStep ==
  ASSUME ReactingSound, NEW q \in Requests, NEW r, R!Goto(q, r),
         reacting[q].pc # "announce", r.pc # "announce", UNCHANGED owed,
         r.pc \in {"find", "insert", "update"} => r.type \in R!validTypes,
         r.pc = "find" => {"pc", "type"} \subseteq DOMAIN r
  PROVE  ReactingSound'
<1>1. owed \in Nat
  BY FS_CardinalityType DEF ReactingSound
<1> QED
  BY <1>1, ReactingStep

LEMMA ReactingUnchanged == ReactingSound /\ UNCHANGED <<reacting, owed>> => ReactingSound'
  BY DEF ReactingSound, Announcing

LEMMA ReactionsUnchanged ==
  ReactionsSound /\ UNCHANGED <<reactions, byPosts>> => ReactionsSound'
  BY DEF ReactionsSound

(* Rows go, and with them the memory of where they came from.              *)
LEMMA ReactionsGone ==
  ASSUME ReactionsSound, NEW X,
         reactions' = R!Without(reactions, X), byPosts' = byPosts \ X
  PROVE  ReactionsSound'
<1>1. /\ DOMAIN reactions' = DOMAIN reactions \ X
      /\ \A i \in DOMAIN reactions' : reactions'[i] = reactions[i]
  BY DEF R!Without, R!Restrict
<1> QED
  BY <1>1 DEF ReactionsSound

(* A row comes that is the only one of its user and target.                *)
LEMMA ReactionMade ==
  ASSUME ReactionsSound, NEW i, i \notin DOMAIN reactions, NEW u, NEW t, NEW type,
         R!ReactionsTo(u, t) = {},
         reactions' = R!With(reactions, i, [user |-> u, target |-> t, type |-> type]),
         byPosts' \in {byPosts, byPosts \cup {i}},
         type \in R!validTypes \/ (i \in byPosts' /\ type = "LAUGH")
  PROVE  ReactionsSound'
<1>1. /\ DOMAIN reactions' = DOMAIN reactions \cup {i}
      /\ \A j \in DOMAIN reactions : reactions'[j] = reactions[j]
      /\ reactions'[i].user = u /\ reactions'[i].target = t /\ reactions'[i].type = type
  BY DEF R!With
<1>2. \A j \in DOMAIN reactions : ~(reactions[j].user = u /\ reactions[j].target = t)
  BY DEF R!ReactionsTo
<1> QED
  BY <1>1, <1>2 DEF ReactionsSound

LEMMA ReactionsInit == R!Init => ReactingSound /\ ReactionsSound
<1> SUFFICES ASSUME R!Init PROVE ReactingSound /\ ReactionsSound
  OBVIOUS
<1>1. Announcing = {}
  BY DEF R!Init, Announcing, R!Idle
<1> QED
  BY <1>1, FS_EmptySet DEF R!Init, R!Idle, ReactingSound, ReactionsSound

LEMMA ReactionsNext ==
  ASSUME ReactingSound, ReactionsSound, R!Next
  PROVE  ReactingSound' /\ ReactionsSound'
<1>1. ASSUME NEW q \in Requests, R!ReactionsController(q)
      PROVE  ReactingSound' /\ ReactionsSound'
  <2>1. ASSUME NEW u \in Users, NEW dto \in R!CreateReactionDto, R!createReaction(q, u, dto)
        PROVE  ReactingSound' /\ ReactionsSound'
    <3>1. PICK r : /\ reacting[q] = R!Idle /\ R!Goto(q, r)
                   /\ r.pc = "find" /\ r.type = dto.type /\ {"pc", "type"} \subseteq DOMAIN r
                   /\ UNCHANGED <<reactions, byPosts, owed>>
      BY <2>1 DEF R!createReaction, R!Begin
    <3>2. dto.type \in R!validTypes
      BY DEF R!CreateReactionDto
    <3> QED
      BY <3>1, <3>2, QuietStep, ReactionsUnchanged DEF R!Idle
  <2>2. ASSUME NEW u \in Users, NEW i \in Ids, R!deleteReaction(q, u, i)
        PROVE  ReactingSound' /\ ReactionsSound'
    <3>1. PICK r : /\ reacting[q] = R!Idle /\ R!Goto(q, r) /\ r.pc = "delete"
                   /\ UNCHANGED <<reactions, byPosts, owed>>
      BY <2>2 DEF R!deleteReaction, R!Begin
    <3> QED
      BY <3>1, QuietStep, ReactionsUnchanged DEF R!Idle
  <2> QED
    BY <1>1, <2>1, <2>2 DEF R!ReactionsController, R!create, R!remove
<1>2. ASSUME NEW q \in Requests, R!createOrUpdateReaction(q)
      PROVE  ReactingSound' /\ ReactionsSound'
  <2>1. reacting[q].type \in R!validTypes
    BY <1>2 DEF ReactingSound, R!createOrUpdateReaction
  <2>2. PICK r : /\ R!Goto(q, r) /\ r.pc \in {"insert", "update", "idle"}
                 /\ r.pc # "idle" => r.type = reacting[q].type
    <3>1. PICK was : was = reacting[q]
      OBVIOUS
    <3>2. CASE R!Goto(q, R!Idle)
      BY <3>2 DEF R!Idle
    <3>3. CASE R!Goto(q, [was EXCEPT !.pc = "insert"])
      <4>1. PICK r : r = [was EXCEPT !.pc = "insert"]
        OBVIOUS
      <4>2. r.pc = "insert" /\ r.type = was.type
        BY <1>2, <3>1, <4>1 DEF ReactingSound, R!createOrUpdateReaction
      <4> QED
        BY <3>1, <3>3, <4>1, <4>2
    <3>4. ASSUME NEW i, R!Goto(q, [pc |-> "update", id |-> i, type |-> was.type])
          PROVE  \E r : /\ R!Goto(q, r) /\ r.pc \in {"insert", "update", "idle"}
                        /\ r.pc # "idle" => r.type = reacting[q].type
      BY <3>1, <3>4
    <3> QED
      BY <1>2, <3>1, <3>2, <3>3, <3>4 DEF R!createOrUpdateReaction
  <2>3. reacting[q].pc = "find" /\ UNCHANGED <<reactions, byPosts, owed>>
    BY <1>2 DEF R!createOrUpdateReaction
  <2> QED
    BY <2>1, <2>2, <2>3, QuietStep, ReactionsUnchanged
<1>3. ASSUME NEW q \in Requests, R!update(q)
      PROVE  ReactingSound' /\ ReactionsSound'
  <2>1. reacting[q].type \in R!validTypes /\ reacting[q].pc = "update"
    BY <1>3 DEF ReactingSound, R!update
  <2>2. ReactingSound'
    BY <1>3, <2>1, QuietStep DEF R!update, R!Idle
  <2>3. PICK id, type : id = reacting[q].id /\ type = reacting[q].type
    OBVIOUS
  <2>4. reactions' = [reactions EXCEPT ![id].type = type] /\ byPosts' = byPosts
    BY <1>3, <2>3 DEF R!update
  <2>5. \A i \in DOMAIN reactions : /\ reactions'[i].user = reactions[i].user
                                    /\ reactions'[i].target = reactions[i].target
                                    /\ reactions'[i].type \in {reactions[i].type, type}
    BY <2>4
  <2> QED
    BY <2>1, <2>2, <2>3, <2>4, <2>5 DEF ReactionsSound
<1>4. ASSUME NEW q \in Requests, R!insert(q)
      PROVE  ReactingSound' /\ ReactionsSound'
  <2>1. reacting[q].type \in R!validTypes /\ reacting[q].pc = "insert"
    BY <1>4 DEF ReactingSound, R!insert
  <2>2. owed \in Nat
    BY FS_CardinalityType DEF ReactingSound
  <2>3. ASSUME R!Goto(q, [pc |-> "announce"]), owed' = owed + 1 PROVE ReactingSound'
    BY <2>1, <2>2, <2>3, ReactingStep
  <2>4. ASSUME R!Goto(q, R!Idle), UNCHANGED owed PROVE ReactingSound'
    BY <2>1, <2>4, QuietStep DEF R!Idle
  <2>5. ReactionsSound'
    BY <1>4, <2>1, ReactionMade DEF R!insert, R!NewIds
  <2> QED
    BY <1>4, <2>3, <2>4, <2>5 DEF R!insert
<1>5. ASSUME NEW q \in Requests, R!announce(q)
      PROVE  ReactingSound' /\ ReactionsSound'
  <2>1. owed \in Nat
    BY FS_CardinalityType DEF ReactingSound
  <2>2. ReactingSound'
    BY <1>5, <2>1, ReactingStep DEF R!announce, R!Idle
  <2> QED
    BY <1>5, <2>2, ReactionsUnchanged DEF R!announce
<1>6. ASSUME NEW q \in Requests, R!delete(q)
      PROVE  ReactingSound' /\ ReactionsSound'
  <2>1. ReactingSound'
    BY <1>6, QuietStep DEF R!delete, R!Idle
  <2> QED
    BY <1>6, <2>1, ReactionsGone DEF R!delete
<1>7. ASSUME NEW q \in Requests, R!fail(q)
      PROVE  ReactingSound' /\ ReactionsSound'
  <2>1. owed \in Nat
    BY FS_CardinalityType DEF ReactingSound
  <2>2. ReactingSound'
    BY <1>7, <2>1, ReactingStep DEF R!fail, R!Idle
  <2> QED
    BY <1>7, <2>2, ReactionsUnchanged DEF R!fail
<1>8. ASSUME NEW u \in Users, NEW dto \in R!CreateCommentDto, R!createComment(u, dto)
      PROVE  ReactingSound' /\ ReactionsSound'
  BY <1>8, ReactingUnchanged, ReactionsUnchanged DEF R!createComment
<1>9. ASSUME R!PostsModule
      PROVE  ReactingSound' /\ ReactionsSound'
  <2>1. ASSUME NEW u \in Users, NEW p \in Posts, NEW type \in R!PostTypes, NEW i \in Ids,
               R!saveReaction(u, p, type, i)
        PROVE  ReactingSound' /\ ReactionsSound'
    <3>1. type \in R!validTypes \/ type = "LAUGH"
      BY DEF R!validTypes, R!PostTypes
    <3>2. ReactionsSound'
      BY <2>1, <3>1, ReactionMade DEF R!saveReaction, R!NewIds
    <3> QED
      BY <2>1, <3>2, ReactingUnchanged DEF R!saveReaction
  <2>2. ASSUME NEW i \in Ids, R!dropReaction(i)
        PROVE  ReactingSound' /\ ReactionsSound'
    BY <2>2, ReactingUnchanged, ReactionsGone DEF R!dropReaction
  <2>3. ASSUME NEW gone, R!Cascade(gone) PROVE ReactionsSound'
    BY <2>3, ReactionsGone DEF R!Cascade
  <2>4. ASSUME NEW c \in Comments, R!dropComment(c)
        PROVE  ReactingSound' /\ ReactionsSound'
    BY <2>3, <2>4, ReactingUnchanged DEF R!dropComment
  <2>5. ASSUME NEW p \in Posts, R!deletePost(p)
        PROVE  ReactingSound' /\ ReactionsSound'
    BY <2>3, <2>5, ReactingUnchanged DEF R!deletePost
  <2> QED
    BY <1>9, <2>1, <2>2, <2>4, <2>5 DEF R!PostsModule
<1> QED
  BY <1>1, <1>2, <1>3, <1>4, <1>5, <1>6, <1>7, <1>8, <1>9 DEF R!Next

(* What the invariant says of the lists.                                   *)
LEMMA ReactionsListed ==
  ASSUME ReactionsSound
  PROVE  R!UnlistableByPosts /\ R!ListedOnce
<1>1. R!UnlistableByPosts
  BY DEF ReactionsSound, R!UnlistableByPosts, R!Unlistable, R!getPostReactions, R!Shown,
         R!isValidReactionType
<1>2. ASSUME NEW query \in R!GetReactionsQuery,
             query.post # R!Nothing, query.reactor # R!Nothing, query.targetType # "post"
      PROVE  R!Cardinality(R!findAll(query)) <= 1
  <2>1. \A i, j \in R!findAll(query) : i = j
    BY <1>2 DEF ReactionsSound, R!findAll, R!Shown, R!PostAskedFor, R!Nothing
  <2>2. CASE R!findAll(query) = {}
    BY <2>2, FS_EmptySet, SameCardinality
  <2>3. ASSUME NEW i \in R!findAll(query) PROVE R!Cardinality(R!findAll(query)) <= 1
    <3>1. R!findAll(query) = {i}
      BY <2>1, <2>3
    <3>2. Cardinality({i}) = 1
      BY FS_Singleton
    <3> QED
      BY <3>1, <3>2, SameCardinality
  <2> QED
    BY <2>2, <2>3
<1>3. ASSUME NEW u \in Users, NEW p \in Posts, ~R!Unlistable(p)
      PROVE  R!getReactionStatus(u, p)
               <=> \E i \in R!getPostReactions(p) : reactions[i].user = u
  BY <1>3 DEF R!Unlistable, R!getReactionStatus, R!ReactionsTo, R!getPostReactions, R!Shown
<1>4. ASSUME NEW query \in R!GetReactionsQuery,
             NEW i \in R!findAll(query), NEW j \in R!findAll(query),
             reactions[i].user = reactions[j].user, reactions[i].target = reactions[j].target
      PROVE  i = j
  <2>1. R!findAll(query) \subseteq DOMAIN reactions
    BY DEF R!findAll, R!Shown
  <2> QED
    BY <1>4, <2>1 DEF ReactionsSound
<1> QED
  BY <1>1, <1>2, <1>3, <1>4 DEF R!ListedOnce

-----------------------------------------------------------------------------
(* Follows.  No two rows are of one pair, and the rows are as many as were *)
(* created and not reported as ended.                                      *)
FollowsSound ==
  /\ \A i \in DOMAIN follows : follows[i] \in F!Pairs
  /\ \A i, j \in DOMAIN follows : follows[i] = follows[j] => i = j
  /\ \A q \in Requests : following[q].pc = "create" => following[q].pair \in F!Pairs
  /\ DOMAIN following = Requests
  /\ followed \in Nat /\ unfollowed \in Nat
  /\ IsFiniteSet(DOMAIN follows)
  /\ Cardinality(DOMAIN follows) = followed - unfollowed

(* A request begins or ends without a change of the rows.                  *)
LEMMA FollowingStep ==
  ASSUME FollowsSound, NEW q \in Requests, NEW r,
         following' = [following EXCEPT ![q] = r],
         r.pc = "create" => r.pair \in F!Pairs,
         UNCHANGED <<follows, followed, unfollowed>>
  PROVE  FollowsSound'
  BY DEF FollowsSound

LEMMA FollowMade ==
  ASSUME FollowsSound, NEW q \in Requests, NEW pair \in F!Pairs,
         F!Create(pair), F!End(q)
  PROVE  FollowsSound'
<1>1. PICK i : i \notin DOMAIN follows /\ follows' = F!With(follows, i, pair)
  BY DEF F!Create, F!NewIds
<1>2. /\ DOMAIN follows' = DOMAIN follows \cup {i} /\ follows'[i] = pair
      /\ \A j \in DOMAIN follows : follows'[j] = follows[j]
  BY <1>1 DEF F!With
<1>3. IsFiniteSet(DOMAIN follows') /\ Cardinality(DOMAIN follows') = Cardinality(DOMAIN follows) + 1
  BY <1>1, <1>2, FS_AddElement DEF FollowsSound
<1>4. Cardinality(DOMAIN follows') = followed' - unfollowed'
  BY <1>3, FS_CardinalityType DEF FollowsSound, F!Create
<1>5. \A j \in DOMAIN follows : follows[j] # pair
  BY DEF F!Create, F!Following
<1> QED
  BY <1>1, <1>2, <1>3, <1>4, <1>5 DEF FollowsSound, F!Create, F!End, F!Idle

LEMMA FollowsGone ==
  ASSUME FollowsSound, NEW q \in Requests, NEW X \in SUBSET DOMAIN follows,
         follows' = F!Without(follows, X), unfollowed' = unfollowed + Cardinality(X),
         UNCHANGED followed, F!End(q)
  PROVE  FollowsSound'
<1>1. /\ DOMAIN follows' = DOMAIN follows \ X
      /\ \A j \in DOMAIN follows' : follows'[j] = follows[j]
  BY DEF F!Without, F!Restrict
<1>2. DOMAIN follows \cap X = X
  OBVIOUS
<1>3. IsFiniteSet(X) /\ Cardinality(X) \in Nat
  BY FS_Subset, FS_CardinalityType DEF FollowsSound
<1>4. /\ IsFiniteSet(DOMAIN follows')
      /\ Cardinality(DOMAIN follows') = Cardinality(DOMAIN follows) - Cardinality(X)
  <2>1. PICK there : there = DOMAIN follows /\ IsFiniteSet(there)
    BY DEF FollowsSound
  <2>2. /\ IsFiniteSet(there \ X)
        /\ Cardinality(there \ X) = Cardinality(there) - Cardinality(there \cap X)
    BY <2>1, FS_Difference
  <2> QED
    BY <1>1, <1>2, <2>1, <2>2
<1>5. Cardinality(DOMAIN follows') = followed' - unfollowed' /\ unfollowed' \in Nat
  <2>1. PICK old, gone : old = Cardinality(DOMAIN follows) /\ gone = Cardinality(X)
    OBVIOUS
  <2>2. gone \in Nat /\ followed \in Nat /\ unfollowed \in Nat /\ old = followed - unfollowed
    BY <1>3, <2>1 DEF FollowsSound
  <2>3. followed' = followed /\ unfollowed' = unfollowed + gone
    BY <2>1
  <2>4. Cardinality(DOMAIN follows') = old - gone
    BY <1>4, <2>1
  <2> QED
    BY <2>2, <2>3, <2>4
<1>6. /\ DOMAIN following' = Requests
      /\ \A p \in Requests : following'[p].pc = "create" => following'[p].pair \in F!Pairs
  BY DEF FollowsSound, F!End, F!Idle
<1> QED
  BY <1>1, <1>4, <1>5, <1>6 DEF FollowsSound

LEMMA FollowsInit == F!Init => FollowsSound
  BY FS_EmptySet DEF F!Init, F!Idle, FollowsSound

LEMMA FollowsNext ==
  ASSUME FollowsSound, F!Next
  PROVE  FollowsSound'
<1>1. PICK q \in Requests : F!FollowsController(q) \/ F!save(q) \/ F!delete(q) \/ F!fail(q)
  BY DEF F!Next
<1>2. CASE F!FollowsController(q)
  <2>1. ASSUME NEW u \in Users, F!followUser(q, u) PROVE FollowsSound'
    <3>1. PICK other \in Users : u # other /\ F!createFollow(q, <<u, other>>)
      BY <2>1 DEF F!followUser, F!validateFollow
    <3>2. <<u, other>> \in F!Pairs
      BY <3>1 DEF F!Pairs
    <3> QED
      BY <3>1, <3>2, FollowingStep DEF F!createFollow, F!Begin
  <2>2. ASSUME NEW u \in Users, F!unfollowUser(q, u) PROVE FollowsSound'
    BY <2>2, FollowingStep DEF F!unfollowUser, F!removeFollow, F!Begin
  <2> QED
    BY <1>2, <2>1, <2>2 DEF F!FollowsController
<1>3. CASE F!save(q)
  BY <1>3, FollowMade DEF F!save, FollowsSound
<1>4. CASE F!delete(q)
  <2>1. PICK id \in DOMAIN follows : id = following[q].id
    BY <1>4 DEF F!delete
  <2>2. Cardinality({id}) = 1
    BY FS_Singleton
  <2> QED
    BY <1>4, <2>1, <2>2, FollowsGone DEF F!delete
<1>5. CASE F!fail(q)
  BY <1>5, FollowingStep DEF F!fail, F!End, F!Idle
<1> QED
  BY <1>1, <1>2, <1>3, <1>4, <1>5

LEMMA FollowsListed ==
  ASSUME FollowsSound
  PROVE  F!ListedOnce
<1>1. ASSUME NEW query \in F!GetFollowsQuery, query.follower # "any", query.following # "any"
      PROVE  F!Cardinality(F!findAll(query)) =
               IF F!getFollowStatus(query.follower, query.following) THEN 1 ELSE 0
  <2> DEFINE pair == <<query.follower, query.following>>
  <2>1. F!findAll(query) = F!Following(pair)
    BY <1>1 DEF FollowsSound, F!findAll, F!Following, F!Pairs
  <2>2. \A i, j \in F!Following(pair) : i = j
    BY DEF FollowsSound, F!Following
  <2>3. CASE F!Following(pair) = {}
    BY <2>1, <2>3, FS_EmptySet, SameCardinality DEF F!getFollowStatus
  <2>4. ASSUME NEW i \in F!Following(pair)
        PROVE  /\ F!Cardinality(F!findAll(query)) = 1
               /\ F!getFollowStatus(query.follower, query.following)
    <3>1. F!findAll(query) = {i}
      BY <2>1, <2>2, <2>4
    <3>2. Cardinality({i}) = 1
      BY FS_Singleton
    <3> QED
      BY <2>4, <3>1, <3>2, SameCardinality DEF F!getFollowStatus
  <2> QED
    BY <2>3, <2>4
<1>2. ASSUME NEW u \in Users
      PROVE  /\ F!Cardinality(F!findAll([follower |-> "any", following |-> u])) =
                  F!Cardinality(F!getFollowers(u))
             /\ F!Cardinality(F!findAll([follower |-> u, following |-> "any"])) =
                  F!Cardinality(F!getFollowing(u))
  <2> DEFINE X == {i \in DOMAIN follows : follows[i][2] = u}
             Y == {i \in DOMAIN follows : follows[i][1] = u}
             first == [i \in X |-> follows[i][1]]
             second == [i \in Y |-> follows[i][2]]
  <2>1. F!findAll([follower |-> "any", following |-> u]) = X
    BY AnyAssumption DEF F!findAll
  <2>2. F!findAll([follower |-> u, following |-> "any"]) = Y
    BY AnyAssumption DEF F!findAll
  <2>3. F!getFollowers(u) = {first[i] : i \in X} /\ F!getFollowing(u) = {second[i] : i \in Y}
    BY DEF F!getFollowers, F!getFollowing
  <2>4. \A i, j \in X : first[i] = first[j] => i = j
    BY DEF FollowsSound, F!Pairs
  <2>5. \A i, j \in Y : second[i] = second[j] => i = j
    BY DEF FollowsSound, F!Pairs
  <2>6. IsFiniteSet(X) /\ IsFiniteSet(Y)
    BY FS_Subset DEF FollowsSound
  <2> HIDE DEF X, Y, first, second
  <2>7. Cardinality({first[i] : i \in X}) = Cardinality(X)
    BY <2>4, <2>6, OneRowPerUser
  <2>8. Cardinality({second[i] : i \in Y}) = Cardinality(Y)
    BY <2>5, <2>6, OneRowPerUser
  <2> QED
    BY <2>1, <2>2, <2>3, <2>7, <2>8, SameCardinality
<1> QED
  BY <1>1, <1>2 DEF F!ListedOnce

-----------------------------------------------------------------------------
(* Accounts.  A row may be verified if a mail was sent or Google said so,  *)
(* and, unless Google did, only with a password.                           *)
Mailed(a) == a \in fromGoogle \/ [account |-> a, purpose |-> "email-verification"] \in issued

HasPassword(a) == a \in fromGoogle \/ users[a].password # A!NoPassword

RowFields == A!Fields \cup {"lastProfileUpdate"}

ChangeSound(a, change) ==
  /\ DOMAIN change \subseteq A!Fields
  /\ "password" \in DOMAIN change => change.password # A!NoPassword
  /\ "verified" \in DOMAIN change => Mailed(a) /\ HasPassword(a)

(* What a request is going to change on the way to verify an address: the  *)
(* password, before the address itself.                                    *)
VerifySound(a, change, then) ==
  then = "verify" => Mailed(a) /\ "password" \in DOMAIN change

(* The copy a request will save has what was asked of it; what was not, it *)
(* has as the row has it, unless it is no longer current.                  *)
CopySound(r) ==
  /\ DOMAIN r = {"pc", "account", "entity", "change", "then", "stale"}
  /\ DOMAIN r.entity = RowFields
  /\ r.entity.verified => Mailed(r.account) /\ HasPassword(r.account)
  /\ \A f \in DOMAIN r.change : r.entity[f] = r.change[f]
  /\ r.stale \/ \A f \in A!Fields \ DOMAIN r.change : r.entity[f] = users[r.account][f]

RequestSound(r) ==
  /\ r.pc = "insert" => /\ DOMAIN r.entity = RowFields
                        /\ r.entity.verified => r.entity.password = A!NoPassword
  /\ r.pc = "mail" /\ r.then = "touch" => r.token.account \in DOMAIN users
  /\ r.pc \in {"load", "save"} => /\ r.account \in DOMAIN users
                                  /\ ChangeSound(r.account, r.change)
                                  /\ VerifySound(r.account, r.change, r.then)
  /\ r.pc = "save" => CopySound(r)

RowSound(a) ==
  /\ DOMAIN users[a] = RowFields
  /\ users[a].verified => Mailed(a) /\ HasPassword(a)
  /\ DOMAIN wished[a] = A!Fields
  /\ a \notin overwritten => \A f \in A!Fields : users[a][f] = wished[a][f]

AccountsSound ==
  /\ DOMAIN wished = DOMAIN users
  /\ tokens \subseteq issued
  /\ \A a \in DOMAIN users : RowSound(a)
  /\ DOMAIN registering = Requests
  /\ \A q \in Requests : RequestSound(registering[q])

(* What is sound of a request stays sound while rows and mails are only    *)
(* added, passwords not removed, and the row of a current copy the same.   *)
LEMMA RequestStays ==
  ASSUME NEW r, RequestSound(r),
         DOMAIN users \subseteq DOMAIN users', issued \subseteq issued',
         fromGoogle \subseteq fromGoogle',
         \A a \in DOMAIN users : users[a].password # A!NoPassword =>
           users'[a].password # A!NoPassword,
         r.pc = "save" =>
           r.stale \/ \A f \in A!Fields : users'[r.account][f] = users[r.account][f]
  PROVE  RequestSound(r)'
<1>1. \A a \in DOMAIN users : (Mailed(a) => Mailed(a)') /\ (HasPassword(a) => HasPassword(a)')
  BY DEF Mailed, HasPassword
<1>2. ASSUME r.pc \in {"load", "save"}
      PROVE  /\ r.account \in DOMAIN users'
             /\ ChangeSound(r.account, r.change)'
             /\ VerifySound(r.account, r.change, r.then)'
  BY <1>1, <1>2 DEF RequestSound, ChangeSound, VerifySound
<1>3. r.pc = "save" => CopySound(r)'
  BY <1>1 DEF RequestSound, CopySound
<1> QED
  BY <1>2, <1>3 DEF RequestSound

(* A request moves on, and rows are left alone.                            *)
LEMMA RegisteringStep ==
  ASSUME AccountsSound, NEW q \in Requests, NEW r, A!Goto(q, r), RequestSound(r)',
         UNCHANGED A!store, issued \subseteq issued', tokens' \subseteq issued'
  PROVE  AccountsSound'
<1>1. ASSUME NEW p \in Requests, p # q PROVE RequestSound(registering[p])'
  <2>1. RequestSound(registering[p])
    BY DEF AccountsSound
  <2>2. PICK x : x = registering[p]
    OBVIOUS
  <2>3. RequestSound(x)'
    BY <2>1, <2>2, RequestStays DEF A!store
  <2>4. registering'[p] = x
    BY <1>1, <2>2 DEF AccountsSound, A!Goto
  <2> QED
    BY <2>3, <2>4
<1>2. registering'[q] = r
  BY DEF AccountsSound, A!Goto
<1>3. RequestSound(registering[q])'
  BY <1>2
<1>4. \A a \in DOMAIN users : RowSound(a)'
  BY DEF AccountsSound, RowSound, Mailed, HasPassword, A!store
<1> QED
  BY <1>1, <1>3, <1>4 DEF AccountsSound, A!Goto, A!store

(* A request moves on, and nothing else changes.                           *)
LEMMA RegisteringMoves ==
  ASSUME AccountsSound, NEW q \in Requests, NEW r, A!Goto(q, r), RequestSound(r),
         UNCHANGED <<A!store, A!mail>>
  PROVE  AccountsSound'
<1>1. RequestSound(r)'
  BY RequestStays DEF A!store, A!mail
<1>2. UNCHANGED A!store /\ issued \subseteq issued' /\ tokens' \subseteq issued'
  BY DEF AccountsSound, A!mail
<1> QED
  BY <1>1, <1>2, RegisteringStep

(* A row that was loaded, with what is asked of it.                        *)
LEMMA SavingSound ==
  ASSUME AccountsSound, NEW a \in DOMAIN users, NEW change, NEW then,
         ChangeSound(a, change), VerifySound(a, change, then)
  PROVE  RequestSound(A!Saving(a, change, then))
<1>1. PICK loaded : loaded = A!findByEmail(a)
  OBVIOUS
<1>2. PICK entity : entity = A!WithChange(loaded, change)
  OBVIOUS
<1>3. RowSound(a)
  BY DEF AccountsSound
<1>4. DOMAIN loaded = RowFields /\ \A f \in A!Fields : loaded[f] = users[a][f]
  BY <1>1, <1>3 DEF RowSound, RowFields, A!findByEmail, A!Fields
<1>5. /\ DOMAIN entity = RowFields
      /\ \A f \in RowFields : entity[f] = IF f \in DOMAIN change THEN change[f] ELSE loaded[f]
  BY <1>2, <1>4 DEF A!WithChange
<1>6. entity.verified => Mailed(a) /\ HasPassword(a)
  BY <1>3, <1>4, <1>5 DEF RowSound, ChangeSound, RowFields, A!Fields
<1>7. \A f \in DOMAIN change : entity[f] = change[f]
  BY <1>5 DEF ChangeSound, RowFields
<1>8. \A f \in A!Fields \ DOMAIN change : entity[f] = users[a][f]
  BY <1>4, <1>5 DEF RowFields
<1>9. PICK r : r = A!Saving(a, change, then)
  OBVIOUS
<1>10. /\ DOMAIN r = {"pc", "account", "entity", "change", "then", "stale"}
       /\ r.pc = "save" /\ r.account = a /\ r.entity = entity /\ r.change = change
       /\ r.then = then
  BY <1>1, <1>2, <1>9 DEF A!Saving
<1>11. CopySound(r)
  BY <1>5, <1>6, <1>7, <1>8, <1>10 DEF CopySound
<1> QED
  BY <1>9, <1>10, <1>11 DEF RequestSound

LEMMA AccountsInit == A!Init => AccountsSound
  BY DEF A!Init, A!Idle, AccountsSound, RequestSound

(* Nothing is asked of a row that is saved as it was loaded.               *)
LEMMA NoChangeSound ==
  ASSUME NEW a
  PROVE  ChangeSound(a, A!NoChange) /\ VerifySound(a, A!NoChange, "end")
  BY DEF ChangeSound, VerifySound, A!NoChange

LEMMA PasswordSound ==
  ASSUME NEW a, NEW p \in Passwords
  PROVE  /\ ChangeSound(a, [password |-> p])
         /\ VerifySound(a, [password |-> p], "end")
         /\ Mailed(a) => VerifySound(a, [password |-> p], "verify")
  BY PasswordsAssumption DEF ChangeSound, VerifySound, A!Fields

LEMMA BeginMoves ==
  ASSUME AccountsSound, NEW q \in Requests, NEW r, A!Begin(q, r), RequestSound(r)
  PROVE  AccountsSound'
<1>1. A!Goto(q, r) /\ UNCHANGED <<A!store, A!mail>>
  BY DEF A!Begin
<1> QED
  BY <1>1, RegisteringMoves

LEMMA NewAccountStep ==
  ASSUME AccountsSound, NEW q \in Requests, NEW a, NEW entity, NEW mailed,
         A!NewAccount(q, a, entity, mailed), DOMAIN entity = RowFields,
         entity.verified => entity.password = A!NoPassword
  PROVE  AccountsSound'
<1>1. PICK r : r = [pc |-> "insert", account |-> a, entity |-> entity, mail |-> mailed]
  OBVIOUS
<1>2. RequestSound(r)
  BY <1>1 DEF RequestSound
<1> QED
  BY <1>1, <1>2, BeginMoves DEF A!NewAccount

(* The handlers that only begin a request.                                 *)
LEMMA HandlersStep ==
  ASSUME AccountsSound, NEW q \in Requests,
         \/ A!AuthController(q) \/ A!googleAuthCallback(q)
         \/ A!UsersController(q)
  PROVE  AccountsSound'
<1>1. ASSUME NEW a, NEW text, A!registerUser(q, a, text) PROVE AccountsSound'
  BY <1>1, NewAccountStep DEF A!registerUser, RowFields, A!Fields
<1>2. ASSUME NEW a, NEW p, NEW text, A!createUser(q, a, p, text) PROVE AccountsSound'
  BY <1>2, NewAccountStep DEF A!createUser, RowFields, A!Fields
<1>3. ASSUME NEW a, NEW text, A!googleAuth(q, a, text) PROVE AccountsSound'
  BY <1>3, NewAccountStep DEF A!googleAuth, RowFields, A!Fields
<1>4. ASSUME NEW a, NEW purpose, a \in DOMAIN users, A!Mail(q, a, purpose) PROVE AccountsSound'
  <2>1. PICK token : token = [account |-> a, purpose |-> purpose]
    OBVIOUS
  <2>2. PICK r : r = [pc |-> "mail", then |-> "touch", token |-> token]
    OBVIOUS
  <2>3. RequestSound(r)
    BY <1>4, <2>1, <2>2 DEF RequestSound
  <2> QED
    BY <1>4, <2>1, <2>2, <2>3, BeginMoves DEF A!Mail
<1>5. ASSUME NEW a \in DOMAIN users, NEW change, NEW then,
             ChangeSound(a, change), VerifySound(a, change, then),
             A!LoadAndSave(q, a, change, then)
      PROVE  AccountsSound'
  <2>1. PICK r : r = [pc |-> "load", account |-> a, change |-> change, then |-> then]
    OBVIOUS
  <2>2. RequestSound(r)
    BY <1>5, <2>1 DEF RequestSound
  <2> QED
    BY <1>5, <2>1, <2>2, BeginMoves DEF A!LoadAndSave
<1>6. ASSUME NEW a \in DOMAIN users, NEW change,
             ChangeSound(a, change), VerifySound(a, change, "end"),
             A!Begin(q, A!Saving(a, change, "end"))
      PROVE  AccountsSound'
  BY <1>6, SavingSound, BeginMoves
<1>7. ASSUME NEW a, NEW p \in Passwords, A!verifyEmail(q, a, p) PROVE AccountsSound'
  <2>1. a \in DOMAIN users /\ A!LoadAndSave(q, a, [password |-> p], "verify")
    BY <1>7 DEF A!verifyEmail, A!verifyEmailByToken, A!Stored
  <2>2. Mailed(a)
    BY <1>7 DEF A!verifyEmail, A!verifyEmailByToken, A!verifyToken, AccountsSound, Mailed
  <2> QED
    BY <1>5, <2>1, <2>2, PasswordSound
<1>8. ASSUME NEW a, NEW p \in Passwords, A!resetPassword(q, a, p) PROVE AccountsSound'
  <2>1. a \in DOMAIN users /\ A!LoadAndSave(q, a, [password |-> p], "end")
    BY <1>8 DEF A!resetPassword, A!findByResetToken, A!Stored
  <2> QED
    BY <1>5, <2>1, PasswordSound
<1>9. ASSUME NEW a, A!resendVerification(q, a) \/ A!forgotPassword(q, a) PROVE AccountsSound'
  BY <1>4, <1>9 DEF A!resendVerification, A!forgotPassword, A!MayMail, A!Stored
<1>10. ASSUME NEW a, NEW dto, A!updateProfile(q, a, dto) PROVE AccountsSound'
  <2>1. PICK change : /\ A!Begin(q, A!Saving(a, change, "end"))
                      /\ change = A!NoChange \/ change = [text |-> dto.text]
    BY <1>10 DEF A!updateProfile
  <2>2. a \in DOMAIN users
    BY <1>10 DEF A!updateProfile, A!Stored
  <2>3. ChangeSound(a, [text |-> dto.text]) /\ VerifySound(a, [text |-> dto.text], "end")
    BY DEF ChangeSound, VerifySound, A!Fields
  <2> QED
    BY <1>6, <2>1, <2>2, <2>3, NoChangeSound
<1>11. CASE A!AuthController(q)
  BY <1>1, <1>7, <1>8, <1>9, <1>11
     DEF A!AuthController, A!register, A!VerifyEmailRequestDto, A!ResetPasswordRequestDto
<1>12. CASE A!UsersController(q)
  BY <1>2, <1>10, <1>12 DEF A!UsersController, A!update
<1> QED
  BY <1>3, <1>11, <1>12 DEF A!googleAuthCallback

LEMMA LoadStep ==
  ASSUME AccountsSound, NEW q \in Requests, A!load(q)
  PROVE  AccountsSound'
<1>1. PICK r : r = registering[q]
  OBVIOUS
<1>2. r.pc = "load" /\ RequestSound(r)
  BY <1>1 DEF A!load, AccountsSound
<1>3. /\ A!Goto(q, A!Saving(r.account, r.change, r.then))
      /\ UNCHANGED <<A!store, A!mail>>
  BY <1>1 DEF A!load
<1>4. RequestSound(A!Saving(r.account, r.change, r.then))
  BY <1>2, SavingSound DEF RequestSound
<1> QED
  BY <1>3, <1>4, RegisteringMoves

LEMMA SendEmailStep ==
  ASSUME AccountsSound, NEW q \in Requests, A!sendEmail(q)
  PROVE  AccountsSound'
<1>1. PICK was : was = registering[q]
  OBVIOUS
<1>2. was.pc = "mail" /\ RequestSound(was)
  BY <1>1 DEF A!sendEmail, AccountsSound
<1>3. PICK touch : touch = [pc |-> "load", account |-> was.token.account,
                            change |-> A!NoChange, then |-> "end"]
  OBVIOUS
<1>4. UNCHANGED A!store /\ issued \subseteq issued' /\ tokens' \subseteq issued'
  BY DEF A!sendEmail, AccountsSound
<1>5. RequestSound(A!Idle)
  BY DEF RequestSound, A!Idle
<1>6. was.then = "touch" => RequestSound(touch)
  BY <1>2, <1>3, NoChangeSound DEF RequestSound
<1>7. PICK r : A!Goto(q, r) /\ RequestSound(r) /\ r.pc # "save"
  BY <1>1, <1>3, <1>5, <1>6 DEF A!sendEmail, A!Idle
<1>8. RequestSound(r)'
  BY <1>4, <1>7, RequestStays DEF A!store
<1> QED
  BY <1>4, <1>7, <1>8, RegisteringStep

LEMMA ExpireStep ==
  ASSUME AccountsSound, NEW t, A!expire(t)
  PROVE  AccountsSound'
  BY DEF AccountsSound, A!expire, A!store, RowSound, RequestSound, CopySound, ChangeSound,
         VerifySound, Mailed, HasPassword

LEMMA AccountFails ==
  ASSUME AccountsSound, NEW q \in Requests, A!fail(q)
  PROVE  AccountsSound'
<1>1. RequestSound(A!Idle)
  BY DEF RequestSound, A!Idle
<1> QED
  BY <1>1, RegisteringMoves DEF A!fail

(* Time passes, which changes no field a request may ask for.              *)
LEMMA AgeStep ==
  ASSUME AccountsSound, NEW a, A!Age(a)
  PROVE  AccountsSound'
<1>1. PICK row : /\ row = [users[a] EXCEPT !.lastProfileUpdate =
                                              IF @ = "now" THEN "minute" ELSE "day"]
                 /\ users' = [users EXCEPT ![a] = row]
  BY DEF A!Age
<1>2. a \in DOMAIN users /\ RowSound(a)
  BY DEF A!Age, A!Stored, AccountsSound
<1>3. DOMAIN row = RowFields /\ \A f \in A!Fields : row[f] = users[a][f]
  BY <1>1, <1>2 DEF RowSound, A!Fields
<1>4. /\ DOMAIN users' = DOMAIN users
      /\ \A b \in DOMAIN users : /\ DOMAIN users'[b] = DOMAIN users[b]
                                 /\ \A f \in A!Fields : users'[b][f] = users[b][f]
  BY <1>1, <1>2, <1>3 DEF RowSound
<1>5. UNCHANGED <<fromGoogle, wished, overwritten, tokens, issued, registering>>
  BY DEF A!Age, A!mail
<1>6. "password" \in A!Fields /\ "verified" \in A!Fields
  BY DEF A!Fields
<1>7. ASSUME NEW b \in DOMAIN users PROVE RowSound(b)'
  <2>1. RowSound(b)
    BY DEF AccountsSound
  <2>2. /\ users'[b].password = users[b].password /\ users'[b].verified = users[b].verified
        /\ DOMAIN users'[b] = DOMAIN users[b]
        /\ \A f \in A!Fields : users'[b][f] = users[b][f]
    BY <1>4, <1>6
  <2> QED
    BY <1>5, <2>1, <2>2 DEF RowSound, Mailed, HasPassword
<1>8. ASSUME NEW q \in Requests PROVE RequestSound(registering[q])'
  <2>1. PICK r : r = registering[q]
    OBVIOUS
  <2>2. RequestSound(r)
    BY <2>1 DEF AccountsSound
  <2>3. r.pc = "save" => r.account \in DOMAIN users
    BY <2>2 DEF RequestSound
  <2>4. RequestSound(r)'
    BY <1>4, <1>5, <1>6, <2>2, <2>3, RequestStays
  <2> QED
    BY <1>5, <2>1, <2>4
<1> QED
  BY <1>4, <1>5, <1>7, <1>8 DEF AccountsSound

(* A new row: no other request knows of it, and the row is as it was asked *)
(* to be.                                                                  *)
LEMMA InsertStep ==
  ASSUME AccountsSound, NEW q \in Requests, A!insert(q)
  PROVE  AccountsSound'
<1>1. PICK r : r = registering[q]
  OBVIOUS
<1>2. PICK a : a = r.account
  OBVIOUS
<1>3. RequestSound(r) /\ r.pc = "insert" /\ a \notin DOMAIN users
  BY <1>1, <1>2 DEF A!insert, AccountsSound, A!Stored
<1>4. PICK done : /\ A!Goto(q, done)
                  /\ done = A!Idle \/ (done.pc = "mail" /\ done.then = "end")
  BY DEF A!insert
<1>5. UNCHANGED <<overwritten, tokens, issued>>
  BY DEF A!insert, A!mail
<1>6. users' = A!With(users, a, r.entity)
  BY <1>1, <1>2 DEF A!insert
<1>7. wished' = A!With(wished, a, [f \in A!Fields |-> r.entity[f]])
  BY <1>1, <1>2 DEF A!insert
<1>8. fromGoogle' = fromGoogle \cup
        {b \in {a} : r.entity.verified /\ r.entity.password = A!NoPassword}
  BY <1>1, <1>2 DEF A!insert
<1>9. /\ DOMAIN users' = DOMAIN users \cup {a} /\ users'[a] = r.entity
      /\ \A b \in DOMAIN users : users'[b] = users[b]
  BY <1>3, <1>6 DEF A!With
<1>10. /\ DOMAIN wished' = DOMAIN users \cup {a}
       /\ wished'[a] = [f \in A!Fields |-> r.entity[f]]
       /\ \A b \in DOMAIN users : wished'[b] = wished[b]
  BY <1>3, <1>7 DEF A!With, AccountsSound
<1>11. RowSound(a)'
  <2>1. users'[a].verified => a \in fromGoogle'
    BY <1>3, <1>8, <1>9 DEF RequestSound
  <2>2. DOMAIN users'[a] = RowFields
    BY <1>3, <1>9 DEF RequestSound
  <2>3. DOMAIN wished'[a] = A!Fields /\ \A f \in A!Fields : users'[a][f] = wished'[a][f]
    BY <1>9, <1>10
  <2> QED
    BY <2>1, <2>2, <2>3 DEF RowSound, Mailed, HasPassword
<1>12. ASSUME NEW b \in DOMAIN users PROVE RowSound(b)'
  <2>1. RowSound(b)
    BY DEF AccountsSound
  <2>2. users'[b] = users[b] /\ wished'[b] = wished[b] /\ fromGoogle \subseteq fromGoogle'
    BY <1>8, <1>9, <1>10
  <2> QED
    BY <1>5, <2>1, <2>2 DEF RowSound, Mailed, HasPassword
<1>13. ASSUME NEW p \in Requests PROVE RequestSound(registering[p])'
  <2>1. CASE p = q
    <3>1. registering'[p] = done
      BY <1>4, <2>1 DEF A!Goto, AccountsSound
    <3>2. RequestSound(done)'
      BY <1>4 DEF RequestSound, A!Idle
    <3> QED
      BY <3>1, <3>2
  <2>2. CASE p # q
    <3>1. PICK x : x = registering[p]
      OBVIOUS
    <3>2. RequestSound(x)
      BY <3>1 DEF AccountsSound
    <3>3. x.pc = "save" => x.account \in DOMAIN users
      BY <3>2 DEF RequestSound
    <3>4. RequestSound(x)'
      BY <1>5, <1>8, <1>9, <3>2, <3>3, RequestStays
    <3>5. registering'[p] = x
      BY <1>4, <2>2, <3>1 DEF A!Goto, AccountsSound
    <3> QED
      BY <3>4, <3>5
  <2> QED
    BY <2>1, <2>2
<1>14. DOMAIN registering' = Requests
  BY <1>4 DEF A!Goto, AccountsSound
<1> QED
  BY <1>5, <1>9, <1>10, <1>11, <1>12, <1>13, <1>14 DEF AccountsSound

(* What the save of a copy leaves in the row.                              *)
LEMMA SavedRow ==
  ASSUME NEW a, NEW entity, RowSound(a), DOMAIN entity = RowFields
  PROVE  LET row == A!mapToDataModel(a, entity) IN
           /\ DOMAIN row = RowFields
           /\ row.verified = entity.verified /\ row.text = entity.text
           /\ row.password = IF entity.password = A!NoPassword THEN users[a].password
                                                               ELSE entity.password
  BY DEF A!mapToDataModel, RowSound, RowFields, A!Fields

(* A save: the row has a password if it had one, the other copies of it    *)
(* are no longer current, and what is asked next is what a password and a  *)
(* mail allow.                                                             *)
LEMMA SaveStep ==
  ASSUME AccountsSound, NEW q \in Requests, A!save(q)
  PROVE  AccountsSound'
<1>1. PICK r : r = registering[q]
  OBVIOUS
<1>2. PICK a : a = r.account
  OBVIOUS
<1>3. r.pc = "save" /\ RequestSound(r)
  BY <1>1 DEF A!save, AccountsSound
<1>4. /\ CopySound(r) /\ a \in DOMAIN users
      /\ ChangeSound(a, r.change) /\ VerifySound(a, r.change, r.then)
  BY <1>2, <1>3 DEF RequestSound
<1>5. RowSound(a)
  BY <1>4 DEF AccountsSound
<1>6. PICK row : row = A!mapToDataModel(a, r.entity)
  OBVIOUS
<1>7. /\ DOMAIN row = RowFields
      /\ row.verified = r.entity.verified /\ row.text = r.entity.text
      /\ row.password = IF r.entity.password = A!NoPassword THEN users[a].password
                                                            ELSE r.entity.password
  BY <1>4, <1>5, <1>6, SavedRow DEF CopySound
<1>8. /\ DOMAIN users' = DOMAIN users /\ users'[a] = row
      /\ \A b \in DOMAIN users : b # a => users'[b] = users[b]
  <2>1. users' = [users EXCEPT ![a] = row]
    BY <1>1, <1>2, <1>6 DEF A!save
  <2> QED
    BY <1>4, <2>1
<1>9. PICK wish : wish = A!WithChange(wished[a], r.change)
  OBVIOUS
<1>10. /\ DOMAIN wish = A!Fields
       /\ \A f \in A!Fields :
            wish[f] = IF f \in DOMAIN r.change THEN r.change[f] ELSE wished[a][f]
  BY <1>5, <1>9 DEF A!WithChange, RowSound
<1>11. /\ DOMAIN wished' = DOMAIN users /\ wished'[a] = wish
       /\ \A b \in DOMAIN users : b # a => wished'[b] = wished[b]
  <2>1. wished' = [wished EXCEPT ![a] = wish]
    BY <1>1, <1>2, <1>9 DEF A!save
  <2> QED
    BY <1>4, <2>1 DEF AccountsSound
<1>12. overwritten' = overwritten \cup {b \in {a} : r.stale}
  BY <1>1, <1>2 DEF A!save
<1>13. UNCHANGED <<fromGoogle, tokens, issued>>
  BY DEF A!save, A!mail
<1>14. PICK next : next = IF r.then = "verify" THEN A!verifyUserEmail(a) ELSE A!Idle
  OBVIOUS
<1>15. /\ DOMAIN registering' = Requests /\ registering'[q] = next
       /\ \A p \in Requests \ {q} :
            registering'[p] = IF registering[p].pc = "save" /\ registering[p].account = a
                                THEN [registering[p] EXCEPT !.stale = TRUE] ELSE registering[p]
  BY <1>1, <1>2, <1>14 DEF A!save
<1>16. \A b : (Mailed(b) => Mailed(b)') /\ (HasPassword(b) /\ b \in DOMAIN users => HasPassword(b)')
  BY <1>7, <1>8, <1>13 DEF Mailed, HasPassword
<1>17. RowSound(a)'
  <2>1. users'[a].verified => Mailed(a)' /\ HasPassword(a)'
    BY <1>2, <1>4, <1>7, <1>8, <1>16 DEF CopySound
  <2>2. ASSUME a \notin overwritten', NEW f \in A!Fields
        PROVE  users'[a][f] = wished'[a][f]
    <3>1. a \notin overwritten /\ ~r.stale
      BY <1>12, <2>2
    <3>2. users[a][f] = wished[a][f]
      BY <1>5, <3>1 DEF RowSound
    <3>3. r.entity[f] = IF f \in DOMAIN r.change THEN r.change[f] ELSE users[a][f]
      BY <1>2, <1>4, <3>1 DEF CopySound
    <3>4. r.entity[f] = wish[f]
      BY <1>10, <3>2, <3>3
    <3>5. row[f] = r.entity[f]
      <4>1. CASE f = "password"
        BY <1>4, <1>7, <3>3, <4>1 DEF ChangeSound
      <4>2. CASE f # "password"
        BY <1>7, <4>2 DEF A!Fields
      <4> QED
        BY <4>1, <4>2
    <3> QED
      BY <1>8, <1>11, <3>4, <3>5
  <2> QED
    BY <1>7, <1>8, <1>10, <1>11, <2>1, <2>2 DEF RowSound
<1>18. ASSUME NEW b \in DOMAIN users, b # a PROVE RowSound(b)'
  <2>1. RowSound(b)
    BY DEF AccountsSound
  <2>2. users'[b] = users[b] /\ wished'[b] = wished[b] /\ (b \in overwritten' <=> b \in overwritten)
    BY <1>8, <1>11, <1>12, <1>18
  <2> QED
    BY <1>13, <2>1, <2>2 DEF RowSound, Mailed, HasPassword
<1>19. RequestSound(next)'
  <2>1. CASE r.then # "verify"
    BY <1>14, <2>1 DEF RequestSound, A!Idle
  <2>2. CASE r.then = "verify"
    <3>1. PICK change : change = [verified |-> TRUE]
      OBVIOUS
    <3>2. next.pc = "load" /\ next.account = a /\ next.change = change /\ next.then = "end"
      BY <1>14, <2>2, <3>1 DEF A!verifyUserEmail
    <3>3. Mailed(a) /\ "password" \in DOMAIN r.change
      BY <1>4, <2>2 DEF VerifySound
    <3>4. row.password # A!NoPassword
      BY <1>4, <1>7, <3>3 DEF ChangeSound, CopySound
    <3>5. Mailed(a)' /\ HasPassword(a)'
      BY <1>8, <1>16, <3>3, <3>4 DEF HasPassword
    <3>6. ChangeSound(a, change)'
      BY <3>1, <3>5 DEF ChangeSound, A!Fields
    <3>7. VerifySound(a, change, "end")'
      BY DEF VerifySound
    <3>8. a \in DOMAIN users'
      BY <1>4, <1>8
    <3> QED
      BY <3>2, <3>6, <3>7, <3>8 DEF RequestSound
  <2> QED
    BY <2>1, <2>2
<1>20. ASSUME NEW p \in Requests, p # q PROVE RequestSound(registering[p])'
  <2>1. PICK was : was = registering[p]
    OBVIOUS
  <2>2. RequestSound(was)
    BY <2>1 DEF AccountsSound
  <2>3. ASSUME NEW x, RequestSound(x), x.pc = "save" => x.stale \/ x.account # a
        PROVE  RequestSound(x)'
    <3>1. x.pc = "save" => x.account \in DOMAIN users
      BY <2>3 DEF RequestSound
    <3>2. \A b \in DOMAIN users : users[b].password # A!NoPassword =>
                                    users'[b].password # A!NoPassword
      BY <1>7, <1>8
    <3> QED
      BY <1>8, <1>13, <2>3, <3>1, <3>2, RequestStays
  <2>4. CASE was.pc = "save" /\ was.account = a
    <3>1. PICK true \in BOOLEAN : true = TRUE
      OBVIOUS
    <3>2. PICK x : x = [was EXCEPT !.stale = true]
      OBVIOUS
    <3>3. CopySound(was)
      BY <2>2, <2>4 DEF RequestSound
    <3>4. /\ DOMAIN x = DOMAIN was /\ x.stale
          /\ x.pc = was.pc /\ x.account = was.account /\ x.entity = was.entity
          /\ x.change = was.change /\ x.then = was.then
      BY <3>1, <3>2, <3>3 DEF CopySound
    <3>5. RequestSound(x)
      BY <2>2, <2>4, <3>3, <3>4 DEF RequestSound, CopySound
    <3>6. registering'[p] = x
      BY <1>15, <1>20, <2>1, <2>4, <3>1, <3>2
    <3> QED
      BY <2>3, <3>4, <3>5, <3>6
  <2>5. CASE ~(was.pc = "save" /\ was.account = a)
    <3>1. registering'[p] = was
      BY <1>15, <1>20, <2>1, <2>5
    <3> QED
      BY <2>2, <2>3, <2>5, <3>1
  <2> QED
    BY <2>4, <2>5
<1> QED
  BY <1>8, <1>11, <1>13, <1>15, <1>17, <1>18, <1>19, <1>20 DEF AccountsSound

LEMMA AccountsNext ==
  ASSUME AccountsSound, A!Next
  PROVE  AccountsSound'
BY HandlersStep, InsertStep, SendEmailStep, LoadStep, SaveStep, AccountFails, AgeStep, ExpireStep
   DEF A!Next

(* What the invariant says of the rows.                                    *)
LEMMA AccountsKept ==
  ASSUME AccountsSound
  PROVE  A!UpdatesKept /\ A!VerifiedByMail /\ A!VerifiedHasPassword
<1>1. \A a \in A!Stored : RowSound(a)
  BY DEF AccountsSound, A!Stored
<1>2. A!UpdatesKept
  BY <1>1 DEF RowSound, A!UpdatesKept
<1>3. A!VerifiedByMail
  BY <1>1 DEF RowSound, Mailed, A!VerifiedByMail
<1>4. A!VerifiedHasPassword
  BY <1>1 DEF RowSound, HasPassword, A!VerifiedHasPassword
<1> QED
  BY <1>2, <1>3, <1>4

-----------------------------------------------------------------------------
(* Uploads.  What an upload counted and brings is within the limit it was  *)
(* asked to keep, if any.                                                  *)
UploadSound(r) ==
  /\ r.pc = "count" => /\ r.post \in Posts /\ r.limit \subseteq Int
                       /\ \E n \in Nat : r.files \in [1..n -> U!Mimetypes]
  /\ r.pc = "save" => /\ r.post \in Posts /\ r.count \in Nat
                      /\ \E n \in Nat : /\ r.uploaded \in [1..n -> U!Mimetypes]
                                        /\ r.count + n <= asked[r.post]

Numbered(p) ==
  /\ \A i \in DOMAIN orders[p] : orders[p][i] \in {0, i}
  /\ Len(orders[p]) <= asked[p]

UploadsSound ==
  /\ IsFiniteSet(DOMAIN orders) /\ DOMAIN orders = DOMAIN owner
  /\ DOMAIN orders \subseteq Posts
  /\ \A p \in DOMAIN orders : orders[p] \in Seq(Nat)
  /\ asked \in [Posts -> Nat]
  /\ \A p \in DOMAIN orders \ raced : Numbered(p)
  /\ DOMAIN uploading = Requests
  /\ \A q \in Requests : UploadSound(uploading[q])

LEMMA UploadsInit == U!Init => UploadsSound
  BY FS_EmptySet DEF U!Init, U!Idle, UploadsSound, UploadSound

(* A request moves on, and the rows stay.                                  *)
LEMMA UploadingStep ==
  ASSUME UploadsSound, NEW q \in Requests, NEW r, U!Goto(q, r),
         UNCHANGED <<owner, orders, raced>>, asked' \in [Posts -> Nat],
         \A p \in Posts : asked[p] <= asked'[p], UploadSound(r)'
  PROVE  UploadsSound'
<1>1. ASSUME NEW p \in DOMAIN orders' \ raced' PROVE Numbered(p)'
  <2>1. Numbered(p) /\ orders[p] \in Seq(Nat) /\ p \in Posts
    BY <1>1 DEF UploadsSound
  <2>2. Len(orders[p]) \in Nat /\ asked[p] \in Nat /\ asked'[p] \in Nat /\ asked[p] <= asked'[p]
    BY <2>1 DEF UploadsSound
  <2> QED
    BY <2>1, <2>2 DEF Numbered
<1>2. ASSUME NEW x, UploadSound(x) PROVE UploadSound(x)'
  <2>1. ASSUME x.pc = "save"
        PROVE  \E n \in Nat : /\ x.uploaded \in [1..n -> U!Mimetypes]
                              /\ x.count + n <= asked'[x.post]
    <3>1. PICK n \in Nat : /\ x.uploaded \in [1..n -> U!Mimetypes]
                           /\ x.count + n <= asked[x.post]
      BY <1>2, <2>1 DEF UploadSound
    <3>2. x.post \in Posts /\ x.count \in Nat
      BY <1>2, <2>1 DEF UploadSound
    <3>3. asked[x.post] \in Nat /\ asked'[x.post] \in Nat /\ asked[x.post] <= asked'[x.post]
      BY <3>2 DEF UploadsSound
    <3> QED
      BY <3>1, <3>2, <3>3
  <2> QED
    BY <1>2, <2>1 DEF UploadSound
<1>3. ASSUME NEW p \in Requests PROVE UploadSound(uploading[p])'
  <2>1. PICK x : x = IF p = q THEN r ELSE uploading[p]
    OBVIOUS
  <2>2. uploading'[p] = x
    BY <2>1 DEF UploadsSound, U!Goto
  <2>3. UploadSound(x)'
    BY <1>2, <2>1 DEF UploadsSound
  <2> QED
    BY <2>2, <2>3
<1> QED
  BY <1>1, <1>3 DEF UploadsSound, U!Goto

LEMMA UploadMoves ==
  ASSUME UploadsSound, NEW q \in Requests, NEW r, U!Goto(q, r), UNCHANGED U!rows, UploadSound(r)
  PROVE  UploadsSound'
<1>1. UNCHANGED <<owner, orders, raced>> /\ asked' = asked
  BY DEF U!rows
<1>2. asked' \in [Posts -> Nat] /\ \A p \in Posts : asked[p] <= asked'[p]
  BY <1>1 DEF UploadsSound
<1>3. UploadSound(r)'
  BY <1>1 DEF UploadSound
<1> QED
  BY <1>1, <1>2, <1>3, UploadingStep

LEMMA UploadHandlers ==
  ASSUME UploadsSound, NEW q \in Requests, NEW u \in Users, U!uploadMultiple(q, u)
  PROVE  UploadsSound'
<1>1. PICK dto \in U!UploadPostMediaDto, files \in U!Files : U!validateUpload(q, u, dto, files)
  BY DEF U!uploadMultiple
<1>2. PICK r : r = [pc |-> "count", post |-> dto.post, limit |-> dto.limit, files |-> files]
  OBVIOUS
<1>3. \E n \in Nat : files \in [1..n -> U!Mimetypes]
  BY UploadsAssumption DEF U!Files
<1>4. dto.post \in Posts /\ dto.limit \subseteq Int
  <2>1. /\ dto.post \in Posts
        /\ dto.limit \in {{n} : n \in MediaLimits \cup {DefaultLimit}} \cup {{}}
    BY DEF U!UploadPostMediaDto
  <2>2. dto.limit = {} \/ \E n \in MediaLimits \cup {DefaultLimit} : dto.limit = {n}
    BY <2>1
  <2>3. MediaLimits \cup {DefaultLimit} \subseteq Int
    BY UploadsAssumption
  <2>4. dto.limit \subseteq Int
    BY <2>2, <2>3
  <2> QED
    BY <2>1, <2>4
<1>5. UploadSound(r)
  BY <1>2, <1>3, <1>4 DEF UploadSound
<1> QED
  BY <1>1, <1>2, <1>5, UploadMoves DEF U!validateUpload

LEMMA CheckLimitStep ==
  ASSUME UploadsSound, NEW q \in Requests, U!checkLimit(q)
  PROVE  UploadsSound'
<1>1. PICK was : was = uploading[q]
  OBVIOUS
<1>2. was.pc = "count" /\ UploadSound(was)
  BY <1>1 DEF U!checkLimit, UploadsSound
<1>3. PICK n \in Nat : was.files \in [1..n -> U!Mimetypes]
  BY <1>2 DEF UploadSound
<1>4. PICK uploaded : uploaded = U!uploadMultipleFiles(was.files)
  OBVIOUS
<1>5. uploaded \in [1..n -> U!Mimetypes]
  BY <1>3, <1>4 DEF U!uploadMultipleFiles, U!uploadFile, U!Mimetypes
<1>6. PICK count : count = U!countByPostId(was.post)
  OBVIOUS
<1>7. count \in Nat
  BY <1>6 DEF U!countByPostId, UploadsSound
<1>8. Len(was.files) = n
  BY <1>3
<1>9. PICK most \in U!allowed(was.limit, count + n) :
        /\ count + n <= most
        /\ asked' = [asked EXCEPT ![was.post] = IF most > @ THEN most ELSE @]
  BY <1>1, <1>6, <1>8 DEF U!checkLimit
<1>10. was.post \in Posts /\ most \in Int
  BY <1>2, <1>7 DEF UploadSound, U!allowed
<1>11. /\ asked[was.post] \in Nat
       /\ asked' = [asked EXCEPT ![was.post] = IF most > asked[was.post] THEN most
                                              ELSE asked[was.post]]
  BY <1>9, <1>10 DEF UploadsSound
<1>12. /\ asked' \in [Posts -> Nat] /\ most <= asked'[was.post]
       /\ \A p \in Posts : asked[p] <= asked'[p]
  BY <1>10, <1>11 DEF UploadsSound
<1>13. PICK r : r = [pc |-> "save", post |-> was.post, count |-> count, uploaded |-> uploaded]
  OBVIOUS
<1>14. /\ r.pc = "save" /\ r.post = was.post /\ r.count = count /\ r.uploaded = uploaded
  BY <1>13
<1>15. count + n <= asked'[was.post]
  <2>1. count + n \in Nat /\ asked'[was.post] \in Nat
    BY <1>7, <1>10, <1>12
  <2> QED
    BY <1>9, <1>10, <1>12, <2>1
<1>16. UploadSound(r)'
  BY <1>5, <1>7, <1>10, <1>14, <1>15 DEF UploadSound
<1>17. U!Goto(q, r) /\ UNCHANGED <<owner, orders, raced>>
  BY <1>1, <1>4, <1>6, <1>13 DEF U!checkLimit
<1> QED
  BY <1>12, <1>16, <1>17, UploadingStep

(* The rows of one post change, or come, or go.                            *)
LEMMA RowsOfOnePost ==
  ASSUME UploadsSound, NEW p \in Posts, NEW rows \in Seq(Nat),
         orders' \in [DOMAIN orders \cup {p} -> Seq(Nat)],
         DOMAIN owner' = DOMAIN orders', orders'[p] = rows,
         \A x \in DOMAIN orders \ {p} : orders'[x] = orders[x],
         raced \ {p} \subseteq raced',
         asked' \in [Posts -> Nat], \A x \in Posts : asked[x] <= asked'[x],
         p \notin raced' => /\ \A i \in DOMAIN rows : rows[i] \in {0, i}
                            /\ Len(rows) <= asked'[p],
         DOMAIN uploading' = Requests,
         \A q \in Requests : uploading'[q] \in {uploading[q], U!Idle}
  PROVE  UploadsSound'
<1>1. IsFiniteSet(DOMAIN orders')
  <2>1. DOMAIN orders' = DOMAIN orders \cup {p}
    OBVIOUS
  <2>2. IsFiniteSet(DOMAIN orders \cup {p})
    BY FS_AddElement DEF UploadsSound
  <2> QED
    BY <2>1, <2>2
<1>2. ASSUME NEW x \in DOMAIN orders' \ raced' PROVE Numbered(x)'
  <2>1. CASE x = p
    BY <1>2, <2>1 DEF Numbered
  <2>2. CASE x # p
    <3>1. Numbered(x) /\ orders[x] \in Seq(Nat) /\ x \in Posts /\ orders'[x] = orders[x]
      BY <1>2, <2>2 DEF UploadsSound
    <3>2. Len(orders[x]) \in Nat /\ asked[x] \in Nat /\ asked'[x] \in Nat /\ asked[x] <= asked'[x]
      BY <3>1 DEF UploadsSound
    <3> QED
      BY <3>1, <3>2 DEF Numbered
  <2> QED
    BY <2>1, <2>2
<1>3. ASSUME NEW x, UploadSound(x) PROVE UploadSound(x)'
  <2>1. ASSUME x.pc = "save"
        PROVE  \E n \in Nat : /\ x.uploaded \in [1..n -> U!Mimetypes]
                              /\ x.count + n <= asked'[x.post]
    <3>1. PICK n \in Nat : /\ x.uploaded \in [1..n -> U!Mimetypes]
                           /\ x.count + n <= asked[x.post]
      BY <1>3, <2>1 DEF UploadSound
    <3>2. x.post \in Posts /\ x.count \in Nat
      BY <1>3, <2>1 DEF UploadSound
    <3>3. asked[x.post] \in Nat /\ asked'[x.post] \in Nat /\ asked[x.post] <= asked'[x.post]
      BY <3>2 DEF UploadsSound
    <3> QED
      BY <3>1, <3>2, <3>3
  <2> QED
    BY <1>3, <2>1 DEF UploadSound
<1>4. ASSUME NEW q \in Requests PROVE UploadSound(uploading[q])'
  <2>1. PICK x : x = uploading'[q]
    OBVIOUS
  <2>2. UploadSound(x)
    <3>1. UploadSound(U!Idle)
      BY DEF UploadSound, U!Idle
    <3>2. x = uploading[q] \/ x = U!Idle
      BY <2>1
    <3> QED
      BY <3>1, <3>2 DEF UploadsSound
  <2>3. UploadSound(x)'
    BY <1>3, <2>2
  <2> QED
    BY <2>1, <2>3
<1> QED
  BY <1>1, <1>2, <1>4 DEF UploadsSound

LEMMA UploadFails ==
  ASSUME UploadsSound, NEW q \in Requests, U!fail(q)
  PROVE  UploadsSound'
<1>1. UploadSound(U!Idle)
  BY DEF UploadSound, U!Idle
<1> QED
  BY <1>1, UploadMoves DEF U!fail

(* The media are numbered on from those the upload counted: from those     *)
(* there are, unless another writer was faster.                            *)
LEMMA SaveManyStep ==
  ASSUME UploadsSound, NEW q \in Requests, U!saveMany(q)
  PROVE  UploadsSound'
<1>1. PICK r : r = uploading[q]
  OBVIOUS
<1>2. PICK p : p = r.post
  OBVIOUS
<1>3. r.pc = "save" /\ UploadSound(r) /\ p \in DOMAIN orders
  BY <1>1, <1>2 DEF U!saveMany, U!exists, UploadsSound
<1>4. PICK n \in Nat : r.uploaded \in [1..n -> U!Mimetypes] /\ r.count + n <= asked[p]
  BY <1>2, <1>3 DEF UploadSound
<1>5. p \in Posts /\ r.count \in Nat /\ orders[p] \in Seq(Nat) /\ asked[p] \in Nat
  BY <1>2, <1>3 DEF UploadSound, UploadsSound
<1>6. PICK medias : medias = U!createFromUploadedFiles(r.uploaded, r.count)
  OBVIOUS
<1>7. medias \in Seq(Nat) /\ Len(medias) = n /\ \A i \in 1..n : medias[i] = r.count + i
  <2>1. medias = [i \in 1..n |-> r.count + i]
    BY <1>4, <1>6 DEF U!createFromUploadedFiles
  <2> QED
    BY <1>5, <2>1
<1>8. PICK rows : rows = orders[p] \o medias
  OBVIOUS
<1>9. /\ rows \in Seq(Nat) /\ Len(rows) = Len(orders[p]) + n
      /\ \A i \in 1..Len(rows) :
           rows[i] = IF i <= Len(orders[p]) THEN orders[p][i] ELSE medias[i - Len(orders[p])]
  <2>1. PICK old \in Seq(Nat) : old = orders[p]
    BY <1>5
  <2>2. rows \in Seq(Nat)
    BY <1>7, <1>8, <2>1
  <2>3. Len(rows) = Len(old) + n
    <3>1. medias \in Seq(Nat)
      BY <1>7
    <3>2. Len(old \o medias) = Len(old) + Len(medias)
      BY <3>1
    <3> QED
      BY <1>7, <1>8, <2>1, <3>2
  <2>4. ASSUME NEW i \in 1..Len(rows)
        PROVE  rows[i] = IF i <= Len(old) THEN old[i] ELSE medias[i - Len(old)]
    <3>1. i \in 1..(Len(old) + Len(medias)) /\ Len(old) \in Nat /\ Len(medias) \in Nat
      BY <1>7, <2>1, <2>3, <2>4
    <3>2. medias \in Seq(Nat)
      BY <1>7
    <3>3. (old \o medias)[i] = IF i <= Len(old) THEN old[i] ELSE medias[i - Len(old)]
      BY <3>1, <3>2
    <3> QED
      BY <1>8, <2>1, <3>3
  <2> QED
    BY <2>1, <2>2, <2>3, <2>4
<1>10. orders' = [orders EXCEPT ![p] = rows]
  BY <1>1, <1>2, <1>6, <1>8 DEF U!saveMany
<1>11. raced' = raced \cup (IF Len(orders[p]) = r.count THEN {} ELSE {p})
  BY <1>1, <1>2 DEF U!saveMany
<1>12. ASSUME p \notin raced'
       PROVE  (\A i \in DOMAIN rows : rows[i] \in {0, i}) /\ Len(rows) <= asked[p]
  <2>1. Len(orders[p]) = r.count /\ p \notin raced
    BY <1>11, <1>12
  <2>2. \A i \in DOMAIN orders[p] : orders[p][i] \in {0, i}
    BY <1>3, <2>1 DEF UploadsSound, Numbered
  <2>3. ASSUME NEW i \in DOMAIN rows PROVE rows[i] \in {0, i}
    <3>1. i \in 1..Len(rows)
      BY <1>9, <2>3
    <3>2. CASE i <= Len(orders[p])
      <4>1. i \in 1..Len(orders[p])
        BY <1>5, <1>9, <3>1, <3>2
      <4>2. rows[i] = orders[p][i]
        BY <1>9, <3>1, <3>2
      <4>3. DOMAIN orders[p] = 1..Len(orders[p])
        BY <1>5
      <4> QED
        BY <2>2, <4>1, <4>2, <4>3
    <3>3. CASE ~(i <= Len(orders[p]))
      <4>1. Len(orders[p]) \in Nat /\ i \in 1..(Len(orders[p]) + n)
        BY <1>5, <1>9, <3>1
      <4>2. i - Len(orders[p]) \in 1..n
        BY <3>3, <4>1
      <4>3. medias[i - Len(orders[p])] = r.count + (i - Len(orders[p]))
        BY <1>7, <4>2
      <4>4. rows[i] = medias[i - Len(orders[p])]
        BY <1>9, <3>1, <3>3
      <4> QED
        BY <1>5, <2>1, <4>1, <4>3, <4>4
    <3> QED
      BY <3>2, <3>3
  <2> QED
    BY <1>4, <1>9, <2>1, <2>3
<1>13. U!Goto(q, U!Idle) /\ UNCHANGED <<owner, asked>>
  BY DEF U!saveMany
<1>14. /\ DOMAIN uploading' = Requests
       /\ \A x \in Requests : uploading'[x] \in {uploading[x], U!Idle}
  BY <1>13 DEF U!Goto, UploadsSound
<1>15. /\ orders' \in [DOMAIN orders \cup {p} -> Seq(Nat)] /\ orders'[p] = rows
       /\ \A x \in DOMAIN orders \ {p} : orders'[x] = orders[x]
       /\ DOMAIN orders' = DOMAIN orders
  BY <1>3, <1>9, <1>10 DEF UploadsSound
<1>16. asked' \in [Posts -> Nat] /\ \A x \in Posts : asked[x] <= asked'[x]
  BY <1>13 DEF UploadsSound
<1>17. DOMAIN owner' = DOMAIN orders' /\ raced \ {p} \subseteq raced'
  BY <1>11, <1>13, <1>15 DEF UploadsSound
<1>18. p \notin raced' => /\ \A i \in DOMAIN rows : rows[i] \in {0, i}
                          /\ Len(rows) <= asked'[p]
  BY <1>12, <1>13
<1> QED
  BY <1>5, <1>9, <1>14, <1>15, <1>16, <1>17, <1>18, RowsOfOnePost

LEMMA EmptyRows ==
  ASSUME UploadsSound, NEW p \in Posts, orders' \in [DOMAIN orders \cup {p} -> Seq(Nat)],
         orders'[p] = <<>>, \A x \in DOMAIN orders \ {p} : orders'[x] = orders[x],
         DOMAIN owner' = DOMAIN orders', raced \ {p} \subseteq raced',
         UNCHANGED <<asked, uploading>>
  PROVE  UploadsSound'
<1>1. PICK rows \in Seq(Nat) : rows = <<>>
  OBVIOUS
<1>2. asked' \in [Posts -> Nat] /\ \A x \in Posts : asked[x] <= asked'[x]
  BY DEF UploadsSound
<1>3. (\A i \in DOMAIN rows : rows[i] \in {0, i}) /\ Len(rows) <= asked'[p]
  BY <1>1, <1>2
<1>4. DOMAIN uploading' = Requests /\ \A x \in Requests : uploading'[x] \in {uploading[x], U!Idle}
  BY DEF UploadsSound
<1> QED
  BY <1>1, <1>2, <1>3, <1>4, RowsOfOnePost

LEMMA MediaPostMade ==
  ASSUME UploadsSound, NEW p \in Posts, NEW u, U!create(p, u)
  PROVE  UploadsSound'
<1>1. orders' = U!With(orders, p, <<>>) /\ owner' = U!With(owner, p, u)
  BY DEF U!create
<1>2. p \notin DOMAIN orders
  BY DEF U!create, UploadsSound
<1>3. /\ DOMAIN orders' = DOMAIN orders \cup {p} /\ orders'[p] = <<>>
      /\ \A x \in DOMAIN orders \ {p} : orders'[x] = orders[x]
      /\ DOMAIN owner' = DOMAIN orders' /\ orders' = [x \in DOMAIN orders' |-> orders'[x]]
  BY <1>1, <1>2 DEF U!With, UploadsSound
<1>4. ASSUME NEW x \in DOMAIN orders' PROVE orders'[x] \in Seq(Nat)
  <2>1. CASE x = p
    <3>1. <<>> \in Seq(Nat)
      OBVIOUS
    <3> QED
      BY <1>3, <2>1, <3>1
  <2>2. CASE x # p
    BY <1>3, <2>2 DEF UploadsSound
  <2> QED
    BY <2>1, <2>2
<1>5. orders' \in [DOMAIN orders \cup {p} -> Seq(Nat)]
  BY <1>3, <1>4
<1> QED
  BY <1>3, <1>5, EmptyRows DEF U!create

LEMMA ClearMediaStep ==
  ASSUME UploadsSound, NEW p \in Posts, U!clearMedia(p)
  PROVE  UploadsSound'
<1>1. orders' = [orders EXCEPT ![p] = <<>>] /\ p \in DOMAIN orders
  BY DEF U!clearMedia, U!exists, UploadsSound
<1>2. orders' \in [DOMAIN orders \cup {p} -> Seq(Nat)] /\ orders'[p] = <<>>
  <2>1. PICK none : none = <<>> /\ none \in Seq(Nat)
    <3>1. <<>> \in Seq(Nat)
      OBVIOUS
    <3> QED
      BY <3>1
  <2>2. orders' = [orders EXCEPT ![p] = none]
    BY <1>1, <2>1
  <2> QED
    BY <1>1, <2>1, <2>2 DEF UploadsSound
<1>3. \A x \in DOMAIN orders \ {p} : orders'[x] = orders[x]
  BY <1>1
<1>4. DOMAIN owner' = DOMAIN orders' /\ raced \ {p} \subseteq raced'
  BY <1>1 DEF U!clearMedia, UploadsSound
<1> QED
  BY <1>2, <1>3, <1>4, EmptyRows DEF U!clearMedia

LEMMA AddMediaStep ==
  ASSUME UploadsSound, NEW p \in Posts, NEW n \in 1..MaxNamed, U!addMedia(p, n)
  PROVE  UploadsSound'
<1>1. n \in Nat /\ p \in DOMAIN orders /\ orders[p] \in Seq(Nat) /\ asked[p] \in Nat
  BY UploadsAssumption DEF U!addMedia, U!exists, UploadsSound
<1>2. PICK added : added = [i \in 1..n |-> 0]
  OBVIOUS
<1>3. added \in Seq(Nat) /\ Len(added) = n /\ \A i \in 1..n : added[i] = 0
  BY <1>1, <1>2
<1>4. PICK rows : rows = orders[p] \o added
  OBVIOUS
<1>5. rows \in Seq(Nat) /\ (orders[p] = <<>> => rows = added)
  BY <1>1, <1>3, <1>4
<1>6. orders' = [orders EXCEPT ![p] = rows]
  BY <1>2, <1>4 DEF U!addMedia
<1>7. raced' = raced \cup (IF orders[p] = <<>> THEN {} ELSE {p})
  BY DEF U!addMedia
<1>8. asked' = [asked EXCEPT ![p] = IF n > @ THEN n ELSE @]
  BY DEF U!addMedia
<1>9. asked' \in [Posts -> Nat] /\ n <= asked'[p] /\ \A x \in Posts : asked[x] <= asked'[x]
  BY <1>1, <1>8 DEF UploadsSound
<1>10. p \notin raced' => (\A i \in DOMAIN rows : rows[i] \in {0, i}) /\ Len(rows) <= asked'[p]
  BY <1>3, <1>5, <1>7, <1>9
<1>11. /\ orders' \in [DOMAIN orders \cup {p} -> Seq(Nat)] /\ orders'[p] = rows
       /\ \A x \in DOMAIN orders \ {p} : orders'[x] = orders[x]
       /\ DOMAIN owner' = DOMAIN orders'
  BY <1>1, <1>5, <1>6 DEF UploadsSound, U!addMedia
<1>12. DOMAIN uploading' = Requests /\ \A x \in Requests : uploading'[x] \in {uploading[x], U!Idle}
  BY DEF UploadsSound, U!addMedia
<1>13. raced \ {p} \subseteq raced'
  BY <1>7
<1> QED
  BY <1>5, <1>9, <1>10, <1>11, <1>12, <1>13, RowsOfOnePost

LEMMA MediaPostGone ==
  ASSUME UploadsSound, NEW p \in Posts, U!delete(p)
  PROVE  UploadsSound'
<1>1. orders' = U!Without(orders, {p}) /\ owner' = U!Without(owner, {p}) /\ raced' = raced \ {p}
  BY DEF U!delete
<1>2. /\ DOMAIN orders' = DOMAIN orders \ {p} /\ DOMAIN owner' = DOMAIN orders'
      /\ \A x \in DOMAIN orders' : orders'[x] = orders[x]
  BY <1>1 DEF U!Without, U!Restrict, UploadsSound
<1>3. IsFiniteSet(DOMAIN orders')
  BY <1>2, FS_Subset DEF UploadsSound
<1>4. UNCHANGED <<asked, uploading>>
  BY DEF U!delete
<1>5. \A x \in DOMAIN orders' \ raced' : Numbered(x)'
  BY <1>1, <1>2, <1>4 DEF UploadsSound, Numbered
<1>6. \A q \in Requests : UploadSound(uploading[q])'
  BY <1>4 DEF UploadsSound, UploadSound
<1> QED
  BY <1>2, <1>3, <1>4, <1>5, <1>6 DEF UploadsSound

LEMMA UploadsNext ==
  ASSUME UploadsSound, U!Next
  PROVE  UploadsSound'
BY UploadHandlers, CheckLimitStep, SaveManyStep, UploadFails, MediaPostMade, ClearMediaStep,
   AddMediaStep, MediaPostGone
   DEF U!Next

(* A page of the rows is not empty when there are rows.                    *)
LEMMA UploadsRead ==
  ASSUME UploadsSound
  PROVE  U!NumberedInOrder
<1>1. IsFiniteSet(U!AllRows)
  <2>1. ASSUME NEW p \in DOMAIN orders PROVE IsFiniteSet({p} \X DOMAIN orders[p])
    <3>1. PICK n \in Nat : DOMAIN orders[p] = 1..n
      BY DEF UploadsSound
    <3>2. IsFiniteSet(1..n)
      BY FS_Interval
    <3>3. IsFiniteSet({p})
      BY FS_Singleton
    <3> QED
      BY <3>1, <3>2, <3>3, FS_Product
  <2> DEFINE X == {{p} \X DOMAIN orders[p] : p \in DOMAIN orders}
             f == [p \in DOMAIN orders |-> {p} \X DOMAIN orders[p]]
  <2>2. IsFiniteSet(X)
    <3>1. IsFiniteSet(DOMAIN orders)
      BY DEF UploadsSound
    <3>2. f \in Surjection(DOMAIN orders, X)
      BY DEF Surjection
    <3> QED
      BY <3>1, <3>2, FS_Surjection DEF ExistsSurjection
  <2>3. \A x \in X : IsFiniteSet(x)
    BY <2>1
  <2> HIDE DEF X, f
  <2>4. IsFiniteSet(UNION X)
    BY <2>2, <2>3, FS_UNION
  <2> QED
    BY <2>4 DEF U!AllRows, X
<1>2. ASSUME NEW p \in DOMAIN orders, NEW i \in DOMAIN orders[p]
      PROVE  /\ U!findOne(p, i) = "error" /\ ~U!findByPostId(p)
             /\ ~U!findAll([page |-> 1, limit |-> DefaultLimit]).loads
  <2>1. <<p, i>> \in U!AllRows
    BY DEF U!AllRows
  <2>2. U!findById(p, i) = {<<p, i>>}
    BY <2>1 DEF U!findById
  <2>3. U!findOne(p, i) = "error"
    BY <2>2 DEF U!findOne, U!fromPersistence
  <2>4. ~U!findByPostId(p)
    BY DEF U!findByPostId, U!fromPersistence
  <2>5. PICK total : total = U!Cardinality(U!AllRows)
    OBVIOUS
  <2>6. total \in Nat \ {0}
    BY <1>1, <2>1, <2>5, FS_CardinalityType, FS_EmptySet, SameCardinality
  <2>7. PICK last : last = IF 1 * DefaultLimit < total THEN 1 * DefaultLimit ELSE total
    OBVIOUS
  <2>8. 1 \in ((1 - 1) * DefaultLimit + 1)..last
    BY <2>6, <2>7, UploadsAssumption
  <2>9. U!findAll([page |-> 1, limit |-> DefaultLimit]).loads
          = (((1 - 1) * DefaultLimit + 1)..last = {})
    BY <2>5, <2>7 DEF U!findAll, U!findWithPagination, U!fromPersistence
  <2> QED
    BY <2>3, <2>4, <2>8, <2>9
<1>3. ASSUME NEW p \in DOMAIN orders, orders[p] # <<>> PROVE 1 \in DOMAIN orders[p]
  <2>1. orders[p] \in Seq(Nat)
    BY DEF UploadsSound
  <2> QED
    BY <1>3, <2>1
<1>4. \A p \in DOMAIN orders \ raced : Numbered(p)
  BY DEF UploadsSound
<1> QED
  BY <1>2, <1>3, <1>4 DEF U!NumberedInOrder, Numbered

-----------------------------------------------------------------------------
(* Search histories.  What is saved, and what any request is about to      *)
(* save, is a list that has nobody twice, not its owner, and not too many. *)
OneEach(entries) ==
  /\ entries \in Seq(Searched)
  /\ \A i, j \in 1..Len(entries) : entries[i] = entries[j] => i = j
  /\ \A i \in 1..Len(entries) : entries[i] # Self
  /\ Len(entries) <= MAX_ENTRIES

SearchesSound ==
  /\ OneEach(history.entries)
  /\ DOMAIN searching = Requests
  /\ \A q \in Requests : searching[q].pc = "save" => OneEach(searching[q].entries)

(* A sequence that has nothing twice, without one element.                 *)
Distinct(s) == \A i, j \in 1..Len(s) : s[i] = s[j] => i = j

Lacks(t, s, e) ==
  /\ Len(t) <= Len(s)
  /\ \A i \in 1..Len(t) : t[i] # e
  /\ \A i \in 1..Len(t) : \E j \in 1..Len(s) : t[i] = s[j]
  /\ \A j \in 1..Len(s) : s[j] # e => \E i \in 1..Len(t) : t[i] = s[j]

LEMMA RemovedOnce ==
  ASSUME NEW X, NEW s \in Seq(X), NEW e, Distinct(s), NEW t, t = S!RemoveFirst(s, e)
  PROVE  t \in Seq(X) /\ Distinct(t) /\ Lacks(t, s, e)
<1> USE DEF Distinct
<1>1. CASE \A i \in 1..Len(s) : s[i] # e
  <2>1. t = s
    BY <1>1 DEF S!RemoveFirst
  <2> QED
    BY <1>1, <2>1 DEF Lacks
<1>2. CASE \E i \in 1..Len(s) : s[i] = e
  <2>1. PICK i \in 1..Len(s) : s[i] = e
    BY <1>2
  <2>2. {j \in 1..Len(s) : s[j] = e} = {i}
    BY <2>1
  <2>3. S!Min({i}) = i
    BY DEF S!Min
  <2>4. PICK k \in 1..Len(s) : s[k] = e /\ t = S!RemoveAt(s, k)
    BY <2>1, <2>2, <2>3 DEF S!RemoveFirst, S!SelectInSeq
  <2>5. t = SubSeq(s, 1, k - 1) \o SubSeq(s, k + 1, Len(s))
    BY <2>4 DEF S!RemoveAt
  <2>6. LET r == SubSeq(s, 1, k - 1) \o SubSeq(s, k + 1, Len(s)) IN
          /\ r \in Seq(X) /\ Len(r) = Len(s) - 1
          /\ \A m \in 1..Len(r) : (m < k => r[m] = s[m]) /\ (m >= k => r[m] = s[m + 1])
    BY <2>4, RemovedAt, Zenon
  <2>7. /\ t \in Seq(X) /\ Len(t) = Len(s) - 1
        /\ \A m \in 1..Len(t) : (m < k => t[m] = s[m]) /\ (m >= k => t[m] = s[m + 1])
    BY <2>5, <2>6, Zenon
  <2>8. Len(s) \in Nat /\ Len(t) \in Nat /\ k \in Nat /\ Len(t) = Len(s) - 1 /\ k <= Len(s)
    BY <2>7
  <2> DEFINE g(m) == IF m < k THEN m ELSE m + 1
  <2>9. \A m \in 1..Len(t) : g(m) \in 1..Len(s) /\ g(m) # k /\ t[m] = s[g(m)]
    BY <2>7, <2>8
  <2>10. ASSUME NEW m \in 1..Len(t), NEW n \in 1..Len(t), t[m] = t[n] PROVE m = n
    <3>1. g(m) = g(n)
      BY <2>9, <2>10
    <3> QED
      BY <2>8, <3>1
  <2>11. \A m \in 1..Len(t) : t[m] # e
    BY <2>4, <2>9
  <2>12. ASSUME NEW j \in 1..Len(s), s[j] # e PROVE \E m \in 1..Len(t) : t[m] = s[j]
    <3>1. CASE j < k
      <4>1. j \in 1..Len(t) /\ g(j) = j
        BY <2>7, <2>8, <3>1
      <4> QED
        BY <2>9, <4>1
    <3>2. CASE j > k
      <4>1. j - 1 \in 1..Len(t) /\ g(j - 1) = j
        BY <2>7, <2>8, <3>2
      <4> QED
        BY <2>9, <4>1
    <3>3. j # k
      BY <2>4, <2>12
    <3> QED
      BY <2>8, <3>1, <3>2, <3>3
  <2>13. Len(t) <= Len(s)
    BY <2>8
  <2>14. \A m \in 1..Len(t) : \E j \in 1..Len(s) : t[m] = s[j]
    BY <2>9
  <2> QED
    BY <2>7, <2>10, <2>11, <2>12, <2>13, <2>14 DEF Lacks
<1> QED
  BY <1>1, <1>2

(* Whoever is searched for comes first, and the last may have to go.       *)
LEMMA AddedOnce ==
  ASSUME NEW entries, OneEach(entries), NEW u \in Searched, u # Self
  PROVE  OneEach(S!addEntry(entries, u))
<1>1. PICK t : t = S!RemoveFirst(entries, u)
  OBVIOUS
<1>2. /\ t \in Seq(Searched) /\ Len(t) <= Len(entries)
      /\ \A i, j \in 1..Len(t) : t[i] = t[j] => i = j
      /\ \A i \in 1..Len(t) : t[i] # u
      /\ \A i \in 1..Len(t) : \E j \in 1..Len(entries) : t[i] = entries[j]
  <2>1. entries \in Seq(Searched) /\ Distinct(entries)
    BY DEF OneEach, Distinct
  <2>2. t \in Seq(Searched) /\ Distinct(t) /\ Lacks(t, entries, u)
    BY <1>1, <2>1, RemovedOnce, Zenon
  <2> QED
    BY <2>2 DEF Distinct, Lacks
<1>3. PICK longer : longer = <<u>> \o t
  OBVIOUS
<1>4. <<u>> \in Seq(Searched) /\ Len(<<u>>) = 1 /\ <<u>>[1] = u
  OBVIOUS
<1>5. longer \in Seq(Searched) /\ Len(longer) = 1 + Len(t)
  BY <1>2, <1>3, <1>4, Joined
<1>6. Len(t) \in Nat /\ Len(entries) \in Nat /\ Len(t) <= MAX_ENTRIES
  BY <1>2, EntriesAssumption DEF OneEach
<1>7. \A k \in 1..Len(longer) : /\ k <= 1 => longer[k] = u
                                /\ k > 1 => longer[k] = t[k - 1]
  <2>1. \A k \in 1..Len(longer) : /\ k <= 1 => longer[k] = <<u>>[k]
                                  /\ k > 1 => longer[k] = t[k - 1]
    BY <1>2, <1>3, <1>4, Joined
  <2> QED
    BY <1>5, <1>6, <2>1
<1>8. \A k \in 1..Len(longer) : k > 1 => k - 1 \in 1..Len(t)
  BY <1>5, <1>6
<1>9. ASSUME NEW i \in 1..Len(longer), NEW j \in 1..Len(longer), longer[i] = longer[j]
      PROVE  i = j
  <2>1. CASE i = 1 /\ j = 1
    BY <2>1
  <2>2. CASE i > 1 /\ j > 1
    <3>1. t[i - 1] = t[j - 1] /\ i - 1 \in 1..Len(t) /\ j - 1 \in 1..Len(t)
      BY <1>7, <1>8, <1>9, <2>2
    <3>2. i - 1 = j - 1
      BY <1>2, <3>1
    <3> QED
      BY <3>2
  <2>3. CASE i = 1 /\ j > 1
    BY <1>2, <1>7, <1>8, <1>9, <2>3
  <2>4. CASE i > 1 /\ j = 1
    BY <1>2, <1>7, <1>8, <1>9, <2>4
  <2> QED
    BY <2>1, <2>2, <2>3, <2>4
<1>10. \A i \in 1..Len(longer) : longer[i] # Self
  <2>1. \A i \in 1..Len(t) : t[i] # Self
    BY <1>2 DEF OneEach
  <2>2. ASSUME NEW i \in 1..Len(longer) PROVE i = 1 \/ i > 1
    OBVIOUS
  <2> QED
    BY <1>7, <1>8, <2>1, <2>2
<1>11. CASE Len(longer) <= MAX_ENTRIES
  <2>1. S!addEntry(entries, u) = longer
    BY <1>1, <1>3, <1>5, <1>6, <1>11, EntriesAssumption DEF S!addEntry, S!addNewEntry
  <2> QED
    BY <1>5, <1>9, <1>10, <1>11, <2>1 DEF OneEach
<1>12. CASE Len(longer) > MAX_ENTRIES
  <2>1. S!addEntry(entries, u) = SubSeq(longer, 1, Len(longer) - 1)
    BY <1>1, <1>3, <1>12 DEF S!addEntry, S!addNewEntry, S!Front
  <2>2. PICK front : front = SubSeq(longer, 1, Len(longer) - 1)
    OBVIOUS
  <2>3. front \in Seq(Searched) /\ Len(front) = Len(longer) - 1
    BY <1>5, <1>6, <2>2
  <2>4. \A k \in 1..(Len(longer) - 1) : front[k] = longer[k] /\ k \in 1..Len(longer)
    BY <1>5, <1>6, <2>2
  <2>5. Len(front) <= MAX_ENTRIES
    BY <1>5, <1>6, <2>3, EntriesAssumption
  <2>6. \A i, j \in 1..Len(front) : front[i] = front[j] => i = j
    BY <1>9, <2>3, <2>4
  <2>7. \A i \in 1..Len(front) : front[i] # Self
    BY <1>10, <2>3, <2>4
  <2> QED
    BY <2>1, <2>2, <2>3, <2>5, <2>6, <2>7 DEF OneEach
<1> QED
  BY <1>5, <1>6, <1>11, <1>12, EntriesAssumption

LEMMA StillOnce ==
  ASSUME NEW entries, OneEach(entries), NEW u
  PROVE  OneEach(S!removeEntry(entries, u))
<1>1. PICK t : t = S!RemoveFirst(entries, u)
  OBVIOUS
<1>2. /\ t \in Seq(Searched) /\ Len(t) <= Len(entries)
      /\ \A i, j \in 1..Len(t) : t[i] = t[j] => i = j
      /\ \A i \in 1..Len(t) : \E j \in 1..Len(entries) : t[i] = entries[j]
  <2>1. entries \in Seq(Searched) /\ Distinct(entries)
    BY DEF OneEach, Distinct
  <2>2. t \in Seq(Searched) /\ Distinct(t) /\ Lacks(t, entries, u)
    BY <1>1, <2>1, RemovedOnce, Zenon
  <2> QED
    BY <2>2 DEF Distinct, Lacks
<1>3. Len(t) <= MAX_ENTRIES
  <2>1. Len(t) \in Nat /\ Len(entries) \in Nat /\ Len(entries) <= MAX_ENTRIES
    BY <1>2 DEF OneEach
  <2> QED
    BY <1>2, <2>1, EntriesAssumption
<1>4. \A i \in 1..Len(t) : t[i] # Self
  BY <1>2 DEF OneEach
<1> QED
  BY <1>1, <1>2, <1>3, <1>4 DEF OneEach, S!removeEntry

LEMMA NoEntries == OneEach(<<>>)
  BY EntriesAssumption DEF OneEach

LEMMA SearchesInit == S!Init => SearchesSound
  BY NoEntries DEF S!Init, S!Absent, S!Idle, SearchesSound

LEMMA SearchesNext ==
  ASSUME SearchesSound, S!Next
  PROVE  SearchesSound'
<1>1. PICK q \in Requests : S!SearchHistoryController(q) \/ S!save(q) \/ S!fail(q)
  BY DEF S!Next
<1>2. ASSUME NEW entries, OneEach(entries), S!Load(q, entries)
      PROVE  SearchesSound'
  <2>1. PICK r : r = [pc |-> "save", entries |-> entries]
    OBVIOUS
  <2>2. searching' = [searching EXCEPT ![q] = r] /\ r.entries = entries
    BY <1>2, <2>1 DEF S!Load
  <2>3. \A p \in Requests : searching'[p] = r \/ searching'[p] = searching[p]
    BY <2>2 DEF SearchesSound
  <2>4. \A p \in Requests : searching'[p].pc = "save" => OneEach(searching'[p].entries)
    BY <1>2, <2>2, <2>3 DEF SearchesSound
  <2>5. OneEach(history'.entries)
    BY <1>2 DEF S!Load, SearchesSound
  <2> QED
    BY <2>2, <2>4, <2>5 DEF SearchesSound
<1>3. ASSUME NEW u \in Searched, S!addToSearchHistory(q, u) PROVE SearchesSound'
  BY <1>2, <1>3, AddedOnce DEF S!addToSearchHistory, SearchesSound
<1>4. ASSUME NEW u \in Searched, S!removeFromSearchHistory(q, u) PROVE SearchesSound'
  BY <1>2, <1>4, StillOnce DEF S!removeFromSearchHistory, SearchesSound
<1>5. CASE S!clearSearchHistory(q)
  BY <1>2, <1>5, NoEntries DEF S!clearSearchHistory
<1>6. CASE S!save(q)
  BY <1>6 DEF S!save, S!Idle, SearchesSound, OneEach
<1>7. CASE S!fail(q)
  BY <1>7 DEF S!fail, S!Idle, SearchesSound, OneEach
<1> QED
  BY <1>1, <1>3, <1>4, <1>5, <1>6, <1>7 DEF S!SearchHistoryController

LEMMA SearchesListed ==
  ASSUME SearchesSound
  PROVE  S!ListsEachOnce
<1>1. DOMAIN history.entries = 1..Len(history.entries) /\ OneEach(history.entries)
  BY DEF SearchesSound, OneEach
<1> QED
  BY <1>1 DEF OneEach, S!ListsEachOnce, S!getSearchHistory, S!IsInjective, S!Range

-----------------------------------------------------------------------------
(* Pages of messages.  The cursors so far are messages, each below the one *)
(* before, and a reader who came to the end saw what is below all of them. *)
Walk(w) ==
  /\ DOMAIN w = {"open", "cursors", "shown", "stayed", "negative"} /\ w.negative \in BOOLEAN
  /\ w.cursors \in Seq(MessageIds)
  /\ \A i \in 2..Len(w.cursors) : w.cursors[i] < w.cursors[i - 1]
  /\ w.open => w.cursors # <<>>
  /\ ~w.open /\ ~w.negative =>
       \A m \in w.stayed \ w.shown : \E i \in 1..Len(w.cursors) : w.cursors[i] <= m

PagesSound ==
  /\ sent \in Seq(MessageIds)
  /\ \A i, j \in 1..Len(sent) : sent[i] = sent[j] => i = j
  /\ \A i \in 1..Len(sent) : sent[i] \in drawn
  /\ Walk(walk)
  /\ \A m \in walk.stayed : \E i \in 1..Len(sent) : sent[i] = m

(* A page: its cursor is of a message below the cursor it was asked for,   *)
(* and if it has none, it shows all there are below that, unless a negative*)
(* number was asked for.                                                   *)
LEMMA PageFound ==
  ASSUME PagesSound, NEW cursor, NEW limit \in Int \ {0}
  PROVE  LET page == M!findByConversationIdPaginated([limit |-> limit, cursor |-> cursor]) IN
           /\ page.nextCursor # M!NoCursor =>
                \E i \in M!Below(cursor) : page.nextCursor = sent[i]
           /\ page.nextCursor = M!NoCursor /\ limit > 0 =>
                \A i \in M!Below(cursor) : sent[i] \in page.messages
<1>1. PICK n \in Nat : n = Len(sent) /\ DOMAIN sent = 1..n
  BY DEF PagesSound
<1>2. PICK found : found = M!Below(cursor)
  OBVIOUS
<1>3. found \subseteq 1..n
  BY <1>1, <1>2 DEF M!Below
<1>4. IsFiniteSet(found)
  <2>1. IsFiniteSet(1..n)
    BY FS_Interval
  <2> QED
    BY <1>3, <2>1, FS_Subset
<1>5. PICK page : /\ page = IF limit > 0 THEN M!latest(found, limit) ELSE M!oldest(found, limit)
                  /\ page \subseteq found
  BY DEF M!latest, M!oldest
<1>6. PICK result : result = M!findByConversationIdPaginated([limit |-> limit, cursor |-> cursor])
  OBVIOUS
<1>7. /\ result.messages = {sent[i] : i \in page}
      /\ result.nextCursor = IF M!Cardinality(found) > limit /\ page # {}
                               THEN sent[M!Max(page)] ELSE M!NoCursor
  BY <1>2, <1>5, <1>6 DEF M!findByConversationIdPaginated
<1>8. ASSUME page # {} PROVE M!Max(page) \in found
  <2>1. \E x \in page : \A y \in page : x >= y
    BY <1>3, <1>5, <1>8, HasGreatest
  <2> QED
    BY <1>5, <2>1 DEF M!Max
<1>9. ASSUME result.nextCursor # M!NoCursor
      PROVE  \E i \in found : result.nextCursor = sent[i]
  BY <1>7, <1>8, <1>9
<1>10. ASSUME result.nextCursor = M!NoCursor, limit > 0, NEW i \in found
       PROVE  sent[i] \in result.messages
  <2>1. page = {k \in found : M!Cardinality({j \in found : j < k}) < limit}
    BY <1>5, <1>10 DEF M!latest
  <2>2. PICK x \in found : \A y \in found : x <= y
    <3>1. found \subseteq Nat /\ found # {}
      BY <1>3, <1>10
    <3> QED
      BY <3>1, HasSmallest
  <2>3. {j \in found : j < x} = {}
    <3>1. \A j \in found : j \in Nat /\ ~(j < x)
      BY <1>3, <2>2
    <3> QED
      BY <3>1
  <2>4. M!Cardinality({j \in found : j < x}) = 0
    BY <2>3, SameCardinality, FS_EmptySet
  <2>5. page # {}
    BY <1>10, <2>1, <2>4
  <2>6. sent[M!Max(page)] # M!NoCursor
    BY <1>1, <1>3, <1>8, <2>5, MessageIdsAssumption DEF PagesSound, M!NoCursor
  <2>7. ~(M!Cardinality(found) > limit)
    BY <1>7, <1>10, <2>5, <2>6
  <2>8. PICK X : X = {j \in found : j < i}
    OBVIOUS
  <2>9. X \subseteq found \ {i}
    BY <1>3, <2>8
  <2>10. IsFiniteSet(found \ {i}) /\ Cardinality(found \ {i}) = Cardinality(found) - 1
    BY <1>4, <1>10, FS_RemoveElement
  <2>11. Cardinality(X) <= Cardinality(found \ {i}) /\ IsFiniteSet(X)
    BY <2>9, <2>10, FS_Subset
  <2>12. Cardinality(X) \in Nat /\ Cardinality(found) \in Nat
    BY <1>4, <2>11, FS_CardinalityType
  <2>13. Cardinality(found) <= limit
    BY <2>7, <2>12, SameCardinality
  <2>14. Cardinality(X) < limit
    BY <2>10, <2>11, <2>12, <2>13
  <2> QED
    BY <1>7, <1>10, <2>1, <2>8, <2>14, SameCardinality
<1> QED
  BY <1>2, <1>6, <1>9, <1>10

(* A walk goes on with a page, which may be its first.                     *)
LEMMA PageShown ==
  ASSUME PagesSound, NEW cursor, NEW limit \in Int \ {0}, NEW before, Walk(before),
         cursor = M!NoCursor => before = M!NoWalk,
         cursor # M!NoCursor => /\ before = walk /\ walk.open
                                /\ cursor = walk.cursors[Len(walk.cursors)],
         M!getConversationMessages([limit |-> limit, cursor |-> cursor], before)
  PROVE  PagesSound'
<1>1. PICK query : query = [limit |-> limit, cursor |-> cursor]
  OBVIOUS
<1>2. PICK page : page = M!findByConversationIdPaginated(query)
  OBVIOUS
<1>3. /\ page.nextCursor # M!NoCursor => \E i \in M!Below(cursor) : page.nextCursor = sent[i]
      /\ page.nextCursor = M!NoCursor /\ limit > 0 =>
           \A i \in M!Below(cursor) : sent[i] \in page.messages
  BY <1>1, <1>2, PageFound
<1>4. walk' = M!Shown(before, query, page) /\ UNCHANGED <<sent, drawn>>
  BY <1>1, <1>2 DEF M!getConversationMessages
<1>5. query.cursor = cursor /\ query.limit = limit
  BY <1>1
<1>6. /\ DOMAIN walk' = {"open", "cursors", "shown", "stayed", "negative"}
      /\ walk'.negative = (before.negative \/ limit < 0)
      /\ walk'.open = (page.nextCursor # M!NoCursor)
      /\ walk'.cursors = IF page.nextCursor = M!NoCursor THEN before.cursors
                         ELSE Append(before.cursors, page.nextCursor)
      /\ walk'.shown = before.shown \cup page.messages
      /\ walk'.stayed = IF cursor = M!NoCursor THEN M!Range(sent) ELSE before.stayed
  BY <1>4, <1>5 DEF M!Shown
<1>7. DOMAIN sent = 1..Len(sent) /\ \A i \in 1..Len(sent) : sent[i] \in Nat \ {0}
  <2>1. sent \in Seq(MessageIds)
    BY DEF PagesSound
  <2>2. DOMAIN sent = 1..Len(sent) /\ \A i \in 1..Len(sent) : sent[i] \in MessageIds
    BY <2>1
  <2> QED
    BY <2>2, MessageIdsAssumption
<1>8. \A m \in walk'.stayed : \E i \in 1..Len(sent) : sent[i] = m
  BY <1>6, <1>7 DEF PagesSound, M!Range
<1>9. \A i \in M!Below(cursor) : /\ i \in 1..Len(sent) /\ sent[i] \in MessageIds
                                 /\ cursor # M!NoCursor => sent[i] < cursor
  BY <1>7 DEF M!Below, PagesSound
<1>10. \A i \in 1..Len(sent) : i \notin M!Below(cursor) => cursor # M!NoCursor /\ cursor <= sent[i]
  <2>1. cursor # M!NoCursor => cursor \in Nat
    <3>1. ASSUME cursor # M!NoCursor PROVE cursor \in MessageIds
      <4>1. Walk(walk) /\ Len(walk.cursors) \in 1..Len(walk.cursors)
        BY <3>1 DEF Walk, PagesSound
      <4> QED
        BY <3>1, <4>1 DEF Walk
    <3> QED
      BY <3>1, MessageIdsAssumption
  <2> QED
    BY <1>7, <2>1 DEF M!Below
<1>11. CASE page.nextCursor # M!NoCursor
  <2>1. PICK next \in MessageIds : /\ next = page.nextCursor
                                   /\ cursor # M!NoCursor => next < cursor
    BY <1>3, <1>9, <1>11
  <2>2. PICK cursors \in Seq(MessageIds) : cursors = before.cursors
    BY DEF Walk
  <2>3. PICK longer : longer = Append(cursors, next)
    OBVIOUS
  <2>4. /\ longer \in Seq(MessageIds) /\ Len(longer) = Len(cursors) + 1
        /\ longer[Len(longer)] = next /\ \A i \in 1..Len(cursors) : longer[i] = cursors[i]
    BY <2>3
  <2>5. Len(cursors) \in Nat
    OBVIOUS
  <2>6. Len(cursors) > 0 => cursor # M!NoCursor /\ cursor = cursors[Len(cursors)]
    BY <2>2 DEF M!NoWalk
  <2>7. \A i \in 2..Len(longer) : longer[i] < longer[i - 1]
    <3>1. ASSUME NEW i \in 2..Len(longer), i <= Len(cursors) PROVE longer[i] < longer[i - 1]
      <4>1. i \in 2..Len(cursors) /\ i \in 1..Len(cursors) /\ i - 1 \in 1..Len(cursors)
        BY <2>5, <3>1
      <4>2. cursors[i] < cursors[i - 1]
        BY <2>2, <4>1 DEF Walk
      <4> QED
        BY <2>4, <4>1, <4>2
    <3>2. ASSUME NEW i \in 2..Len(longer), i > Len(cursors) PROVE longer[i] < longer[i - 1]
      <4>1. i = Len(longer) /\ i - 1 = Len(cursors) /\ Len(cursors) \in 1..Len(cursors)
        BY <2>4, <2>5, <3>2
      <4> QED
        BY <2>1, <2>4, <2>6, <4>1
    <3> QED
      BY <2>5, <3>1, <3>2
  <2>8. longer # <<>>
    BY <2>4, <2>5
  <2>9. Walk(walk')
    BY <1>6, <1>11, <2>1, <2>2, <2>3, <2>4, <2>7, <2>8 DEF Walk
  <2> QED
    BY <1>4, <1>8, <2>9 DEF PagesSound
<1>12. CASE page.nextCursor = M!NoCursor
  <2>1. ASSUME ~walk'.negative, NEW m \in walk'.stayed \ walk'.shown
        PROVE  \E i \in 1..Len(before.cursors) : before.cursors[i] <= m
    <3>1. PICK i \in 1..Len(sent) : sent[i] = m
      BY <1>8
    <3>2. i \notin M!Below(cursor)
      <4>1. ~(limit < 0)
        BY <1>6, <2>1
      <4>2. limit > 0
        BY <4>1
      <4> QED
        BY <1>3, <1>6, <1>12, <2>1, <3>1, <4>2
    <3>3. cursor # M!NoCursor /\ cursor <= m
      BY <1>10, <3>1, <3>2
    <3>4. before = walk /\ cursor = before.cursors[Len(before.cursors)]
      BY <3>3
    <3>5. Len(before.cursors) \in 1..Len(before.cursors)
      BY <3>3, <3>4 DEF Walk
    <3> QED
      BY <3>3, <3>4, <3>5
  <2>2. Walk(walk')
    BY <1>6, <1>12, <2>1 DEF Walk
  <2> QED
    BY <1>4, <1>8, <2>2 DEF PagesSound
<1> QED
  BY <1>11, <1>12

LEMMA NoWalkSound == Walk(M!NoWalk)
  BY DEF Walk, M!NoWalk

LEMMA PagesInit == M!Init => PagesSound
  BY NoWalkSound DEF M!Init, M!NoWalk, PagesSound

LEMMA SameRemoval ==
  ASSUME NEW s, NEW e
  PROVE  M!RemoveFirst(s, e) = S!RemoveFirst(s, e)
  BY DEF M!RemoveFirst, S!RemoveFirst, M!RemoveAt, S!RemoveAt, M!SelectInSeq, S!SelectInSeq,
         M!Min, S!Min

LEMMA PagesNext ==
  ASSUME PagesSound, M!Next
  PROVE  PagesSound'
<1>1. ASSUME M!getMessages PROVE PagesSound'
  <2>1. PICK query \in M!GetMessagesQueryDto :
          /\ walk.open /\ query.cursor = M!Last(walk.cursors)
          /\ M!getConversationMessages(query, walk)
    BY <1>1 DEF M!getMessages
  <2>2. query = [limit |-> query.limit, cursor |-> query.cursor]
    BY DEF M!GetMessagesQueryDto
  <2>3. query.limit \in Int \ {0}
    <3>1. query.limit \in Limits \cup {DefaultLimit}
      BY DEF M!GetMessagesQueryDto
    <3>2. PICK limit \in Limits \cup {DefaultLimit} : limit = query.limit
      BY <3>1
    <3>3. limit \in Int \ {0}
      BY MessageLimitsAssumption, UploadsAssumption
    <3> QED
      BY <3>2, <3>3
  <2>4. query.cursor = walk.cursors[Len(walk.cursors)]
    BY <2>1 DEF M!Last
  <2>5. query.cursor # M!NoCursor
    <3>1. Len(walk.cursors) \in 1..Len(walk.cursors) /\ walk.cursors \in Seq(MessageIds)
      BY <2>1 DEF PagesSound, Walk
    <3>2. query.cursor \in MessageIds
      BY <2>4, <3>1
    <3> QED
      BY <3>2, MessageIdsAssumption DEF M!NoCursor
  <2>6. PICK limit, cursor : limit = query.limit /\ cursor = query.cursor
    OBVIOUS
  <2>7. M!getConversationMessages([limit |-> limit, cursor |-> cursor], walk)
    BY <2>1, <2>2, <2>6
  <2>8. Walk(walk)
    BY DEF PagesSound
  <2> QED
    BY <2>1, <2>3, <2>4, <2>5, <2>6, <2>7, <2>8, PageShown
<1>2. ASSUME M!getWithMessages PROVE PagesSound'
  <2>1. PICK limit \in Limits \cup {DefaultLimit} :
          M!getConversationMessages([limit |-> limit, cursor |-> M!NoCursor], M!NoWalk)
    BY <1>2 DEF M!getWithMessages, M!getConversationWithMessages
  <2>2. limit \in Int \ {0}
    BY MessageLimitsAssumption, UploadsAssumption
  <2> QED
    BY <2>1, <2>2, NoWalkSound, PageShown
<1>3. ASSUME M!refused PROVE PagesSound'
  BY <1>3, NoWalkSound DEF M!refused, PagesSound, M!NoWalk
<1>4. ASSUME M!send PROVE PagesSound'
  <2>1. PICK m \in MessageIds \ drawn : sent' = <<m>> \o sent /\ drawn' = drawn \cup {m}
    BY <1>4 DEF M!send
  <2>2. <<m>> \in Seq(MessageIds) /\ Len(<<m>>) = 1 /\ <<m>>[1] = m /\ sent \in Seq(MessageIds)
    BY DEF PagesSound
  <2>3. sent' \in Seq(MessageIds) /\ Len(sent') = 1 + Len(sent)
    BY <2>1, <2>2, Joined
  <2>4. Len(sent) \in Nat
    BY <2>2
  <2>5. \A k \in 1..Len(sent') : /\ k <= 1 => sent'[k] = m
                                 /\ k > 1 => sent'[k] = sent[k - 1]
    <3>1. \A k \in 1..Len(sent') : /\ k <= 1 => sent'[k] = <<m>>[k]
                                   /\ k > 1 => sent'[k] = sent[k - 1]
      BY <2>1, <2>2, Joined
    <3> QED
      BY <2>2, <2>3, <2>4, <3>1
  <2>6. \A k \in 1..Len(sent') : k = 1 \/ (k > 1 /\ k - 1 \in 1..Len(sent))
    BY <2>3, <2>4
  <2>7. \A k \in 1..Len(sent) : k + 1 \in 1..Len(sent') /\ k + 1 > 1 /\ (k + 1) - 1 = k
    BY <2>3, <2>4
  <2>8. \A k \in 1..Len(sent) : sent[k] \in drawn
    BY DEF PagesSound
  <2>9. ASSUME NEW i \in 1..Len(sent'), NEW j \in 1..Len(sent'), sent'[i] = sent'[j]
        PROVE  i = j
    <3>1. CASE i = 1 /\ j = 1
      BY <3>1
    <3>2. CASE i > 1 /\ j > 1
      <4>1. sent[i - 1] = sent[j - 1] /\ i - 1 \in 1..Len(sent) /\ j - 1 \in 1..Len(sent)
        BY <2>5, <2>6, <2>9, <3>2
      <4>2. i - 1 = j - 1
        BY <4>1 DEF PagesSound
      <4> QED
        BY <4>2
    <3>3. CASE i = 1 /\ j > 1
      BY <2>1, <2>5, <2>6, <2>8, <2>9, <3>3
    <3>4. CASE i > 1 /\ j = 1
      BY <2>1, <2>5, <2>6, <2>8, <2>9, <3>4
    <3> QED
      BY <2>6, <3>1, <3>2, <3>3, <3>4
  <2>10. \A i \in 1..Len(sent') : sent'[i] \in drawn'
    BY <2>1, <2>5, <2>6, <2>8
  <2>11. walk' = walk
    BY <1>4 DEF M!send
  <2>12. \A x \in walk.stayed : \E i \in 1..Len(sent') : sent'[i] = x
    <3>1. ASSUME NEW x \in walk.stayed PROVE \E i \in 1..Len(sent') : sent'[i] = x
      <4>1. PICK i \in 1..Len(sent) : sent[i] = x
        BY DEF PagesSound
      <4> QED
        BY <2>5, <2>7, <4>1
    <3> QED
      BY <3>1
  <2> QED
    BY <2>3, <2>9, <2>10, <2>11, <2>12 DEF PagesSound
<1>5. ASSUME M!delete PROVE PagesSound'
  <2>1. PICK m : sent' = M!RemoveFirst(sent, m) /\ walk' = [walk EXCEPT !.stayed = @ \ {m}]
    BY <1>5 DEF M!delete
  <2>2. sent' = S!RemoveFirst(sent, m)
    BY <2>1, SameRemoval
  <2>3. sent \in Seq(MessageIds) /\ Distinct(sent)
    BY DEF PagesSound, Distinct
  <2>4. /\ sent' \in Seq(MessageIds)
        /\ \A i, j \in 1..Len(sent') : sent'[i] = sent'[j] => i = j
        /\ \A i \in 1..Len(sent') : \E j \in 1..Len(sent) : sent'[i] = sent[j]
        /\ \A j \in 1..Len(sent) : sent[j] # m => \E i \in 1..Len(sent') : sent'[i] = sent[j]
    <3>1. PICK t : t = sent'
      OBVIOUS
    <3>2. t \in Seq(MessageIds) /\ Distinct(t) /\ Lacks(t, sent, m)
      BY <2>2, <2>3, <3>1, RemovedOnce, Zenon
    <3> QED
      BY <3>1, <3>2 DEF Distinct, Lacks
  <2>5. PICK stayed : stayed = walk.stayed \ {m}
    OBVIOUS
  <2>6. /\ DOMAIN walk' = DOMAIN walk /\ walk'.open = walk.open /\ walk'.cursors = walk.cursors
        /\ walk'.shown = walk.shown /\ walk'.stayed = stayed
        /\ walk'.negative = walk.negative
    BY <2>1, <2>5 DEF PagesSound, Walk
  <2>7. Walk(walk')
    BY <2>5, <2>6 DEF PagesSound, Walk
  <2>8. ASSUME NEW x \in walk'.stayed PROVE \E i \in 1..Len(sent') : sent'[i] = x
    <3>1. PICK j \in 1..Len(sent) : sent[j] = x /\ x # m
      BY <2>5, <2>6, <2>8 DEF PagesSound
    <3> QED
      BY <2>4, <3>1
  <2>9. drawn' = drawn
    BY <1>5 DEF M!delete
  <2>10. \A i \in 1..Len(sent') : sent'[i] \in drawn'
    BY <2>4, <2>9 DEF PagesSound
  <2> QED
    BY <2>4, <2>7, <2>8, <2>10 DEF PagesSound
<1>6. ASSUME M!joinOrLeave PROVE PagesSound'
  BY <1>6 DEF M!joinOrLeave, PagesSound
<1> QED
  BY <1>1, <1>2, <1>3, <1>4, <1>5, <1>6 DEF M!Next

LEMMA PagesEnd ==
  ASSUME PagesSound
  PROVE  M!PagesExplained
<1>1. Walk(walk) /\ DOMAIN walk.cursors = 1..Len(walk.cursors)
  BY DEF PagesSound, Walk
<1> QED
  BY <1>1 DEF Walk, M!PagesExplained, M!Range

-----------------------------------------------------------------------------
(* Pages of posts.  Every post is stored as public, whatever was asked.    *)
TimelineSound ==
  /\ created \in Nat /\ IsFiniteSet(timeline)
  /\ \A p \in timeline : p.id \in 1..created /\ p.privacy = "PUBLIC"
  /\ \A x, y \in timeline : x.id = y.id => x = y

(* A visit shows posts as they are, and ids are not used again.            *)
VisitSound ==
  /\ visit.pc \in {"none", "query", "page", "done"}
  /\ visit.pc = "none" => visit = P!NoVisit
  /\ visit.pc # "none" =>
       /\ DOMAIN visit = {"pc", "query", "page", "found", "total",
                          "shown", "stayed", "removed", "between"}
       /\ visit.page \in Nat \ {0} /\ visit.query.limit \in Nat \ {0}
       /\ \A p \in visit.shown :
            /\ p.id \in 1..created
            /\ \A x \in timeline : x.id = p.id => P!mapToResponseDto(x) = p
       /\ \A f \in visit.found : \A p \in f :
            /\ p.id \in 1..created /\ p.privacy = "PUBLIC"
            /\ \A x \in timeline : x.id = p.id => x = p

(* A post that was shown, or that is on this page or a later one.          *)
Due(v, p) ==
  LET ahead == P!Ahead(v.query, p) IN
  \/ P!mapToResponseDto(p) \in v.shown
  \/ v.pc = "query" /\ v.found = {} /\ ahead >= (v.page - 1) * v.query.limit
  \/ v.pc = "query" /\ v.found # {} /\ (\A f \in v.found : p \in f)
  \/ v.pc = "query" /\ v.found # {} /\ ahead >= v.page * v.query.limit
  \/ v.pc = "page" /\ ahead >= v.page * v.query.limit

(* While nothing is deleted, and nothing created between the two queries   *)
(* of a page, every post of the first page's time was shown or is due.     *)
NothingMissed ==
  visit.pc # "none" /\ ~visit.removed /\ ~visit.between =>
    /\ \A id \in visit.stayed : \E p \in P!Wanted(visit.query) : p.id = id /\ Due(visit, p)
    /\ visit.pc = "query" => \A n \in visit.total : n = P!Cardinality(P!Wanted(visit.query))

PostsSound == TimelineSound /\ VisitSound /\ NothingMissed

(* Fewer posts are ahead of one that is wanted than are wanted.            *)
LEMMA AheadBounded ==
  ASSUME TimelineSound, NEW query, NEW p \in P!Wanted(query)
  PROVE  /\ p \in timeline
         /\ P!Ahead(query, p) \in Nat /\ P!Cardinality(P!Wanted(query)) \in Nat
         /\ P!Ahead(query, p) < P!Cardinality(P!Wanted(query))
<1>1. PICK all : all = P!Wanted(query)
  OBVIOUS
<1>2. all \subseteq timeline
  BY <1>1 DEF P!Wanted, P!getUserFeed, P!findAll
<1>3. IsFiniteSet(all)
  BY <1>2, FS_Subset DEF TimelineSound
<1>4. PICK ahead : ahead = {x \in all : P!orderBy(query, x, p)}
  OBVIOUS
<1>5. ~P!orderBy(query, p, p)
  <2>1. p.id \in Nat
    BY <1>1, <1>2 DEF TimelineSound
  <2> QED
    BY <2>1 DEF P!orderBy
<1>6. ahead \subseteq all \ {p}
  BY <1>4, <1>5
<1>7. IsFiniteSet(all \ {p}) /\ Cardinality(all \ {p}) = Cardinality(all) - 1
  BY <1>1, <1>3, FS_RemoveElement
<1>8. IsFiniteSet(ahead) /\ Cardinality(ahead) <= Cardinality(all \ {p})
  BY <1>6, <1>7, FS_Subset
<1>9. Cardinality(ahead) \in Nat /\ Cardinality(all) \in Nat
  BY <1>3, <1>8, FS_CardinalityType
<1>10. P!Ahead(query, p) = Cardinality(ahead)
  BY <1>1, <1>4, SameCardinality DEF P!Ahead
<1> QED
  BY <1>1, <1>2, <1>7, <1>8, <1>9, <1>10, SameCardinality

(* Posts that are created push the others back.                            *)
LEMMA AheadGrows ==
  ASSUME TimelineSound, TimelineSound', timeline \subseteq timeline',
         NEW query, NEW p \in P!Wanted(query)
  PROVE  /\ p \in P!Wanted(query)'
         /\ P!Ahead(query, p)' \in Nat /\ P!Ahead(query, p) <= P!Ahead(query, p)'
<1>1. PICK all, more : all = P!Wanted(query) /\ more = P!Wanted(query)'
  OBVIOUS
<1>2. all \subseteq more /\ more \subseteq timeline'
  BY <1>1 DEF P!Wanted, P!getUserFeed, P!findAll
<1>3. IsFiniteSet(more)
  BY <1>2, FS_Subset DEF TimelineSound
<1>4. PICK X, Y : /\ X = {x \in all : P!orderBy(query, x, p)}
                  /\ Y = {x \in more : P!orderBy(query, x, p)}
  OBVIOUS
<1>5. X \subseteq Y /\ Y \subseteq more
  BY <1>2, <1>4
<1>6. IsFiniteSet(Y)
  BY <1>3, <1>5, FS_Subset
<1>7. Cardinality(Y) \in Nat /\ Cardinality(X) <= Cardinality(Y)
  BY <1>5, <1>6, FS_Subset, FS_CardinalityType
<1>8. P!Ahead(query, p) = Cardinality(X)
  BY <1>1, <1>4, SameCardinality DEF P!Ahead
<1>9. P!Ahead(query, p)' = Cardinality(Y)
  BY <1>1, <1>4, SameCardinality DEF P!Ahead, P!orderBy
<1> QED
  BY <1>1, <1>2, <1>7, <1>8, <1>9

LEMMA PostsInit == P!Init => PostsSound
  BY FS_EmptySet DEF P!Init, P!NoVisit, PostsSound, TimelineSound, VisitSound, NothingMissed

(* Creating a post: it has a new id.                                       *)
LEMMA CreatePostStep ==
  ASSUME PostsSound, NEW u, P!createPost(u)
  PROVE  PostsSound'
<1>1. PICK dto, new :
        /\ dto \in P!CreatePostRequestDto
        /\ new = [id |-> created + 1, author |-> P!CurrentUser(P!JwtUser(u), "id"),
                  asked |-> dto.privacy, privacy |-> P!mapPrivacyToApplicationEnum(dto.privacy)]
        /\ timeline' = timeline \cup {new}
  BY DEF P!createPost
<1>2. new.id = created + 1 /\ new.privacy = "PUBLIC"
  <2>1. dto.privacy \notin {"private", "followers"}
    BY <1>1, PostsAssumption DEF P!CreatePostRequestDto
  <2> QED
    BY <1>1, <2>1 DEF P!mapPrivacyToApplicationEnum
<1>3. created \in Nat /\ created' = created + 1
  BY DEF PostsSound, TimelineSound, P!createPost
<1>4. TimelineSound'
  <2>1. IsFiniteSet(timeline')
    BY <1>1, FS_AddElement DEF PostsSound, TimelineSound
  <2>2. \A p \in timeline : p.id \in 1..created /\ p.privacy = "PUBLIC"
    BY DEF PostsSound, TimelineSound
  <2>3. \A p \in timeline' : p.id \in 1..created' /\ p.privacy = "PUBLIC"
    BY <1>1, <1>2, <1>3, <2>2
  <2>4. ASSUME NEW x \in timeline', NEW y \in timeline', x.id = y.id PROVE x = y
    <3>1. \A p \in timeline : p.id # new.id
      BY <1>2, <1>3, <2>2
    <3> QED
      BY <1>1, <2>4, <3>1 DEF PostsSound, TimelineSound
  <2> QED
    BY <1>3, <2>1, <2>3, <2>4 DEF TimelineSound
<1>5. CASE visit.pc # "query"
  <2>1. visit' = visit
    BY <1>5 DEF P!createPost
  <2>2. VisitSound'
    BY <1>1, <1>2, <1>3, <2>1 DEF PostsSound, VisitSound
  <2>3. NothingMissed'
    <3>1. SUFFICES ASSUME visit.pc = "page" \/ visit.pc = "done", ~visit.removed, ~visit.between,
                          NEW id \in visit.stayed
                   PROVE  \E p \in P!Wanted(visit.query)' : p.id = id /\ Due(visit, p)'
      BY <1>5, <2>1 DEF NothingMissed, PostsSound, VisitSound
    <3>2. PICK query : query = visit.query
      OBVIOUS
    <3>3. PICK p \in P!Wanted(query) : p.id = id /\ Due(visit, p)
      BY <3>1, <3>2 DEF PostsSound, NothingMissed
    <3>4. /\ p \in P!Wanted(query)'
          /\ P!Ahead(query, p)' \in Nat /\ P!Ahead(query, p) <= P!Ahead(query, p)'
      BY <1>1, <1>4, AheadGrows DEF PostsSound
    <3>5. P!Ahead(query, p) \in Nat
      BY AheadBounded DEF PostsSound
    <3>6. visit.page * query.limit \in Nat
      BY <3>1, <3>2 DEF PostsSound, VisitSound
    <3>7. P!Ahead(query, p) >= visit.page * query.limit =>
            P!Ahead(query, p)' >= visit.page * query.limit
      BY <3>4, <3>5, <3>6
    <3>8. Due(visit, p)'
      BY <1>5, <2>1, <3>2, <3>3, <3>7 DEF Due
    <3> QED
      BY <2>1, <3>2, <3>3, <3>4, <3>8
  <2> QED
    BY <1>4, <2>2, <2>3 DEF PostsSound
<1>6. CASE visit.pc = "query"
  <2>1. PICK between : between = (visit.between \/ visit.total # {} \/ visit.found # {})
    OBVIOUS
  <2>2. visit' = [visit EXCEPT !.between = between]
    BY <1>6, <2>1 DEF P!createPost
  <2>3. /\ DOMAIN visit' = DOMAIN visit /\ visit'.pc = visit.pc /\ visit'.query = visit.query
        /\ visit'.page = visit.page /\ visit'.found = visit.found /\ visit'.total = visit.total
        /\ visit'.shown = visit.shown /\ visit'.stayed = visit.stayed
        /\ visit'.removed = visit.removed /\ visit'.between = between
    BY <1>6, <2>2 DEF PostsSound, VisitSound
  <2>4. VisitSound'
    BY <1>1, <1>2, <1>3, <1>6, <2>3 DEF PostsSound, VisitSound
  <2>5. NothingMissed'
    <3>1. SUFFICES ASSUME ~visit.removed, ~visit.between, visit.total = {}, visit.found = {},
                          NEW id \in visit.stayed
                   PROVE  \E p \in P!Wanted(visit.query)' : p.id = id /\ Due(visit, p)'
      BY <1>6, <2>1, <2>3 DEF NothingMissed
    <3>2. PICK query, page : query = visit.query /\ page = visit.page
      OBVIOUS
    <3>3. PICK p \in P!Wanted(query) : p.id = id /\ Due(visit, p)
      BY <1>6, <3>1, <3>2 DEF PostsSound, NothingMissed
    <3>4. /\ p \in P!Wanted(query)'
          /\ P!Ahead(query, p)' \in Nat /\ P!Ahead(query, p) <= P!Ahead(query, p)'
      BY <1>1, <1>4, AheadGrows DEF PostsSound
    <3>5. P!Ahead(query, p) \in Nat
      BY AheadBounded DEF PostsSound
    <3>6. (page - 1) * query.limit \in Nat
      BY <1>6, <3>2 DEF PostsSound, VisitSound
    <3>7. P!Ahead(query, p) >= (page - 1) * query.limit =>
            P!Ahead(query, p)' >= (page - 1) * query.limit
      BY <3>4, <3>5, <3>6
    <3>8. Due(visit, p)'
      BY <1>6, <2>3, <3>1, <3>2, <3>3, <3>7 DEF Due
    <3> QED
      BY <2>3, <3>2, <3>3, <3>4, <3>8
  <2> QED
    BY <1>4, <2>4, <2>5 DEF PostsSound
<1> QED
  BY <1>5, <1>6

(* A post goes, and the visit says so.                                     *)
LEMMA DeletePostStep ==
  ASSUME PostsSound, NEW u, P!deletePost(u)
  PROVE  PostsSound'
<1>1. PICK post : timeline' = timeline \ {post}
  BY DEF P!deletePost, P!deleteById
<1>2. created' = created
  BY DEF P!deletePost
<1>3. TimelineSound'
  BY <1>1, <1>2, FS_Subset DEF PostsSound, TimelineSound
<1>4. CASE visit = P!NoVisit
  <2>1. visit' = visit /\ visit.pc = "none"
    BY <1>4 DEF P!deletePost, P!NoVisit
  <2> QED
    BY <1>3, <1>4, <2>1 DEF PostsSound, VisitSound, NothingMissed
<1>5. CASE visit # P!NoVisit
  <2>1. PICK true \in BOOLEAN : true = TRUE
    OBVIOUS
  <2>2. visit' = [visit EXCEPT !.removed = true]
    BY <1>5, <2>1 DEF P!deletePost
  <2>3. /\ DOMAIN visit' = DOMAIN visit /\ visit'.pc = visit.pc /\ visit'.query = visit.query
        /\ visit'.page = visit.page /\ visit'.found = visit.found /\ visit'.total = visit.total
        /\ visit'.shown = visit.shown /\ visit'.stayed = visit.stayed /\ visit'.removed
    BY <1>5, <2>1, <2>2 DEF PostsSound, VisitSound
  <2>4. VisitSound'
    BY <1>1, <1>2, <1>5, <2>3 DEF PostsSound, VisitSound
  <2>5. NothingMissed'
    BY <2>3 DEF NothingMissed
  <2> QED
    BY <1>3, <2>4, <2>5 DEF PostsSound
<1> QED
  BY <1>4, <1>5

(* A page begins, when as much is ahead of what is due as was shown.       *)
LEMMA AskStep ==
  ASSUME PostsSound, NEW query, NEW page \in Nat \ {0}, NEW before, query.limit \in Nat \ {0},
         P!Ask(query, page, before), UNCHANGED <<timeline, created>>,
         \A p \in before.shown : /\ p.id \in 1..created
                                 /\ \A x \in timeline : x.id = p.id => P!mapToResponseDto(x) = p,
         ~before.removed /\ ~before.between =>
           \A id \in before.stayed : \E p \in P!Wanted(query) :
             /\ p.id = id
             /\ \/ P!mapToResponseDto(p) \in before.shown
                \/ P!Ahead(query, p) >= (page - 1) * query.limit
  PROVE  PostsSound'
<1>1. PICK v : v = [pc |-> "query", query |-> query, page |-> page, found |-> {}, total |-> {},
                    shown |-> before.shown, stayed |-> before.stayed,
                    removed |-> before.removed, between |-> before.between]
  OBVIOUS
<1>2. visit' = v
  BY <1>1 DEF P!Ask
<1>3. /\ DOMAIN v = {"pc", "query", "page", "found", "total",
                     "shown", "stayed", "removed", "between"}
      /\ v.pc = "query" /\ v.query = query /\ v.page = page /\ v.found = {} /\ v.total = {}
      /\ v.shown = before.shown /\ v.stayed = before.stayed
      /\ v.removed = before.removed /\ v.between = before.between
  BY <1>1
<1>4. TimelineSound'
  BY DEF PostsSound, TimelineSound
<1>5. VisitSound'
  BY <1>2, <1>3 DEF VisitSound
<1>6. \A p : P!Ahead(query, p)' = P!Ahead(query, p)
  BY DEF P!Ahead, P!Wanted, P!getUserFeed, P!findAll, P!orderBy
<1>7. P!Wanted(query)' = P!Wanted(query)
  BY DEF P!Wanted, P!getUserFeed, P!findAll
<1>8. ASSUME ~before.removed, ~before.between, NEW id \in before.stayed
      PROVE  \E p \in P!Wanted(query)' : p.id = id /\ Due(visit, p)'
  <2>1. PICK p \in P!Wanted(query) : /\ p.id = id
                                     /\ \/ P!mapToResponseDto(p) \in before.shown
                                        \/ P!Ahead(query, p) >= (page - 1) * query.limit
    BY <1>8
  <2>2. Due(visit, p)'
    BY <1>2, <1>3, <1>6, <2>1 DEF Due
  <2> QED
    BY <1>7, <2>1, <2>2
<1>9. NothingMissed'
  BY <1>2, <1>3, <1>8 DEF NothingMissed
<1> QED
  BY <1>4, <1>5, <1>9 DEF PostsSound

(* The first page: nothing was shown, and nothing missed.                  *)
LEMMA FreshStep ==
  ASSUME PostsSound, NEW query, query.limit \in Nat \ {0}, P!Ask(query, 1, P!Fresh(query)),
         UNCHANGED <<timeline, created>>
  PROVE  PostsSound'
<1>1. PICK before : before = P!Fresh(query)
  OBVIOUS
<1>2. before.shown = {} /\ before.stayed = {p.id : p \in P!Wanted(query)}
  BY <1>1 DEF P!Fresh
<1>3. ASSUME NEW id \in before.stayed
      PROVE  \E p \in P!Wanted(query) : p.id = id /\ P!Ahead(query, p) >= (1 - 1) * query.limit
  <2>1. PICK p \in P!Wanted(query) : p.id = id
    BY <1>2
  <2>2. P!Ahead(query, p) \in Nat
    BY AheadBounded DEF PostsSound
  <2>3. (1 - 1) * query.limit = 0
    OBVIOUS
  <2> QED
    BY <2>1, <2>2, <2>3
<1>4. PICK page \in Nat \ {0} : page = 1
  OBVIOUS
<1>5. \A p \in before.shown : /\ p.id \in 1..created
                              /\ \A x \in timeline : x.id = p.id => P!mapToResponseDto(x) = p
  BY <1>2
<1>6. ~before.removed /\ ~before.between =>
        \A id \in before.stayed : \E p \in P!Wanted(query) :
          /\ p.id = id
          /\ \/ P!mapToResponseDto(p) \in before.shown
             \/ P!Ahead(query, p) >= (page - 1) * query.limit
  BY <1>3, <1>4
<1> QED
  BY <1>1, <1>4, <1>5, <1>6, AskStep

LEMMA NextPageStep ==
  ASSUME PostsSound, P!nextPage
  PROVE  PostsSound'
<1>1. PICK v : v = visit
  OBVIOUS
<1>2. /\ v.pc = "page" /\ P!Ask(v.query, v.page + 1, v) /\ UNCHANGED <<timeline, created>>
      /\ v.page \in Nat \ {0} /\ v.query.limit \in Nat \ {0}
  BY <1>1 DEF P!nextPage, PostsSound, VisitSound
<1>3. \A p \in v.shown : /\ p.id \in 1..created
                         /\ \A x \in timeline : x.id = p.id => P!mapToResponseDto(x) = p
  BY <1>1, <1>2 DEF PostsSound, VisitSound
<1>4. ASSUME ~v.removed, ~v.between, NEW id \in v.stayed
      PROVE  \E p \in P!Wanted(v.query) :
               /\ p.id = id
               /\ \/ P!mapToResponseDto(p) \in v.shown
                  \/ P!Ahead(v.query, p) >= ((v.page + 1) - 1) * v.query.limit
  <2>1. PICK p \in P!Wanted(v.query) : p.id = id /\ Due(v, p)
    BY <1>1, <1>2, <1>4 DEF PostsSound, NothingMissed
  <2>2. (v.page + 1) - 1 = v.page
    BY <1>2
  <2> QED
    BY <1>2, <2>1, <2>2 DEF Due
<1>5. PICK page \in Nat \ {0} : page = v.page + 1
  BY <1>2
<1> QED
  BY <1>2, <1>3, <1>4, <1>5, AskStep

(* A page takes from what is due the posts that have less than it ahead.   *)
LEMMA FindManyStep ==
  ASSUME PostsSound, P!findMany
  PROVE  PostsSound'
<1>1. PICK v, page : v = visit /\ page = P!PageOf(v.query, v.page)
  OBVIOUS
<1>2. PICK found : found = {page}
  OBVIOUS
<1>3. /\ v.pc = "query" /\ v.found = {} /\ UNCHANGED <<timeline, created>>
      /\ visit' = [v EXCEPT !.found = found]
  BY <1>1, <1>2 DEF P!findMany
<1>4. /\ DOMAIN visit' = DOMAIN v /\ visit'.pc = v.pc /\ visit'.query = v.query
      /\ visit'.page = v.page /\ visit'.found = found /\ visit'.total = v.total
      /\ visit'.shown = v.shown /\ visit'.stayed = v.stayed
      /\ visit'.removed = v.removed /\ visit'.between = v.between
  BY <1>1, <1>3 DEF PostsSound, VisitSound
<1>5. TimelineSound'
  BY <1>3 DEF PostsSound, TimelineSound
<1>6. page \subseteq timeline
  BY <1>1 DEF P!PageOf, P!Wanted, P!getUserFeed, P!findAll
<1>7. \A p \in page : /\ p.id \in 1..created /\ p.privacy = "PUBLIC"
                      /\ \A x \in timeline : x.id = p.id => x = p
  BY <1>6 DEF PostsSound, TimelineSound
<1>8. VisitSound'
  BY <1>1, <1>2, <1>3, <1>4, <1>7 DEF PostsSound, VisitSound
<1>9. \A p : P!Ahead(v.query, p)' = P!Ahead(v.query, p)
  BY <1>1, <1>3, <1>4 DEF P!Ahead, P!Wanted, P!getUserFeed, P!findAll, P!orderBy
<1>10. P!Wanted(v.query)' = P!Wanted(v.query)
  BY <1>1, <1>3, <1>4 DEF P!Wanted, P!getUserFeed, P!findAll
<1>11. ASSUME NEW p \in P!Wanted(v.query), Due(v, p)
       PROVE  Due(visit, p)'
  <2>1. PICK ahead \in Nat, n \in Nat \ {0}, limit \in Nat \ {0} :
          ahead = P!Ahead(v.query, p) /\ n = v.page /\ limit = v.query.limit
    BY <1>1, <1>3, AheadBounded DEF PostsSound, VisitSound
  <2>2. \/ P!mapToResponseDto(p) \in v.shown
        \/ ahead >= (n - 1) * limit
    BY <1>3, <1>11, <2>1 DEF Due
  <2>3. (n - 1) * limit \in Nat /\ n * limit \in Nat
    BY <2>1
  <2>4. \/ ahead >= n * limit \/ ahead < (n - 1) * limit
        \/ ahead \in ((n - 1) * limit)..(n * limit - 1)
    BY <2>3
  <2>5. ahead \in ((n - 1) * limit)..(n * limit - 1) => p \in page
    BY <1>1, <2>1 DEF P!PageOf
  <2>6. P!Ahead(visit.query, p)' = ahead /\ (visit.page * visit.query.limit)' = n * limit
    BY <1>4, <1>9, <2>1
  <2> QED
    BY <1>2, <1>3, <1>4, <2>2, <2>3, <2>4, <2>5, <2>6 DEF Due
<1>12. NothingMissed'
  BY <1>1, <1>3, <1>4, <1>10, <1>11, SameCardinality DEF PostsSound, NothingMissed
<1> QED
  BY <1>5, <1>8, <1>12 DEF PostsSound

LEMMA CountStep ==
  ASSUME PostsSound, P!count
  PROVE  PostsSound'
<1>1. PICK v, total : v = visit /\ total = {P!Cardinality(P!Wanted(v.query))}
  OBVIOUS
<1>2. /\ v.pc = "query" /\ UNCHANGED <<timeline, created>>
      /\ visit' = [v EXCEPT !.total = total]
  BY <1>1 DEF P!count
<1>3. /\ DOMAIN visit' = DOMAIN v /\ visit'.pc = v.pc /\ visit'.query = v.query
      /\ visit'.page = v.page /\ visit'.found = v.found /\ visit'.total = total
      /\ visit'.shown = v.shown /\ visit'.stayed = v.stayed
      /\ visit'.removed = v.removed /\ visit'.between = v.between
  BY <1>1, <1>2 DEF PostsSound, VisitSound
<1>4. TimelineSound'
  BY <1>2 DEF PostsSound, TimelineSound
<1>5. VisitSound'
  BY <1>1, <1>2, <1>3 DEF PostsSound, VisitSound
<1>6. \A p : Due(visit, p)' <=> Due(visit, p)
  BY <1>1, <1>2, <1>3 DEF Due, P!Ahead, P!Wanted, P!getUserFeed, P!findAll, P!orderBy
<1>7. P!Wanted(visit.query)' = P!Wanted(visit.query)
  BY <1>1, <1>2, <1>3 DEF P!Wanted, P!getUserFeed, P!findAll
<1>8. NothingMissed'
  BY <1>1, <1>2, <1>3, <1>6, <1>7 DEF PostsSound, NothingMissed
<1> QED
  BY <1>4, <1>5, <1>8 DEF PostsSound

(* The last page: no post has as many ahead as all pages hold.             *)
LEMMA LastPage ==
  ASSUME NEW total \in Nat, NEW limit \in Nat \ {0}, NEW page \in Nat \ {0},
         ~(page < (total + limit - 1) \div limit)
  PROVE  total <= page * limit
<1>1. PICK a \in Nat : a = total + limit - 1
  OBVIOUS
<1>2. PICK q \in Int : q = a \div limit
  OBVIOUS
<1>3. a < limit * (q + 1)
  BY <1>2
<1>4. limit * (q + 1) = limit * q + limit
  OBVIOUS
<1>5. q <= page
  BY <1>1, <1>2
<1>6. limit * q <= limit * page
  BY <1>5
<1> QED
  BY <1>1, <1>3, <1>4, <1>6

(* An answer shows the posts of its page, that are all public, and the     *)
(* reader turns the page as long as there are more than the pages held.    *)
LEMMA AnswerStep ==
  ASSUME PostsSound, P!answer
  PROVE  PostsSound'
<1> PICK v, none : v = visit /\ none = {}
  OBVIOUS
<1> PICK page : page = CHOOSE f \in v.found : TRUE
  OBVIOUS
<1> PICK total : total = CHOOSE n \in v.total : TRUE
  OBVIOUS
<1> PICK pc :
      pc = IF v.page < (total + v.query.limit - 1) \div v.query.limit THEN "page" ELSE "done"
  OBVIOUS
<1> PICK answered : answered = {P!mapToResponseDto(p) : p \in page}
  OBVIOUS
<1> PICK shown : shown = v.shown \cup answered
  OBVIOUS
<1>1. /\ v.pc = "query" /\ page \in v.found /\ total \in v.total
      /\ UNCHANGED <<timeline, created>>
  BY DEF P!answer
<1>2. \A p \in page : /\ p.id \in 1..created /\ p.privacy = "PUBLIC"
                      /\ \A x \in timeline : x.id = p.id => x = p
  BY <1>1 DEF PostsSound, VisitSound
<1>3. visit' = [v EXCEPT !.pc = pc, !.found = none, !.total = none, !.shown = shown]
  <2>1. P!feedPosts(page) = answered
    BY DEF P!feedPosts
  <2>2. P!visiblePosts(page) = answered
    BY <1>2 DEF P!visiblePosts, P!canViewPost
  <2> QED
    BY <2>1, <2>2 DEF P!answer
<1>4. /\ DOMAIN visit' = DOMAIN v /\ visit'.pc = pc /\ visit'.query = v.query
      /\ visit'.page = v.page /\ visit'.found = none /\ visit'.total = none
      /\ visit'.shown = shown /\ visit'.stayed = v.stayed
      /\ visit'.removed = v.removed /\ visit'.between = v.between
  BY <1>1, <1>3 DEF PostsSound, VisitSound
<1>5. TimelineSound'
  BY <1>1 DEF PostsSound, TimelineSound
<1>6. VisitSound'
  <2>1. ASSUME NEW dto \in answered
        PROVE  /\ dto.id \in 1..created
               /\ \A x \in timeline : x.id = dto.id => P!mapToResponseDto(x) = dto
    <3>1. PICK p \in page : dto = P!mapToResponseDto(p)
      OBVIOUS
    <3>2. dto.id = p.id
      BY <3>1 DEF P!mapToResponseDto
    <3> QED
      BY <1>2, <3>1, <3>2
  <2>2. \A dto \in v.shown : /\ dto.id \in 1..created
                             /\ \A x \in timeline : x.id = dto.id => P!mapToResponseDto(x) = dto
    BY <1>1 DEF PostsSound, VisitSound
  <2>3. pc \in {"page", "done"}
    OBVIOUS
  <2>4. /\ DOMAIN v = {"pc", "query", "page", "found", "total",
                       "shown", "stayed", "removed", "between"}
        /\ v.page \in Nat \ {0} /\ v.query.limit \in Nat \ {0}
    BY <1>1 DEF PostsSound, VisitSound
  <2> QED
    BY <1>1, <1>4, <2>1, <2>2, <2>3, <2>4 DEF VisitSound
<1>7. \A p : P!Ahead(v.query, p)' = P!Ahead(v.query, p)
  BY <1>1, <1>4 DEF P!Ahead, P!Wanted, P!getUserFeed, P!findAll, P!orderBy
<1>8. P!Wanted(v.query)' = P!Wanted(v.query)
  BY <1>1, <1>4 DEF P!Wanted, P!getUserFeed, P!findAll
<1>9. ASSUME ~v.removed, ~v.between, NEW p \in P!Wanted(v.query), Due(v, p)
       PROVE  Due(visit, p)'
  <2>1. PICK ahead \in Nat, all \in Nat, n \in Nat \ {0}, limit \in Nat \ {0} :
          /\ ahead = P!Ahead(v.query, p) /\ all = P!Cardinality(P!Wanted(v.query))
          /\ n = v.page /\ limit = v.query.limit
    BY <1>1, AheadBounded DEF PostsSound, VisitSound
  <2>2. ahead < all /\ total = all
    BY <1>1, <1>9, <2>1, AheadBounded DEF PostsSound, NothingMissed
  <2>3. \/ P!mapToResponseDto(p) \in shown
        \/ ahead >= n * limit
    BY <1>1, <1>9, <2>1 DEF Due
  <2>4. pc = "page" \/ all <= n * limit
    BY <2>1, <2>2, LastPage
  <2>5. n * limit \in Nat
    BY <2>1
  <2>6. P!Ahead(visit.query, p)' = ahead /\ (visit.page * visit.query.limit)' = n * limit
    BY <1>4, <1>7, <2>1
  <2> QED
    BY <1>4, <2>2, <2>3, <2>4, <2>5, <2>6 DEF Due
<1>10. NothingMissed'
  BY <1>1, <1>4, <1>8, <1>9 DEF PostsSound, NothingMissed
<1> QED
  BY <1>5, <1>6, <1>10 DEF PostsSound

LEMMA PostsNext == PostsSound /\ P!Next => PostsSound'
<1> SUFFICES ASSUME PostsSound, P!Next PROVE PostsSound'
  OBVIOUS
<1>1. ASSUME NEW u \in Authors, P!createPost(u) PROVE PostsSound'
  BY <1>1, CreatePostStep
<1>2. ASSUME NEW u \in Authors, P!deletePost(u) PROVE PostsSound'
  BY <1>2, DeletePostStep
<1>3. CASE P!getPosts
  <2>1. PICK query \in P!GetPostsQueryDto : P!Ask(query, 1, P!Fresh(query))
    BY <1>3 DEF P!getPosts
  <2>2. query.limit \in Nat \ {0} /\ UNCHANGED <<timeline, created>>
    BY <1>3, <2>1, PostsAssumption DEF P!getPosts, P!GetPostsQueryDto
  <2> QED
    BY <2>1, <2>2, FreshStep
<1>4. CASE P!getFeed
  <2>1. PICK query \in P!GetFeedDto : P!Ask(query, 1, P!Fresh(query))
    BY <1>4 DEF P!getFeed
  <2>2. query.limit \in Nat \ {0} /\ UNCHANGED <<timeline, created>>
    BY <1>4, <2>1, PostsAssumption DEF P!getFeed, P!GetFeedDto
  <2> QED
    BY <2>1, <2>2, FreshStep
<1>5. CASE P!nextPage
  BY <1>5, NextPageStep
<1>6. CASE P!findMany
  BY <1>6, FindManyStep
<1>7. CASE P!count
  BY <1>7, CountStep
<1>8. CASE P!answer
  BY <1>8, AnswerStep
<1>9. CASE P!leave
  <2>1. visit' = P!NoVisit /\ visit'.pc = "none" /\ UNCHANGED <<timeline, created>>
    BY <1>9 DEF P!leave, P!NoVisit
  <2> QED
    BY <2>1 DEF PostsSound, TimelineSound, VisitSound, NothingMissed
<1> QED
  BY <1>1, <1>2, <1>3, <1>4, <1>5, <1>6, <1>7, <1>8, <1>9 DEF P!Next

LEMMA PostsRead ==
  ASSUME PostsSound
  PROVE  P!PostsExplained
<1>1. ASSUME NEW p \in timeline
      PROVE  P!getPost(p.id) = [status |-> 200, body |-> P!mapToResponseDto(p)]
  <2>1. PICK found : found = {post \in timeline : post.id = p.id}
    OBVIOUS
  <2>2. found = {p}
    BY <2>1 DEF PostsSound, TimelineSound
  <2>3. (CHOOSE x \in found : TRUE) = p
    BY <2>2
  <2>4. \A who, b : P!canViewPost(p, who, b)
    BY DEF P!canViewPost, PostsSound, TimelineSound
  <2> QED
    BY <2>1, <2>2, <2>3, <2>4 DEF P!getPost, P!getPostById, P!mapToDetailResponseDto
<1>2. ASSUME visit.pc = "done", ~visit.removed, ~visit.between, NEW id \in visit.stayed
      PROVE  \E p \in visit.shown : P!getPost(id) = [status |-> 200, body |-> p]
  <2>1. PICK p \in P!Wanted(visit.query) : p.id = id /\ Due(visit, p)
    BY <1>2 DEF PostsSound, NothingMissed
  <2>2. p \in timeline
    BY AheadBounded DEF PostsSound
  <2>3. P!mapToResponseDto(p) \in visit.shown
    BY <1>2, <2>1 DEF Due
  <2> QED
    BY <1>1, <2>1, <2>2, <2>3
<1>3. ASSUME visit # P!NoVisit, NEW p \in visit.shown
      PROVE  P!getPost(p.id) \in {[status |-> 200, body |-> p], [status |-> 404]}
  <2>1. CASE \E x \in timeline : x.id = p.id
    <3>1. PICK x \in timeline : x.id = p.id
      BY <2>1
    <3>2. P!mapToResponseDto(x) = p
      BY <1>3, <3>1 DEF PostsSound, VisitSound
    <3> QED
      BY <1>1, <3>1, <3>2
  <2>2. CASE ~\E x \in timeline : x.id = p.id
    <3>1. {post \in timeline : post.id = p.id} = {}
      BY <2>2
    <3> QED
      BY <3>1 DEF P!getPost, P!getPostById
  <2> QED
    BY <2>1, <2>2
<1> QED
  BY <1>2, <1>3 DEF P!PostsExplained

-----------------------------------------------------------------------------
(* The parts together: a step of one leaves the variables of the others.   *)
Parts ==
  /\ AccountsSound
  /\ ReactingSound /\ ReactionsSound
  /\ FollowsSound
  /\ SearchesSound
  /\ PagesSound
  /\ UploadsSound
  /\ PostsSound

LEMMA AccountsUnchanged == AccountsSound /\ UNCHANGED ofAccounts => AccountsSound'
<1> SUFFICES ASSUME AccountsSound, UNCHANGED ofAccounts PROVE AccountsSound'
  OBVIOUS
<1> QED
  BY DEF ofAccounts, AccountsSound, RowSound, RequestSound, CopySound, ChangeSound, VerifySound,
         Mailed, HasPassword

LEMMA FollowsUnchanged == FollowsSound /\ UNCHANGED ofFollows => FollowsSound'
  BY DEF ofFollows, FollowsSound

LEMMA SearchesUnchanged == SearchesSound /\ UNCHANGED ofSearches => SearchesSound'
  BY DEF ofSearches, SearchesSound

LEMMA PagesUnchanged == PagesSound /\ UNCHANGED ofPages => PagesSound'
  BY DEF ofPages, PagesSound, Walk

LEMMA UploadsUnchanged == UploadsSound /\ UNCHANGED ofUploads => UploadsSound'
  BY DEF ofUploads, UploadsSound, UploadSound, Numbered

LEMMA PostsUnchanged == PostsSound /\ UNCHANGED ofPosts => PostsSound'
<1> SUFFICES ASSUME PostsSound, UNCHANGED ofPosts PROVE PostsSound'
  OBVIOUS
<1>1. timeline' = timeline /\ created' = created /\ visit' = visit
  BY DEF ofPosts
<1>2. P!Wanted(visit.query)' = P!Wanted(visit.query)
  BY <1>1 DEF P!Wanted, P!getUserFeed, P!findAll
<1>3. \A p : P!Ahead(visit.query, p)' = P!Ahead(visit.query, p)
  BY <1>1, <1>2 DEF P!Ahead, P!orderBy
<1>4. \A p : Due(visit, p)' <=> Due(visit, p)
  BY <1>1, <1>3 DEF Due
<1>5. NothingMissed'
  BY <1>1, <1>2, <1>4 DEF PostsSound, NothingMissed
<1> QED
  BY <1>1, <1>5 DEF PostsSound, TimelineSound, VisitSound

LEMMA ReactionsPartUnchanged ==
  ReactingSound /\ ReactionsSound /\ UNCHANGED ofReactions => ReactingSound' /\ ReactionsSound'
  BY ReactingUnchanged, ReactionsUnchanged DEF ofReactions

LEMMA PartsInit == Init => Parts
  BY AccountsInit, ReactionsInit, FollowsInit, SearchesInit, PagesInit, UploadsInit, PostsInit
     DEF Init, Parts

LEMMA PartsNext == Parts /\ [Next]_vars => Parts'
<1> SUFFICES ASSUME Parts, [Next]_vars PROVE Parts'
  OBVIOUS
<1>1. AccountsSound'
  <2>1. CASE A!Next
    BY <2>1, AccountsNext DEF Parts
  <2>2. CASE UNCHANGED ofAccounts
    BY <2>2, AccountsUnchanged DEF Parts
  <2> QED
    BY <2>1, <2>2 DEF Next, vars, OfAccounts, OfPosts, OfReactions, OfFollows, OfSearches,
                      OfPages, OfUploads
<1>2. ReactingSound' /\ ReactionsSound'
  <2>1. CASE R!Next
    BY <2>1, ReactionsNext DEF Parts
  <2>2. CASE UNCHANGED ofReactions
    BY <2>2, ReactionsPartUnchanged DEF Parts
  <2> QED
    BY <2>1, <2>2 DEF Next, vars, OfAccounts, OfPosts, OfReactions, OfFollows, OfSearches,
                      OfPages, OfUploads
<1>3. FollowsSound'
  <2>1. CASE F!Next
    BY <2>1, FollowsNext DEF Parts
  <2>2. CASE UNCHANGED ofFollows
    BY <2>2, FollowsUnchanged DEF Parts
  <2> QED
    BY <2>1, <2>2 DEF Next, vars, OfAccounts, OfPosts, OfReactions, OfFollows, OfSearches,
                      OfPages, OfUploads
<1>4. SearchesSound'
  <2>1. CASE S!Next
    BY <2>1, SearchesNext DEF Parts
  <2>2. CASE UNCHANGED ofSearches
    BY <2>2, SearchesUnchanged DEF Parts
  <2> QED
    BY <2>1, <2>2 DEF Next, vars, OfAccounts, OfPosts, OfReactions, OfFollows, OfSearches,
                      OfPages, OfUploads
<1>5. PagesSound'
  <2>1. CASE M!Next
    BY <2>1, PagesNext DEF Parts
  <2>2. CASE UNCHANGED ofPages
    BY <2>2, PagesUnchanged DEF Parts
  <2> QED
    BY <2>1, <2>2 DEF Next, vars, OfAccounts, OfPosts, OfReactions, OfFollows, OfSearches,
                      OfPages, OfUploads
<1>6. UploadsSound'
  <2>1. CASE U!Next
    BY <2>1, UploadsNext DEF Parts
  <2>2. CASE UNCHANGED ofUploads
    BY <2>2, UploadsUnchanged DEF Parts
  <2> QED
    BY <2>1, <2>2 DEF Next, vars, OfAccounts, OfPosts, OfReactions, OfFollows, OfSearches,
                      OfPages, OfUploads
<1>7. PostsSound'
  <2>1. CASE P!Next
    BY <2>1, PostsNext DEF Parts
  <2>2. CASE UNCHANGED ofPosts
    BY <2>2, PostsUnchanged DEF Parts
  <2> QED
    BY <2>1, <2>2 DEF Next, vars, OfAccounts, OfPosts, OfReactions, OfFollows, OfSearches,
                      OfPages, OfUploads
<1> QED
  BY <1>1, <1>2, <1>3, <1>4, <1>5, <1>6, <1>7 DEF Parts

LEMMA AlwaysParts == Spec => []Parts
  BY PartsInit, PartsNext, PTL DEF Spec

(* What was last asked of a user is what the row says, unless a copy that  *)
(* was not current was saved: however the loads and saves of requests mix. *)
THEOREM CurrentSavesKeepUpdates == Spec => []UpdatesKept
<1>1. Parts => UpdatesKept
  BY AccountsKept DEF Parts, UpdatesKept
<1> QED
  BY <1>1, AlwaysParts, PTL

(* No copy of a row that is saved, current or not, verifies an address     *)
(* that neither Google nor a mail had to do with.                          *)
THEOREM NobodyElseVerifies == Spec => []VerifiedByMail
<1>1. Parts => VerifiedByMail
  BY AccountsKept DEF Parts, VerifiedByMail
<1> QED
  BY <1>1, AlwaysParts, PTL

(* The two saves of verifyEmail, with any others between them or after     *)
(* them, leave no verified address without a password.                     *)
THEOREM VerifiedCanLogIn == Spec => []VerifiedHasPassword
<1>1. Parts => VerifiedHasPassword
  BY AccountsKept DEF Parts, VerifiedHasPassword
<1> QED
  BY <1>1, AlwaysParts, PTL

(* The announcements owed are those that requests are about to make.       *)
THEOREM ReactionsAnnounceOnce == Spec => []AnnouncedOnce
<1>1. Parts => AnnouncedOnce
  BY SameCardinality DEF Parts, ReactingSound, Announcing, AnnouncedOnce, R!AnnouncedOnce
<1> QED
  BY <1>1, AlwaysParts, PTL

(* A list of reactions that cannot be shown has a row from the posts       *)
(* module.                                                                 *)
THEOREM ReactionsAreListable == Spec => []UnlistableByPosts
<1>1. Parts => UnlistableByPosts
  BY ReactionsListed DEF Parts, UnlistableByPosts
<1> QED
  BY <1>1, AlwaysParts, PTL

(* There are as many rows as were made and not reported as ended.          *)
THEOREM EveryEndIsARow == Spec => []UnfollowedOnce
<1>1. Parts => UnfollowedOnce
  BY SameCardinality DEF Parts, FollowsSound, UnfollowedOnce, F!UnfollowedOnce
<1> QED
  BY <1>1, AlwaysParts, PTL

(* Nobody is listed twice, in a history, among reactions or followers.     *)
THEOREM NobodyIsListedTwice == Spec => []ListsEachOnce
<1>1. Parts => ListsEachOnce
  BY ReactionsListed, FollowsListed, SearchesListed DEF Parts, ListsEachOnce
<1> QED
  BY <1>1, AlwaysParts, PTL

(* Whatever is sent and deleted while a reader follows the cursors, they   *)
(* descend, and what he missed at the end is not below all of them.        *)
THEOREM PagesEndExplained == Spec => []PagesExplained
<1>1. Parts => PagesExplained
  BY PagesEnd DEF Parts, PagesExplained
<1> QED
  BY <1>1, AlwaysParts, PTL

(* A visit that nothing is deleted in, and nothing created between the two *)
(* queries of a page, ends with every post shown that stayed; and what is  *)
(* shown is what opening the post answers, as long as it is there.         *)
THEOREM PostPagesEndExplained == Spec => []PostsExplained
<1>1. Parts => PostsExplained
  BY PostsRead DEF Parts, PostsExplained
<1> QED
  BY <1>1, AlwaysParts, PTL

(* Media are numbered on, and within the limit, where a number was named,  *)
(* unless a writer overtook.                                               *)
THEOREM MediaNumberedInOrder == Spec => []NumberedInOrder
<1>1. Parts => NumberedInOrder
  BY UploadsRead DEF Parts, NumberedInOrder
<1> QED
  BY <1>1, AlwaysParts, PTL

-----------------------------------------------------------------------------
(* The filters: an answer of 500 or more is to be reported, and what the   *)
(* filter of the upload answers is less.                                   *)
LEMMA FailuresAreReported ==
  ASSUME NEW e \in H!Exceptions
  PROVE  H!buildErrorInfo(e).status >= 500 => H!buildErrorInfo(e).report
<1>1. CASE e.kind = "domain"
  <2>1. e.code \in DOMAIN H!DomainStatus
    BY <1>1 DEF H!Exceptions
  <2>2. H!DomainStatus[e.code] >= 500 => H!DomainSeverity(e.code) = "high"
    BY <2>1 DEF H!DomainStatus, H!DomainSeverity
  <2> QED
    BY <1>1, <2>2 DEF H!buildErrorInfo, H!handleDomainException
<1>2. CASE e.kind = "http"
  BY <1>2 DEF H!buildErrorInfo, H!handleHttpException
<1>3. CASE e.kind = "multer"
  <2>1. e.code \in DOMAIN H!MulterStatus
    BY <1>3 DEF H!Exceptions
  <2>2. ~(H!MulterStatus[e.code] >= 500)
    BY <2>1 DEF H!MulterStatus
  <2> QED
    BY <1>3, <2>2 DEF H!buildErrorInfo, H!handleMulterError
<1>4. CASE e.kind = "prisma"
  BY <1>4 DEF H!buildErrorInfo, H!handlePrismaError
<1>5. CASE e.kind = "jwt"
  <2>1. H!buildErrorInfo(e).status = 401
    BY <1>5 DEF H!buildErrorInfo, H!handleJwtError
  <2> QED
    BY <2>1
<1>6. CASE e.kind = "unknown"
  BY <1>6 DEF H!buildErrorInfo, H!handleUnknownError
<1> QED
  BY <1>1, <1>2, <1>3, <1>4, <1>5, <1>6 DEF H!Exceptions

(* A request is at its guards, in its handler, or has its error reported.  *)
Reporting(r) == r.pc = "report" /\ r.failed

AnsweringSound(r) ==
  \/ r = H!Idle
  \/ r \in [pc : {"guards", "handler"}, handler : H!Handlers]
  \/ r \in [pc : {"report"}, failed : BOOLEAN]

ReportsSound ==
  /\ DOMAIN req = InFlight /\ \A q \in InFlight : AnsweringSound(req[q])
  /\ errors \in Nat /\ reports \in Nat
  /\ IsFiniteSet({q \in InFlight : Reporting(req[q])})
  /\ errors = reports + Cardinality({q \in InFlight : Reporting(req[q])})

LEMMA RequestMoves ==
  ASSUME ReportsSound, NEW q \in InFlight, NEW r, AnsweringSound(r),
         req' = [req EXCEPT ![q] = r]
  PROVE  /\ DOMAIN req' = InFlight /\ \A x \in InFlight : AnsweringSound(req'[x])
         /\ \A x \in InFlight : Reporting(req'[x])
                                  <=> IF x = q THEN Reporting(r) ELSE Reporting(req[x])
BY DEF ReportsSound

(* A request that fails nobody.                                            *)
LEMMA UnfailingStep ==
  ASSUME ReportsSound, NEW q \in InFlight, NEW r, AnsweringSound(r),
         req' = [req EXCEPT ![q] = r], ~Reporting(req[q]), ~Reporting(r),
         errors' = errors, reports' = reports
  PROVE  ReportsSound'
<1>1. {x \in InFlight : Reporting(req'[x])} = {x \in InFlight : Reporting(req[x])}
  BY RequestMoves
<1>2. DOMAIN req' = InFlight /\ \A x \in InFlight : AnsweringSound(req'[x])
  BY RequestMoves
<1> QED
  BY <1>1, <1>2 DEF ReportsSound, AnsweringSound, Reporting

LEMMA FailingStep ==
  ASSUME ReportsSound, NEW q \in InFlight, NEW r, AnsweringSound(r),
         req' = [req EXCEPT ![q] = r], ~Reporting(req[q]), Reporting(r),
         errors' = errors + 1, reports' = reports
  PROVE  ReportsSound'
<1>1. PICK X, Y : /\ X = {x \in InFlight : Reporting(req[x])}
                  /\ Y = {x \in InFlight : Reporting(req'[x])}
  OBVIOUS
<1>2. Y = X \cup {q} /\ q \notin X
  BY <1>1, RequestMoves
<1>3. IsFiniteSet(X) /\ errors = reports + Cardinality(X) /\ errors \in Nat /\ reports \in Nat
  BY <1>1 DEF ReportsSound
<1>4. IsFiniteSet(Y) /\ Cardinality(Y) = Cardinality(X) + 1 /\ Cardinality(X) \in Nat
  BY <1>2, <1>3, FS_AddElement, FS_CardinalityType
<1>5. errors' = reports' + Cardinality(Y) /\ errors' \in Nat /\ reports' \in Nat
  BY <1>3, <1>4
<1>6. DOMAIN req' = InFlight /\ \A x \in InFlight : AnsweringSound(req'[x])
  BY RequestMoves
<1> QED
  BY <1>1, <1>4, <1>5, <1>6 DEF ReportsSound, AnsweringSound, Reporting

LEMMA ReportingStep ==
  ASSUME ReportsSound, NEW q \in InFlight, NEW r, AnsweringSound(r),
         req' = [req EXCEPT ![q] = r], Reporting(req[q]), ~Reporting(r),
         errors' = errors, reports' = reports + 1
  PROVE  ReportsSound'
<1>1. PICK X, Y : /\ X = {x \in InFlight : Reporting(req[x])}
                  /\ Y = {x \in InFlight : Reporting(req'[x])}
  OBVIOUS
<1>2. Y = X \ {q} /\ q \in X
  BY <1>1, RequestMoves
<1>3. IsFiniteSet(X) /\ errors = reports + Cardinality(X) /\ errors \in Nat /\ reports \in Nat
  BY <1>1 DEF ReportsSound
<1>4. IsFiniteSet(Y) /\ Cardinality(Y) = Cardinality(X) - 1 /\ Cardinality(X) \in Nat
  BY <1>2, <1>3, FS_RemoveElement, FS_CardinalityType
<1>5. errors' = reports' + Cardinality(Y) /\ errors' \in Nat /\ reports' \in Nat
  BY <1>3, <1>4
<1>6. DOMAIN req' = InFlight /\ \A x \in InFlight : AnsweringSound(req'[x])
  BY RequestMoves
<1> QED
  BY <1>1, <1>4, <1>5, <1>6 DEF ReportsSound, AnsweringSound, Reporting

LEMMA CatchStep ==
  ASSUME ReportsSound, NEW q \in InFlight, req[q].pc \in {"guards", "handler"},
         NEW e \in H!Exceptions, H!catch(q, e)
  PROVE  ReportsSound'
<1>1. PICK info : info = IF req[q].handler = "upload" THEN H!MulterExceptionFilter(e)
                                                      ELSE H!buildErrorInfo(e)
  OBVIOUS
<1>2. info.status >= 500 => info.report
  <2>1. CASE req[q].handler = "upload"
    <3>1. info.status \in {400, 413}
      BY <1>1, <2>1 DEF H!MulterExceptionFilter
    <3> QED
      BY <3>1
  <2>2. CASE req[q].handler # "upload"
    BY <1>1, <2>2, FailuresAreReported
  <2> QED
    BY <2>1, <2>2
<1>3. PICK r : r = IF info.report THEN [pc |-> "report", failed |-> info.status >= 500]
                                  ELSE H!Idle
  OBVIOUS
<1>4. /\ req' = [req EXCEPT ![q] = r] /\ reports' = reports
      /\ errors' = IF info.status >= 500 THEN errors + 1 ELSE errors
  BY <1>1, <1>3 DEF H!catch
<1>5. AnsweringSound(r)
  BY <1>3 DEF AnsweringSound
<1>6. ~Reporting(req[q])
  BY DEF Reporting
<1>7. CASE info.status >= 500
  <2>1. info.report
    BY <1>2, <1>7
  <2>2. r = [pc |-> "report", failed |-> info.status >= 500]
    BY <1>3, <2>1
  <2>3. Reporting(r)
    BY <1>7, <2>2 DEF Reporting
  <2>4. errors' = errors + 1
    BY <1>4, <1>7
  <2> QED
    BY <1>4, <1>5, <1>6, <2>3, <2>4, FailingStep
<1>8. CASE ~(info.status >= 500)
  <2>1. ~Reporting(r)
    BY <1>3, <1>8 DEF Reporting, H!Idle
  <2>2. errors' = errors
    BY <1>4, <1>8
  <2> QED
    BY <1>4, <1>5, <1>6, <2>1, <2>2, UnfailingStep
<1> QED
  BY <1>7, <1>8

LEMMA ArriveStep ==
  ASSUME ReportsSound, NEW q \in InFlight, NEW h \in H!Handlers, H!Arrive(q, h)
  PROVE  ReportsSound'
<1>1. PICK r : r = [pc |-> "guards", handler |-> h]
  OBVIOUS
<1>2. AnsweringSound(r) /\ ~Reporting(r) /\ ~Reporting(req[q])
  BY <1>1 DEF AnsweringSound, Reporting, H!Arrive, H!Idle
<1>3. req' = [req EXCEPT ![q] = r] /\ UNCHANGED <<errors, reports>>
  BY <1>1 DEF H!Arrive, H!counts
<1> QED
  BY <1>2, <1>3, UnfailingStep

(* Nothing has failed when the process starts.                             *)
LEMMA ReportsInit ==
  ASSUME NEW r, r = [q \in InFlight |-> H!Idle]
  PROVE  /\ DOMAIN r = InFlight /\ \A q \in InFlight : AnsweringSound(r[q])
         /\ {q \in InFlight : Reporting(r[q])} = {}
  BY DEF AnsweringSound, Reporting, H!Idle

LEMMA ReportsNext == ReportsSound /\ H!Next => ReportsSound'
<1> SUFFICES ASSUME ReportsSound, H!Next PROVE ReportsSound'
  OBVIOUS
<1>1. ReportsSound /\ UNCHANGED <<req, errors, reports>> => ReportsSound'
  BY DEF ReportsSound, AnsweringSound, Reporting
<1>2. ASSUME NEW k \in H!Keys, H!refuse(k) PROVE ReportsSound'
  BY <1>1, <1>2 DEF H!refuse, H!counts
<1>3. ASSUME NEW k \in H!Keys, NEW q \in InFlight, NEW h \in H!Handlers, H!pass(q, k, h)
      PROVE  ReportsSound'
  BY <1>3, ArriveStep DEF H!pass
<1>4. ASSUME NEW q \in InFlight, NEW h \in H!Handlers, H!passUnlimited(q, h)
      PROVE  ReportsSound'
  BY <1>4, ArriveStep DEF H!passUnlimited
<1>5. ASSUME NEW q \in InFlight, H!canActivate(q) PROVE ReportsSound'
  <2>1. req[q].pc = "guards" /\ AnsweringSound(req[q])
    BY <1>5 DEF H!canActivate, ReportsSound
  <2>2. req[q] \in [pc : {"guards", "handler"}, handler : H!Handlers]
    BY <2>1 DEF AnsweringSound, H!Idle
  <2>3. CASE req' = [req EXCEPT ![q].pc = "handler"] /\ UNCHANGED <<H!limiter, H!counts>>
    <3>1. PICK r : r = [req[q] EXCEPT !.pc = "handler"]
      OBVIOUS
    <3>2. r \in [pc : {"guards", "handler"}, handler : H!Handlers] /\ r.pc = "handler"
      BY <2>2, <3>1
    <3>3. AnsweringSound(r) /\ ~Reporting(r) /\ ~Reporting(req[q])
      BY <2>1, <3>2 DEF AnsweringSound, Reporting
    <3>4. req' = [req EXCEPT ![q] = r] /\ UNCHANGED <<errors, reports>>
      BY <2>3, <3>1 DEF H!counts
    <3> QED
      BY <3>3, <3>4, UnfailingStep
  <2>4. CASE \E status \in H!JwtAuthGuard(req[q].handler) \cup H!RolesGuard(req[q].handler) :
               H!catch(q, [kind |-> "http", code |-> status])
    <3>1. PICK status \in {401, 403} : H!catch(q, [kind |-> "http", code |-> status])
      BY <2>4 DEF H!JwtAuthGuard, H!RolesGuard
    <3>2. [kind |-> "http", code |-> status] \in H!Exceptions
      BY DEF H!Exceptions
    <3> QED
      BY <2>1, <3>1, <3>2, CatchStep
  <2> QED
    BY <1>5, <2>3, <2>4 DEF H!canActivate
<1>6. ASSUME NEW q \in InFlight, H!handle(q) PROVE ReportsSound'
  <2>1. req[q].pc = "handler" /\ ~Reporting(req[q])
    BY <1>6 DEF H!handle, Reporting
  <2>2. CASE req' = [req EXCEPT ![q] = H!Idle] /\ UNCHANGED <<H!limiter, H!counts>>
    <3>1. AnsweringSound(H!Idle) /\ ~Reporting(H!Idle)
      BY DEF AnsweringSound, Reporting, H!Idle
    <3>2. UNCHANGED <<errors, reports>>
      BY <2>2 DEF H!counts
    <3> QED
      BY <2>1, <2>2, <3>1, <3>2, UnfailingStep
  <2>3. CASE \E e \in H!Exceptions : H!catch(q, e)
    BY <2>1, <2>3, CatchStep
  <2> QED
    BY <1>6, <2>2, <2>3 DEF H!handle
<1>7. ASSUME NEW q \in InFlight, H!reportError(q) PROVE ReportsSound'
  <2>1. /\ req' = [req EXCEPT ![q] = H!Idle] /\ errors' = errors
        /\ reports' = IF req[q].failed THEN reports + 1 ELSE reports
    BY <1>7 DEF H!reportError
  <2>2. AnsweringSound(H!Idle) /\ ~Reporting(H!Idle)
    BY DEF AnsweringSound, Reporting, H!Idle
  <2>3. CASE req[q].failed
    <3>1. Reporting(req[q])
      BY <1>7, <2>3 DEF H!reportError, Reporting
    <3>2. reports' = reports + 1
      BY <2>1, <2>3
    <3> QED
      BY <2>1, <2>2, <3>1, <3>2, ReportingStep
  <2>4. CASE ~req[q].failed
    <3>1. ~Reporting(req[q])
      BY <2>4 DEF Reporting
    <3>2. reports' = reports
      BY <2>1, <2>4
    <3> QED
      BY <2>1, <2>2, <3>1, <3>2, UnfailingStep
  <2> QED
    BY <2>3, <2>4
<1>8. CASE H!Tick
  BY <1>1, <1>8 DEF H!Tick, H!counts
<1>9. CASE H!restart
  <2>1. req' = [q \in InFlight |-> H!Idle] /\ errors' = 0 /\ reports' = 0
    BY <1>9 DEF H!restart
  <2> QED
    <3>1. PICK r : r = req'
      OBVIOUS
    <3>2. /\ DOMAIN r = InFlight /\ \A q \in InFlight : AnsweringSound(r[q])
          /\ {q \in InFlight : Reporting(r[q])} = {}
      BY <2>1, <3>1, ReportsInit
    <3>3. {q \in InFlight : Reporting(req[q])}' = {}
      BY <3>1, <3>2 DEF Reporting
    <3>4. (\A q \in InFlight : AnsweringSound(req[q]))'
      BY <3>1, <3>2 DEF AnsweringSound
    <3> QED
      BY <2>1, <3>1, <3>2, <3>3, <3>4, FS_EmptySet DEF ReportsSound
<1> QED
  BY <1>2, <1>3, <1>4, <1>5, <1>6, <1>7, <1>8, <1>9 DEF H!Next

-----------------------------------------------------------------------------
(* The limiter.  What has passed lately of a key is from the window that   *)
(* opened last, at tick b, or from the one before it, and not too many     *)
(* from either; once no window is open, that one is over.                  *)
Since(k, b) == {p \in passed[k] : p[1] >= b}
Before(k, b) == {p \in passed[k] : p[1] < b}

Window(k, b) ==
  LET windowMs == LimitOf[k[2]].windowMs
      max == LimitOf[k[2]].max
  IN /\ b \in Int /\ b <= now
     /\ IsFiniteSet(passed[k])
     /\ \A p \in passed[k] : p[1] \in Int /\ p[1] <= b + windowMs
     /\ Cardinality(Before(k, b)) <= max /\ Cardinality(Since(k, b)) <= max
     /\ k \notin DOMAIN store => now > b + windowMs
     /\ k \in DOMAIN store => /\ store[k].resetTime = b + windowMs /\ store[k].count \in Nat
                              /\ Cardinality(Since(k, b)) <= store[k].count

WindowsSound ==
  /\ now \in Int
  /\ DOMAIN passed = H!Keys
  /\ \A k \in H!Keys : \E b \in Int : Window(k, b)

LEMMA LimitsOfKeys ==
  ASSUME NEW k \in H!Keys
  PROVE  LimitOf[k[2]].windowMs \in Nat /\ LimitOf[k[2]].max \in Nat
  BY LimitsAssumption DEF H!Keys

(* Neither the other keys nor this one lose a window that is open.         *)
LEMMA SweptStore ==
  ASSUME NEW x
  PROVE  LET swept == H!cleanupExpiredEntries IN
         /\ DOMAIN swept \subseteq DOMAIN store
         /\ x \in DOMAIN swept => swept[x] = store[x]
         /\ x \in DOMAIN store /\ x \notin DOMAIN swept => now > store[x].resetTime
<1>1. PICK gone : gone = {k \in DOMAIN store : now > store[k].resetTime}
  OBVIOUS
<1>2. DOMAIN H!Without(store, gone) = DOMAIN store \ gone
  BY DEF H!Without, H!Restrict
<1>3. x \in DOMAIN store \ gone => H!Without(store, gone)[x] = store[x]
  BY DEF H!Without, H!Restrict
<1>4. H!cleanupExpiredEntries = IF H!cleanupDue THEN H!Without(store, gone) ELSE store
  BY <1>1 DEF H!cleanupExpiredEntries
<1> QED
  BY <1>1, <1>2, <1>3, <1>4

(* Of the key: its window goes on or, when it is over, another opens.      *)
LEMMA CountedWindow ==
  ASSUME NEW k \in H!Keys, NEW b, Window(k, b), now \in Int
  PROVE  LET max == LimitOf[k[2]].max IN
         \/ /\ now <= b + LimitOf[k[2]].windowMs
            /\ Cardinality(Since(k, b)) \in Nat
            /\ H!Counted(k).resetTime = b + LimitOf[k[2]].windowMs
            /\ H!Counted(k).count \in Nat
            /\ Cardinality(Since(k, b)) <= H!Counted(k).count
            /\ H!Counted(k).count <= max =>
                 Cardinality(Since(k, b)) + 1 <= H!Counted(k).count
         \/ /\ now > b + LimitOf[k[2]].windowMs
            /\ H!Counted(k) = [count |-> 1, resetTime |-> now + LimitOf[k[2]].windowMs]
<1>1. PICK max \in Nat, w \in Nat : max = LimitOf[k[2]].max /\ w = LimitOf[k[2]].windowMs
  BY LimitsOfKeys
<1>2. PICK swept : swept = H!cleanupExpiredEntries
  OBVIOUS
<1>3. /\ DOMAIN swept \subseteq DOMAIN store
      /\ k \in DOMAIN swept => swept[k] = store[k]
      /\ k \in DOMAIN store /\ k \notin DOMAIN swept => now > store[k].resetTime
  BY <1>2, SweptStore
<1>4. Cardinality(Since(k, b)) \in Nat
  <2>1. IsFiniteSet(Since(k, b))
    BY FS_Subset DEF Window, Since
  <2> QED
    BY <2>1, FS_CardinalityType
<1>5. CASE k \in DOMAIN swept /\ now <= swept[k].resetTime
  <2>1. /\ store[k].resetTime = b + w /\ store[k].count \in Nat
        /\ Cardinality(Since(k, b)) <= store[k].count
    BY <1>1, <1>3, <1>5 DEF Window
  <2>2. H!Counted(k) = [count |-> IF store[k].count > max THEN store[k].count
                                                           ELSE store[k].count + 1,
                        resetTime |-> store[k].resetTime]
    BY <1>1, <1>2, <1>3, <1>5 DEF H!Counted, H!getRateLimits
  <2>3. now <= b + w
    BY <1>3, <1>5, <2>1
  <2> QED
    BY <1>1, <1>4, <2>1, <2>2, <2>3
<1>6. CASE ~(k \in DOMAIN swept /\ now <= swept[k].resetTime)
  <2>1. H!Counted(k) = [count |-> 1, resetTime |-> now + w]
    BY <1>1, <1>2, <1>6 DEF H!Counted, H!getRateLimits
  <2>2. now > b + w
    <3>1. b \in Int
      BY DEF Window
    <3>2. CASE k \notin DOMAIN store
      BY <1>1, <3>2 DEF Window
    <3>3. CASE k \in DOMAIN store
      <4>1. store[k].resetTime = b + w
        BY <1>1, <3>3 DEF Window
      <4> QED
        BY <1>1, <1>3, <1>6, <3>1, <3>3, <4>1
    <3> QED
      BY <3>2, <3>3
  <2> QED
    BY <1>1, <2>1, <2>2
<1> QED
  BY <1>5, <1>6

(* Other keys keep their window.                                           *)
LEMMA OtherWindows ==
  ASSUME NEW k \in H!Keys, H!RateLimit(k), NEW x \in H!Keys, x # k, passed'[x] = passed[x],
         NEW b, Window(x, b)
  PROVE  Window(x, b)'
<1>1. PICK w \in Nat : w = LimitOf[x[2]].windowMs
  BY LimitsOfKeys
<1>2. PICK swept : swept = H!cleanupExpiredEntries
  OBVIOUS
<1>3. store' = H!With(swept, k, H!Counted(k)) /\ now' = now
  BY <1>2 DEF H!RateLimit
<1>4. /\ x \in DOMAIN store' <=> x \in DOMAIN swept
      /\ x \in DOMAIN swept => store'[x] = swept[x]
  BY <1>3 DEF H!With
<1>5. /\ DOMAIN swept \subseteq DOMAIN store
      /\ x \in DOMAIN swept => swept[x] = store[x]
      /\ x \in DOMAIN store /\ x \notin DOMAIN swept => now > store[x].resetTime
  BY <1>2, SweptStore
<1>6. Since(x, b)' = Since(x, b) /\ Before(x, b)' = Before(x, b)
  BY DEF Since, Before
<1>7. x \notin DOMAIN store' => now > b + w
  BY <1>1, <1>4, <1>5 DEF Window
<1>8. x \in DOMAIN store' => store'[x] = store[x] /\ x \in DOMAIN store
  BY <1>4, <1>5
<1> QED
  BY <1>1, <1>3, <1>6, <1>7, <1>8 DEF Window

LEMMA PassWindow ==
  ASSUME WindowsSound, NEW k \in H!Keys, NEW b, Window(k, b), H!RateLimit(k),
         H!Counted(k).count <= LimitOf[k[2]].max,
         passed'[k] = H!Lately(k) \cup {H!Passing(k)}
  PROVE  \E c \in Int : Window(k, c)'
<1>1. PICK max \in Nat, w \in Nat : max = LimitOf[k[2]].max /\ w = LimitOf[k[2]].windowMs
  BY LimitsOfKeys
<1>2. PICK p : p = H!Passing(k)
  OBVIOUS
<1>3. p[1] = now /\ now \in Int /\ now' = now
  BY <1>2 DEF H!Passing, WindowsSound, H!RateLimit
<1>4. k \in DOMAIN store' /\ store'[k] = H!Counted(k)
  BY DEF H!RateLimit, H!With
<1>5. H!Lately(k) = {x \in passed[k] : now - x[1] <= w}
  BY <1>1 DEF H!Lately
<1>6. passed'[k] = {x \in passed[k] : now - x[1] <= w} \cup {p}
  BY <1>2, <1>5
<1>7. /\ b \in Int /\ b <= now /\ IsFiniteSet(passed[k])
      /\ \A x \in passed[k] : x[1] \in Int /\ x[1] <= b + w
      /\ Cardinality(Before(k, b)) <= max /\ Cardinality(Since(k, b)) <= max
  BY <1>1 DEF Window
<1>8. /\ IsFiniteSet(Since(k, b)) /\ IsFiniteSet(Before(k, b))
      /\ Cardinality(Since(k, b)) \in Nat /\ Cardinality(Before(k, b)) \in Nat
  <2>1. IsFiniteSet(Since(k, b)) /\ IsFiniteSet(Before(k, b))
    BY <1>7, FS_Subset DEF Since, Before
  <2> QED
    BY <2>1, FS_CardinalityType
<1>9. IsFiniteSet(passed'[k])
  <2>1. PICK X : X = {x \in passed[k] : now - x[1] <= w}
    OBVIOUS
  <2>2. IsFiniteSet(X)
    BY <1>7, <2>1, FS_Subset
  <2>3. IsFiniteSet(X \cup {p})
    BY <2>2, FS_AddElement
  <2> QED
    BY <1>6, <2>1, <2>3
<1>10. CASE now <= b + w
  <2>1. /\ H!Counted(k).resetTime = b + w /\ H!Counted(k).count \in Nat
        /\ Cardinality(Since(k, b)) + 1 <= H!Counted(k).count
    BY <1>1, <1>3, <1>7, <1>10, CountedWindow
  <2>2. Since(k, b)' \subseteq Since(k, b) \cup {p}
    BY <1>6 DEF Since
  <2>3. Before(k, b)' \subseteq Before(k, b)
    BY <1>3, <1>6, <1>7 DEF Before
  <2>4. Cardinality(Since(k, b)') <= Cardinality(Since(k, b)) + 1
    <3>1. PICK X, T : X = Since(k, b) /\ T = Since(k, b)'
      OBVIOUS
    <3>2. /\ IsFiniteSet(X) /\ IsFiniteSet(X \cup {p})
          /\ \/ Cardinality(X \cup {p}) = Cardinality(X)
             \/ Cardinality(X \cup {p}) = Cardinality(X) + 1
      <4>1. IsFiniteSet(X)
        BY <1>8, <3>1
      <4> QED
        BY <4>1, FS_AddElement
    <3>3. Cardinality(T) <= Cardinality(X \cup {p}) /\ Cardinality(T) \in Nat
      BY <2>2, <3>1, <3>2, FS_Subset, FS_CardinalityType
    <3>4. Cardinality(X \cup {p}) \in Nat
      BY <3>2, FS_CardinalityType
    <3> QED
      BY <1>8, <3>1, <3>2, <3>3, <3>4
  <2>5. Cardinality(Since(k, b)') \in Nat
    <3>1. PICK T : T = Since(k, b)'
      OBVIOUS
    <3>2. IsFiniteSet(T)
      BY <1>9, <3>1, FS_Subset DEF Since
    <3> QED
      BY <3>1, <3>2, FS_CardinalityType
  <2>6. /\ Cardinality(Before(k, b)') <= Cardinality(Before(k, b))
        /\ Cardinality(Before(k, b)') \in Nat
    BY <1>8, <2>3, FS_Subset, FS_CardinalityType
  <2>7. \A x \in passed'[k] : x[1] \in Int /\ x[1] <= b + w
    BY <1>3, <1>6, <1>7, <1>10
  <2>8. Cardinality(Since(k, b)') <= H!Counted(k).count /\ Cardinality(Since(k, b)') <= max
    BY <1>1, <1>8, <2>1, <2>4, <2>5
  <2>9. Window(k, b)'
    BY <1>1, <1>3, <1>4, <1>7, <1>8, <1>9, <2>1, <2>6, <2>7, <2>8 DEF Window
  <2> QED
    BY <1>7, <2>9
<1>11. CASE now > b + w
  <2>1. H!Counted(k) = [count |-> 1, resetTime |-> now + w]
    BY <1>1, <1>3, <1>7, <1>11, CountedWindow
  <2>2. Before(k, now)' \subseteq Since(k, b)
    BY <1>3, <1>6, <1>7, <1>11 DEF Before, Since
  <2>3. Since(k, now)' = {p}
    BY <1>3, <1>6, <1>7, <1>11 DEF Since
  <2>4. Cardinality(Before(k, now)') <= max
    <3>1. /\ Cardinality(Before(k, now)') <= Cardinality(Since(k, b))
          /\ Cardinality(Before(k, now)') \in Nat
      BY <1>8, <2>2, FS_Subset, FS_CardinalityType
    <3> QED
      BY <1>7, <1>8, <3>1
  <2>5. Cardinality(Since(k, now)') = 1
    BY <2>3, FS_Singleton
  <2>6. \A x \in passed'[k] : x[1] \in Int /\ x[1] <= now + w
    BY <1>3, <1>6, <1>7, <1>11
  <2>7. 1 <= max
    BY <1>1, <2>1
  <2>8. Window(k, now)'
    BY <1>1, <1>3, <1>4, <1>9, <2>1, <2>4, <2>5, <2>6, <2>7 DEF Window
  <2> QED
    BY <1>3, <2>8
<1> QED
  BY <1>3, <1>7, <1>10, <1>11

LEMMA RefuseWindow ==
  ASSUME WindowsSound, NEW k \in H!Keys, NEW b, Window(k, b), H!RateLimit(k),
         H!Counted(k).count > LimitOf[k[2]].max, passed' = passed
  PROVE  \E c \in Int : Window(k, c)'
<1>1. PICK max \in Nat, w \in Nat : max = LimitOf[k[2]].max /\ w = LimitOf[k[2]].windowMs
  BY LimitsOfKeys
<1>2. now \in Int /\ now' = now
  BY DEF WindowsSound, H!RateLimit
<1>3. k \in DOMAIN store' /\ store'[k] = H!Counted(k)
  BY DEF H!RateLimit, H!With
<1>4. /\ b \in Int /\ b <= now /\ IsFiniteSet(passed[k])
      /\ \A x \in passed[k] : x[1] \in Int /\ x[1] <= b + w
      /\ Cardinality(Before(k, b)) <= max /\ Cardinality(Since(k, b)) <= max
  BY <1>1 DEF Window
<1>5. CASE now <= b + w
  <2>1. /\ H!Counted(k).resetTime = b + w /\ H!Counted(k).count \in Nat
        /\ Cardinality(Since(k, b)) <= H!Counted(k).count
    BY <1>1, <1>2, <1>4, <1>5, CountedWindow
  <2>2. Since(k, b)' = Since(k, b) /\ Before(k, b)' = Before(k, b)
    BY DEF Since, Before
  <2>3. Window(k, b)'
    BY <1>1, <1>2, <1>3, <1>4, <2>1, <2>2 DEF Window
  <2> QED
    BY <1>4, <2>3
<1>6. CASE now > b + w
  <2>1. H!Counted(k) = [count |-> 1, resetTime |-> now + w]
    BY <1>1, <1>2, <1>4, <1>6, CountedWindow
  <2>2. max = 0
    BY <1>1, <2>1
  <2>3. passed[k] = {}
    <3>1. IsFiniteSet(Since(k, b)) /\ IsFiniteSet(Before(k, b))
      BY <1>4, FS_Subset DEF Since, Before
    <3>2. Cardinality(Since(k, b)) = 0 /\ Cardinality(Before(k, b)) = 0
      BY <1>4, <2>2, <3>1, FS_CardinalityType
    <3>3. Since(k, b) = {} /\ Before(k, b) = {}
      BY <3>1, <3>2, FS_EmptySet
    <3> QED
      BY <1>4, <3>3 DEF Since, Before
  <2>4. Since(k, now)' = {} /\ Before(k, now)' = {}
    BY <2>3 DEF Since, Before
  <2>5. Window(k, now)'
    BY <1>1, <1>2, <1>3, <2>1, <2>3, <2>4, FS_EmptySet DEF Window
  <2> QED
    BY <1>2, <2>5
<1> QED
  BY <1>2, <1>4, <1>5, <1>6

(* At the start, and after a restart, the last window is over.             *)
LEMMA EmptyWindow ==
  ASSUME now \in Int, NEW k \in H!Keys, passed[k] = {}, DOMAIN store = {}
  PROVE  \E b \in Int : Window(k, b)
<1>1. PICK w \in Nat, max \in Nat, b \in Int :
        w = LimitOf[k[2]].windowMs /\ max = LimitOf[k[2]].max /\ b = now - w - 1
  BY LimitsOfKeys
<1>2. Since(k, b) = {} /\ Before(k, b) = {}
  BY DEF Since, Before
<1>3. /\ IsFiniteSet(passed[k])
      /\ Cardinality(Since(k, b)) = 0 /\ Cardinality(Before(k, b)) = 0
  BY <1>2, FS_EmptySet
<1> QED
  BY <1>1, <1>3 DEF Window

LEMMA WindowsNext == WindowsSound /\ H!Next => WindowsSound'
<1> SUFFICES ASSUME WindowsSound, H!Next PROVE WindowsSound'
  OBVIOUS
<1>1. UNCHANGED <<now, store, passed>> => WindowsSound'
  BY DEF WindowsSound, Window, Since, Before
<1>2. ASSUME NEW k \in H!Keys, H!RateLimit(k), DOMAIN passed' = H!Keys,
             \A x \in H!Keys : x # k => passed'[x] = passed[x],
             \A b : Window(k, b) => \E c \in Int : Window(k, c)'
      PROVE  WindowsSound'
  <2>1. now' \in Int
    BY <1>2 DEF WindowsSound, H!RateLimit
  <2>2. ASSUME NEW x \in H!Keys PROVE \E c \in Int : Window(x, c)'
    <3>1. PICK b \in Int : Window(x, b)
      BY DEF WindowsSound
    <3>2. CASE x = k
      BY <1>2, <3>1, <3>2
    <3>3. CASE x # k
      BY <1>2, <3>1, <3>3, OtherWindows
    <3> QED
      BY <3>2, <3>3
  <2> QED
    BY <1>2, <2>1, <2>2 DEF WindowsSound
<1>3. ASSUME NEW k \in H!Keys, H!refuse(k) PROVE WindowsSound'
  <2>1. /\ H!RateLimit(k) /\ passed' = passed /\ DOMAIN passed = H!Keys
        /\ H!Counted(k).count > LimitOf[k[2]].max
    BY <1>3 DEF H!refuse, H!getRateLimits, WindowsSound
  <2>2. \A b : Window(k, b) => \E c \in Int : Window(k, c)'
    BY <2>1, RefuseWindow
  <2> QED
    BY <1>2, <2>1, <2>2
<1>4. ASSUME NEW k \in H!Keys, NEW q, NEW h, H!pass(q, k, h) PROVE WindowsSound'
  <2>1. /\ H!RateLimit(k) /\ H!Counted(k).count <= LimitOf[k[2]].max
        /\ passed' = [passed EXCEPT ![k] = H!Lately(k) \cup {H!Passing(k)}]
        /\ DOMAIN passed = H!Keys
    BY <1>4 DEF H!pass, H!getRateLimits, WindowsSound
  <2>2. \A b : Window(k, b) => \E c \in Int : Window(k, c)'
    BY <2>1, PassWindow
  <2> QED
    BY <1>2, <2>1, <2>2
<1>5. ASSUME NEW q, NEW h, H!passUnlimited(q, h) PROVE WindowsSound'
  BY <1>1, <1>5 DEF H!passUnlimited, H!limiter
<1>6. ASSUME NEW q, H!canActivate(q) PROVE WindowsSound'
  BY <1>1, <1>6 DEF H!canActivate, H!catch, H!limiter
<1>7. ASSUME NEW q, H!handle(q) PROVE WindowsSound'
  BY <1>1, <1>7 DEF H!handle, H!catch, H!limiter
<1>8. ASSUME NEW q, H!reportError(q) PROVE WindowsSound'
  BY <1>1, <1>8 DEF H!reportError, H!limiter
<1>9. CASE H!Tick
  <2>1. now \in Int /\ now' = now + 1 /\ store' = store /\ passed' = passed
    BY <1>9 DEF H!Tick, WindowsSound
  <2>2. ASSUME NEW k \in H!Keys PROVE \E c \in Int : Window(k, c)'
    <3>1. PICK b \in Int : Window(k, b)
      BY DEF WindowsSound
    <3>2. PICK w \in Nat : w = LimitOf[k[2]].windowMs
      BY LimitsOfKeys
    <3>3. Since(k, b)' = Since(k, b) /\ Before(k, b)' = Before(k, b)
      BY <2>1 DEF Since, Before
    <3>4. Window(k, b)'
      BY <2>1, <3>1, <3>2, <3>3 DEF Window
    <3> QED
      BY <3>4
  <2> QED
    BY <2>1, <2>2 DEF WindowsSound
<1>10. CASE H!restart
  <2>1. /\ now' = now /\ passed' = [k \in H!Keys |-> {}]
        /\ DOMAIN store' = {}
    BY <1>10 DEF H!restart, H!Without, H!Restrict
  <2>2. ASSUME NEW k \in H!Keys PROVE \E b \in Int : Window(k, b)'
    <3>1. PICK w \in Nat, max \in Nat, b \in Int :
            w = LimitOf[k[2]].windowMs /\ max = LimitOf[k[2]].max /\ b = now - w - 1
      BY LimitsOfKeys DEF WindowsSound
    <3>2. passed'[k] = {} /\ Since(k, b)' = {} /\ Before(k, b)' = {}
      BY <2>1 DEF Since, Before
    <3>3. /\ IsFiniteSet(passed'[k])
          /\ Cardinality(Since(k, b)') = 0 /\ Cardinality(Before(k, b)') = 0
      BY <3>2, FS_EmptySet
    <3>4. Window(k, b)'
      BY <2>1, <3>1, <3>2, <3>3 DEF Window, WindowsSound
    <3> QED
      BY <3>4
  <2> QED
    BY <2>1, <2>2 DEF WindowsSound
<1> QED
  BY <1>3, <1>4, <1>5, <1>6, <1>7, <1>8, <1>9, <1>10 DEF H!Next

LEMMA PipelineInit == H!Init => ReportsSound /\ WindowsSound
<1> SUFFICES ASSUME H!Init PROVE ReportsSound /\ WindowsSound
  OBVIOUS
<1>1. req = [q \in InFlight |-> H!Idle] /\ errors = 0 /\ reports = 0
  BY DEF H!Init
<1>2. ReportsSound
  BY <1>1, ReportsInit, FS_EmptySet DEF ReportsSound
<1>3. now \in Int /\ passed = [k \in H!Keys |-> {}] /\ DOMAIN store = {}
  BY DEF H!Init
<1>4. WindowsSound
  BY <1>3, EmptyWindow DEF WindowsSound
<1> QED
  BY <1>2, <1>4

LEMMA WindowsRead ==
  ASSUME WindowsSound
  PROVE  H!AtMostTwice
<1>1. SUFFICES ASSUME NEW k \in H!Keys
               PROVE  H!Cardinality(passed[k]) <= 2 * LimitOf[k[2]].max
  BY DEF H!AtMostTwice
<1>2. PICK b \in Int : Window(k, b)
  BY DEF WindowsSound
<1>3. PICK max \in Nat : max = LimitOf[k[2]].max
  BY LimitsOfKeys
<1>4. PICK X, Y : X = Before(k, b) /\ Y = Since(k, b)
  OBVIOUS
<1>5. X \cup Y = passed[k]
  BY <1>2, <1>4 DEF Window, Before, Since
<1>6. IsFiniteSet(X) /\ IsFiniteSet(Y)
  BY <1>2, <1>4, FS_Subset DEF Window, Before, Since
<1>7. Cardinality(X \cup Y) <= Cardinality(X) + Cardinality(Y)
  <2>1. IsFiniteSet(X \cap Y)
    BY <1>6, FS_Subset
  <2>2. /\ Cardinality(X) \in Nat /\ Cardinality(Y) \in Nat
        /\ Cardinality(X \cap Y) \in Nat
    BY <1>6, <2>1, FS_CardinalityType
  <2>3. Cardinality(X \cup Y) = Cardinality(X) + Cardinality(Y) - Cardinality(X \cap Y)
    BY <1>6, FS_Union
  <2> QED
    BY <2>2, <2>3
<1>8. Cardinality(X) <= max /\ Cardinality(Y) <= max
  BY <1>2, <1>3, <1>4 DEF Window
<1>9. Cardinality(X) \in Nat /\ Cardinality(Y) \in Nat /\ Cardinality(X \cup Y) \in Nat
  BY <1>5, <1>6, <1>2, FS_CardinalityType DEF Window
<1>10. H!Cardinality(passed[k]) = Cardinality(X \cup Y)
  BY <1>5, SameCardinality
<1> QED
  BY <1>3, <1>7, <1>8, <1>9, <1>10

LEMMA ReportsRead ==
  ASSUME ReportsSound
  PROVE  H!FailuresReported
<1>1. {q \in InFlight : Reporting(req[q])}
        = {q \in InFlight : req[q].pc = "report" /\ req[q].failed}
  BY DEF Reporting
<1> QED
  BY <1>1, SameCardinality DEF ReportsSound, H!FailuresReported

-----------------------------------------------------------------------------
(* The cache.  What a request holds, and what is stored, was current not   *)
(* longer ago than the time it was held and the time to live.              *)
StoppedBefore(u, version, at) == <<u, version>> \in DOMAIN until /\ until[<<u, version>>] < at

VersionsSound ==
  /\ clock \in Nat
  /\ DOMAIN data = CachedUsers
  /\ \A u \in CachedUsers : data[u] \in Nat
  /\ \A u \in CachedUsers, n \in Nat :
       <<u, n>> \in DOMAIN until => n < data[u] /\ until[<<u, n>>] \in Nat

(* As long as a request is under way its handler takes no longer.          *)
HeldSound(r) ==
  r # C!Idle =>
    /\ r.at \in Nat /\ r.at <= clock /\ clock <= r.at + MaxHandler
    /\ r.pc = "set" =>
         /\ {"pc", "key", "version", "at"} = DOMAIN r
         /\ r.key.user \in CachedUsers /\ r.version \in Nat
         /\ ~StoppedBefore(r.key.user, r.version, r.at)

EntrySound(k, e) ==
  /\ k.user \in CachedUsers /\ e.version \in Nat
  /\ e.expires \in Nat /\ clock <= e.expires /\ e.expires <= clock + TTL
  /\ ~StoppedBefore(k.user, e.version, e.expires - TTL - MaxHandler)

CacheSound ==
  /\ VersionsSound
  /\ DOMAIN caching = InFlight /\ \A q \in InFlight : HeldSound(caching[q])
  /\ \A k \in DOMAIN cache : EntrySound(k, cache[k])

(* Nothing but what requests and cache hold changes.                       *)
LEMMA CacheMoves ==
  ASSUME CacheSound, UNCHANGED <<clock, data, until>>,
         DOMAIN caching' = InFlight, \A q \in InFlight : HeldSound(caching'[q]),
         \A k \in DOMAIN cache' : EntrySound(k, cache'[k])
  PROVE  CacheSound'
<1>1. VersionsSound'
  BY DEF CacheSound, VersionsSound
<1>2. \A r : HeldSound(r)' <=> HeldSound(r)
  BY DEF HeldSound, StoppedBefore
<1>3. \A k, e : EntrySound(k, e)' <=> EntrySound(k, e)
  BY DEF EntrySound, StoppedBefore
<1>4. (\A q \in InFlight : HeldSound(caching[q]))'
  <2>1. SUFFICES ASSUME NEW q \in InFlight PROVE HeldSound(caching[q])'
    OBVIOUS
  <2>2. HeldSound(caching'[q])
    OBVIOUS
  <2> QED
    BY <2>2 DEF HeldSound, StoppedBefore
<1>5. (\A k \in DOMAIN cache : EntrySound(k, cache[k]))'
  <2>1. SUFFICES ASSUME NEW k \in DOMAIN cache' PROVE EntrySound(k, cache[k])'
    OBVIOUS
  <2>2. EntrySound(k, cache'[k])
    OBVIOUS
  <2> QED
    BY <2>2 DEF EntrySound, StoppedBefore
<1> QED
  BY <1>1, <1>4, <1>5 DEF CacheSound

(* A request moves on, and holds what is sound.                            *)
LEMMA CachingStep ==
  ASSUME CacheSound, NEW q \in InFlight, NEW r, C!Goto(q, r), HeldSound(r),
         UNCHANGED <<clock, data, until, cache>>
  PROVE  CacheSound'
<1>1. DOMAIN caching' = InFlight /\ \A x \in InFlight : HeldSound(caching'[x])
  BY DEF CacheSound, C!Goto
<1>2. \A k \in DOMAIN cache' : EntrySound(k, cache'[k])
  BY DEF CacheSound
<1> QED
  BY <1>1, <1>2, CacheMoves

(* Entries go.                                                             *)
LEMMA CacheShrinks ==
  ASSUME CacheSound, NEW X, cache' = C!Without(cache, X), UNCHANGED <<clock, data, until>>,
         DOMAIN caching' = InFlight, \A q \in InFlight : HeldSound(caching'[q])
  PROVE  CacheSound'
<1>1. /\ DOMAIN cache' \subseteq DOMAIN cache
      /\ \A k \in DOMAIN cache' : cache'[k] = cache[k]
  BY DEF C!Without, C!Restrict
<1>2. \A k \in DOMAIN cache' : EntrySound(k, cache'[k])
  BY <1>1 DEF CacheSound
<1> QED
  BY <1>2, CacheMoves

LEMMA NothingHeld == HeldSound(C!Idle)
  BY DEF HeldSound

(* What is current has not stopped being so.                               *)
LEMMA StoringCurrent ==
  ASSUME CacheSound, NEW f \in C!Families, NEW u \in CachedUsers
  PROVE  HeldSound(C!Storing(f, u, data[u]))
<1>1. PICK key : key = C!generateCacheKey(C!WritePrefix[f], f, u)
  OBVIOUS
<1>2. key.user = u
  BY <1>1 DEF C!generateCacheKey
<1>3. PICK r : r = C!Storing(f, u, data[u])
  OBVIOUS
<1>4. r = [pc |-> "set", key |-> key, version |-> data[u], at |-> clock]
  BY <1>1, <1>3 DEF C!Storing
<1>5. data[u] \in Nat /\ ~StoppedBefore(u, data[u], clock) /\ clock \in Nat
  BY DEF CacheSound, VersionsSound, StoppedBefore
<1>6. MaxHandler \in Nat
  BY TimesAssumption
<1> QED
  BY <1>2, <1>3, <1>4, <1>5, <1>6 DEF HeldSound

(* A change: the version before stops being current now.                   *)
LEMMA WriteStep ==
  ASSUME CacheSound, NEW q \in InFlight, NEW u \in CachedUsers, NEW r, C!Write(u), C!Goto(q, r),
         HeldSound(r)'
  PROVE  CacheSound'
<1>1. data' = [data EXCEPT ![u] = data[u] + 1] /\ clock' = clock /\ cache' = cache
  BY DEF C!Write
<1>2. PICK now0, version : now0 = clock /\ version = data[u]
  OBVIOUS
<1>3. /\ DOMAIN until' = DOMAIN until \cup {<<u, version>>}
      /\ until'[<<u, version>>] = now0
      /\ \A x \in DOMAIN until : x # <<u, version>> => until'[x] = until[x]
  BY <1>2 DEF C!Write, C!With
<1>4. /\ now0 \in Nat /\ version \in Nat /\ DOMAIN data = CachedUsers
      /\ \A x \in CachedUsers : data[x] \in Nat
      /\ \A x \in CachedUsers, n \in Nat :
           <<x, n>> \in DOMAIN until => n < data[x] /\ until[<<x, n>>] \in Nat
  BY <1>2 DEF CacheSound, VersionsSound
<1>5. VersionsSound'
  <2>1. ASSUME NEW x \in CachedUsers, NEW n \in Nat, <<x, n>> \in DOMAIN until'
        PROVE  n < data'[x] /\ until'[<<x, n>>] \in Nat
    <3>1. CASE <<x, n>> = <<u, version>>
      <4>1. x = u /\ n = version
        BY <3>1
      <4> QED
        BY <1>1, <1>2, <1>3, <1>4, <4>1
    <3>2. CASE <<x, n>> # <<u, version>>
      <4>1. <<x, n>> \in DOMAIN until /\ until'[<<x, n>>] = until[<<x, n>>]
        BY <1>3, <2>1, <3>2
      <4>2. data'[x] = data[x] \/ data'[x] = data[x] + 1
        BY <1>1, <1>4
      <4> QED
        BY <1>4, <4>1, <4>2
    <3> QED
      BY <3>1, <3>2
  <2>2. DOMAIN data' = CachedUsers /\ \A x \in CachedUsers : data'[x] \in Nat
    BY <1>1, <1>4
  <2> QED
    BY <1>1, <1>2, <1>4, <2>1, <2>2 DEF VersionsSound
<1>6. ASSUME NEW x, NEW n, NEW at \in Int, at <= clock, ~StoppedBefore(x, n, at)
      PROVE  ~StoppedBefore(x, n, at)'
  BY <1>2, <1>3, <1>4, <1>6 DEF StoppedBefore
<1>7. ASSUME NEW x \in InFlight PROVE HeldSound(caching[x])'
  <2>1. CASE x = q
    <3>1. caching'[x] = r
      BY <2>1 DEF C!Goto, CacheSound
    <3> QED
      BY <3>1 DEF HeldSound, StoppedBefore
  <2>2. CASE x # q
    <3>1. PICK y : y = caching[x]
      OBVIOUS
    <3>2. caching'[x] = y /\ HeldSound(y)
      BY <2>2, <3>1 DEF C!Goto, CacheSound
    <3>3. HeldSound(y)'
      BY <1>1, <1>6, <3>2 DEF HeldSound
    <3> QED
      BY <3>2, <3>3 DEF HeldSound, StoppedBefore
  <2> QED
    BY <2>1, <2>2
<1>8. ASSUME NEW k \in DOMAIN cache PROVE EntrySound(k, cache[k])'
  <2>1. PICK e : e = cache[k]
    OBVIOUS
  <2>2. EntrySound(k, e) /\ cache'[k] = e
    BY <1>1, <2>1 DEF CacheSound
  <2>3. PICK at : at = e.expires - TTL - MaxHandler
    OBVIOUS
  <2>4. at \in Int /\ at <= clock
    BY <1>2, <1>4, <2>2, <2>3, TimesAssumption DEF EntrySound
  <2>5. ~StoppedBefore(k.user, e.version, at)'
    BY <1>6, <2>2, <2>3, <2>4 DEF EntrySound
  <2> QED
    BY <1>1, <2>2, <2>3, <2>5 DEF EntrySound, StoppedBefore
<1>9. DOMAIN caching' = InFlight
  BY DEF C!Goto, CacheSound
<1> QED
  BY <1>1, <1>5, <1>7, <1>8, <1>9 DEF CacheSound

LEMMA SetStep ==
  ASSUME CacheSound, NEW q \in InFlight, C!set(q)
  PROVE  CacheSound'
<1>1. PICK r, next : r = caching[q] /\ next = [r EXCEPT !.pc = "index"]
  OBVIOUS
<1>2. /\ r.pc = "set" /\ C!Goto(q, next) /\ UNCHANGED <<clock, data, until>>
      /\ cache' = C!With(cache, r.key, C!Stored(r))
  BY <1>1 DEF C!set
<1>3. r # C!Idle /\ HeldSound(r)
  BY <1>1, <1>2 DEF C!Idle, CacheSound
<1>4. /\ r.at \in Nat /\ r.at <= clock /\ clock <= r.at + MaxHandler
      /\ {"pc", "key", "version", "at"} = DOMAIN r
      /\ r.key.user \in CachedUsers /\ r.version \in Nat
      /\ ~StoppedBefore(r.key.user, r.version, r.at)
  BY <1>2, <1>3 DEF HeldSound
<1>5. clock \in Nat /\ TTL \in Nat /\ MaxHandler \in Nat
  BY TimesAssumption DEF CacheSound, VersionsSound
<1>6. HeldSound(next)
  <2>1. next.pc = "index" /\ next.at = r.at
    BY <1>1, <1>4
  <2> QED
    BY <1>4, <2>1 DEF HeldSound
<1>7. EntrySound(r.key, C!Stored(r))
  <2>1. PICK e : e = C!Stored(r)
    OBVIOUS
  <2>2. e.version = r.version /\ e.expires = clock + TTL
    BY <2>1 DEF C!Stored
  <2>3. ~StoppedBefore(r.key.user, r.version, clock - MaxHandler)
    <3>1. ASSUME StoppedBefore(r.key.user, r.version, clock - MaxHandler)
          PROVE  StoppedBefore(r.key.user, r.version, r.at)
      <4>1. /\ <<r.key.user, r.version>> \in DOMAIN until
            /\ until[<<r.key.user, r.version>>] < clock - MaxHandler
        BY <3>1 DEF StoppedBefore
      <4>2. until[<<r.key.user, r.version>>] \in Nat
        BY <1>4, <4>1 DEF CacheSound, VersionsSound
      <4> QED
        BY <1>4, <1>5, <4>1, <4>2 DEF StoppedBefore
    <3> QED
      BY <1>4, <3>1
  <2>4. (clock + TTL) - TTL - MaxHandler = clock - MaxHandler
    BY <1>5
  <2>5. ~StoppedBefore(r.key.user, e.version, e.expires - TTL - MaxHandler)
    BY <2>2, <2>3, <2>4
  <2>6. e.expires \in Nat /\ clock <= e.expires /\ e.expires <= clock + TTL
    BY <1>5, <2>2
  <2> QED
    BY <1>4, <2>1, <2>2, <2>5, <2>6 DEF EntrySound
<1>8. \A k \in DOMAIN cache' : EntrySound(k, cache'[k])
  <2>1. PICK key, e : key = r.key /\ e = C!Stored(r)
    OBVIOUS
  <2>2. /\ DOMAIN cache' = DOMAIN cache \cup {key} /\ cache'[key] = e
        /\ \A k \in DOMAIN cache : k # key => cache'[k] = cache[k]
    BY <1>2, <2>1 DEF C!With
  <2> QED
    BY <1>7, <2>1, <2>2 DEF CacheSound
<1>9. DOMAIN caching' = InFlight /\ \A x \in InFlight : HeldSound(caching'[x])
  BY <1>2, <1>6 DEF CacheSound, C!Goto
<1> QED
  BY <1>2, <1>8, <1>9, CacheMoves

(* Time passes: what is kept has not expired, and no handler takes longer  *)
(* than it may.                                                            *)
LEMMA TimePasses ==
  ASSUME CacheSound, C!expire
  PROVE  CacheSound'
<1>1. /\ clock' = clock + 1 /\ UNCHANGED <<data, until, caching>>
      /\ \A q \in InFlight : caching[q] # C!Idle => clock < caching[q].at + MaxHandler
      /\ cache' = C!Without(cache, {k \in DOMAIN cache : cache[k].expires <= clock + 1})
  BY DEF C!expire
<1>2. clock \in Nat /\ TTL \in Nat /\ MaxHandler \in Nat
  BY TimesAssumption DEF CacheSound, VersionsSound
<1>3. VersionsSound'
  BY <1>1, <1>2 DEF CacheSound, VersionsSound
<1>4. ASSUME NEW q \in InFlight PROVE HeldSound(caching[q])'
  <2>1. PICK r : r = caching[q]
    OBVIOUS
  <2>2. HeldSound(r) /\ caching'[q] = r /\ (r # C!Idle => clock < r.at + MaxHandler)
    BY <1>1, <2>1 DEF CacheSound
  <2> QED
    BY <1>1, <1>2, <2>2 DEF HeldSound, StoppedBefore
<1>5. ASSUME NEW k \in DOMAIN cache' PROVE EntrySound(k, cache[k])'
  <2>1. PICK e : e = cache[k]
    OBVIOUS
  <2>2. k \in DOMAIN cache /\ cache'[k] = e /\ ~(e.expires <= clock + 1)
    BY <1>1, <2>1 DEF C!Without, C!Restrict
  <2>3. EntrySound(k, e)
    BY <2>1, <2>2 DEF CacheSound
  <2>4. StoppedBefore(k.user, e.version, e.expires - TTL - MaxHandler)'
          <=> StoppedBefore(k.user, e.version, e.expires - TTL - MaxHandler)
    BY <1>1 DEF StoppedBefore
  <2>5. e.expires \in Nat /\ clock' <= e.expires /\ e.expires <= clock' + TTL
    BY <1>1, <1>2, <2>2, <2>3 DEF EntrySound
  <2>6. EntrySound(k, e)'
    BY <2>3, <2>4, <2>5 DEF EntrySound
  <2> QED
    BY <2>2, <2>6 DEF EntrySound, StoppedBefore
<1>6. DOMAIN caching' = InFlight
  BY <1>1 DEF CacheSound
<1> QED
  BY <1>3, <1>4, <1>5, <1>6 DEF CacheSound

LEMMA InterceptStep ==
  ASSUME CacheSound, NEW q \in InFlight, C!intercept(q)
  PROVE  CacheSound'
<1>1. PICK f \in C!Families, u \in CachedUsers :
        \/ C!handleCacheable(q, f, u) \/ C!handleCacheUpdate(q, f, u)
        \/ C!handleCacheEviction(q, f, u) \/ C!handleCacheWarm(q, f, u)
  BY DEF C!intercept
<1>2. CASE C!handleCacheable(q, f, u) \/ C!handleCacheWarm(q, f, u)
  <2>1. /\ C!Goto(q, C!Storing(f, u, data[u]))
        /\ UNCHANGED <<clock, data, until, cache>>
    BY <1>2 DEF C!handleCacheable, C!handleCacheWarm
  <2> QED
    BY <2>1, StoringCurrent, CachingStep
<1>3. CASE C!handleCacheUpdate(q, f, u)
  <2>1. PICK r, key : key = C!generateCacheKey(C!WritePrefix[f], f, u)
                      /\ r = [pc |-> "set", key |-> key, version |-> data[u] + 1, at |-> clock]
    OBVIOUS
  <2>2. C!Write(u) /\ C!Goto(q, r)
    BY <1>3, <2>1 DEF C!handleCacheUpdate, C!Storing
  <2>3. key.user = u
    BY <2>1 DEF C!generateCacheKey
  <2>4. PICK version \in Nat, at \in Nat : version = data[u] /\ at = clock
    BY DEF CacheSound, VersionsSound
  <2>5. <<u, version + 1>> \notin DOMAIN until'
    <3>1. DOMAIN until' = DOMAIN until \cup {<<u, version>>}
      BY <2>2, <2>4 DEF C!Write, C!With
    <3>2. <<u, version + 1>> # <<u, version>>
      BY <2>4
    <3>3. <<u, version + 1>> \notin DOMAIN until
      <4>1. ~(version + 1 < data[u]) /\ version + 1 \in Nat
        BY <2>4
      <4> QED
        BY <4>1 DEF CacheSound, VersionsSound
    <3> QED
      BY <3>1, <3>2, <3>3
  <2>6. ~StoppedBefore(key.user, version + 1, at)'
    BY <2>3, <2>5 DEF StoppedBefore
  <2>7. /\ DOMAIN r = {"pc", "key", "version", "at"} /\ r.key = key
        /\ r.version = version + 1 /\ r.at = at /\ clock' = at /\ MaxHandler \in Nat
    BY <2>1, <2>2, <2>4, TimesAssumption DEF C!Write
  <2>8. HeldSound(r)'
    BY <2>3, <2>4, <2>6, <2>7 DEF HeldSound
  <2> QED
    BY <2>2, <2>8, WriteStep
<1>4. CASE C!handleCacheEviction(q, f, u)
  <2>1. PICK r, key : key = C!generateCacheKey(C!ReadPrefix[f], f, u)
                      /\ r = [pc |-> "evict", key |-> key, at |-> clock]
    OBVIOUS
  <2>2. C!Write(u) /\ C!Goto(q, r)
    BY <1>4, <2>1 DEF C!handleCacheEviction
  <2>3. r.pc = "evict" /\ r.at = clock /\ clock' = clock /\ clock \in Nat /\ MaxHandler \in Nat
    BY <2>1, <2>2, TimesAssumption DEF C!Write, CacheSound, VersionsSound
  <2>4. HeldSound(r)'
    BY <2>3 DEF HeldSound
  <2> QED
    BY <2>2, <2>4, WriteStep
<1> QED
  BY <1>1, <1>2, <1>3, <1>4

LEMMA CacheNext == CacheSound /\ C!Next => CacheSound'
<1> SUFFICES ASSUME CacheSound, C!Next PROVE CacheSound'
  OBVIOUS
<1>1. ASSUME NEW q \in InFlight, NEW r, C!Goto(q, r), HeldSound(r)
      PROVE  DOMAIN caching' = InFlight /\ \A x \in InFlight : HeldSound(caching'[x])
  BY <1>1 DEF CacheSound, C!Goto
<1>2. ASSUME NEW q \in InFlight, C!intercept(q) PROVE CacheSound'
  BY <1>2, InterceptStep
<1>3. ASSUME NEW q \in InFlight, C!set(q) PROVE CacheSound'
  BY <1>3, SetStep
<1>4. ASSUME NEW q \in InFlight, C!addToTagIndex(q) PROVE CacheSound'
  BY <1>4, NothingHeld, CachingStep DEF C!addToTagIndex
<1>5. ASSUME NEW q \in InFlight, C!del(q) PROVE CacheSound'
  <2>1. /\ C!Goto(q, C!Idle) /\ UNCHANGED <<clock, data, until>>
        /\ \E X : cache' = C!Without(cache, X)
    BY <1>5 DEF C!del
  <2>2. DOMAIN caching' = InFlight /\ \A x \in InFlight : HeldSound(caching'[x])
    BY <1>1, <2>1, NothingHeld
  <2> QED
    BY <2>1, <2>2, CacheShrinks
<1>6. ASSUME NEW q \in InFlight, C!fail(q) PROVE CacheSound'
  BY <1>6, NothingHeld, CachingStep DEF C!fail
<1>7. CASE \/ \E u \in CachedUsers : C!invalidateByPattern(u)
           \/ C!clear
  <2>1. /\ UNCHANGED <<clock, data, until, caching>>
        /\ \E X : cache' = C!Without(cache, X)
    BY <1>7 DEF C!invalidateByPattern, C!clear
  <2>2. DOMAIN caching' = InFlight /\ \A x \in InFlight : HeldSound(caching'[x])
    BY <2>1 DEF CacheSound
  <2> QED
    BY <2>1, <2>2, CacheShrinks
<1>8. CASE C!invalidateByTag("user")
  <2>1. UNCHANGED <<clock, data, until, cache, caching>>
    BY <1>8 DEF C!invalidateByTag
  <2>2. /\ DOMAIN caching' = InFlight /\ \A x \in InFlight : HeldSound(caching'[x])
        /\ \A k \in DOMAIN cache' : EntrySound(k, cache'[k])
    BY <2>1 DEF CacheSound
  <2> QED
    BY <2>1, <2>2, CacheMoves
<1>9. CASE C!expire
  BY <1>9, TimePasses
<1> QED
  BY <1>2, <1>3, <1>4, <1>5, <1>6, <1>7, <1>8, <1>9 DEF C!Next

LEMMA CacheInit == C!Init => CacheSound
<1> SUFFICES ASSUME C!Init PROVE CacheSound
  OBVIOUS
<1>1. /\ clock = 0 /\ data = [u \in CachedUsers |-> 0]
      /\ DOMAIN until = {} /\ DOMAIN cache = {}
      /\ caching = [q \in InFlight |-> C!Idle]
  BY DEF C!Init
<1>2. VersionsSound
  BY <1>1 DEF VersionsSound
<1> QED
  BY <1>1, <1>2, NothingHeld DEF CacheSound

LEMMA CacheRead ==
  ASSUME CacheSound
  PROVE  C!CachedFresh
<1>1. SUFFICES ASSUME NEW k \in DOMAIN cache, <<k.user, cache[k].version>> \in DOMAIN until
               PROVE  clock < until[<<k.user, cache[k].version>>] + TTL + MaxHandler + 1
  BY DEF C!CachedFresh
<1>2. PICK e : e = cache[k]
  OBVIOUS
<1>3. EntrySound(k, e)
  BY <1>2 DEF CacheSound
<1>4. until[<<k.user, e.version>>] \in Nat
  BY <1>1, <1>2, <1>3 DEF EntrySound, CacheSound, VersionsSound
<1>5. ~(until[<<k.user, e.version>>] < e.expires - TTL - MaxHandler)
  BY <1>1, <1>2, <1>3 DEF EntrySound, StoppedBefore
<1>6. /\ clock \in Nat /\ TTL \in Nat /\ MaxHandler \in Nat
      /\ e.expires \in Nat /\ clock <= e.expires
  BY <1>3, TimesAssumption DEF EntrySound, CacheSound, VersionsSound
<1> QED
  BY <1>2, <1>4, <1>5, <1>6

-----------------------------------------------------------------------------
(* Pipeline and cache together.                                            *)
HttpParts == ReportsSound /\ WindowsSound /\ CacheSound

LEMMA HttpPartsNext == HttpParts /\ [HttpNext]_ofHttp => HttpParts'
<1> SUFFICES ASSUME HttpParts, [HttpNext]_ofHttp PROVE HttpParts'
  OBVIOUS
<1>1. ASSUME UNCHANGED ofPipeline PROVE ReportsSound' /\ WindowsSound'
  <2>1. UNCHANGED <<now, store, req, passed, errors, reports>>
    BY <1>1 DEF ofPipeline
  <2>2. ReportsSound'
    BY <2>1 DEF HttpParts, ReportsSound, AnsweringSound, Reporting
  <2>3. WindowsSound'
    BY <2>1 DEF HttpParts, WindowsSound, Window, Since, Before
  <2> QED
    BY <2>2, <2>3
<1>2. ASSUME UNCHANGED ofCache PROVE CacheSound'
  <2>1. UNCHANGED <<clock, data, until, cache, caching>>
    BY <1>2 DEF ofCache
  <2> QED
    BY <2>1, CacheMoves DEF HttpParts, CacheSound
<1>3. CASE H!Next /\ UNCHANGED ofCache
  BY <1>2, <1>3, ReportsNext, WindowsNext DEF HttpParts
<1>4. CASE C!Next /\ UNCHANGED ofPipeline
  BY <1>1, <1>4, CacheNext DEF HttpParts
<1>5. CASE UNCHANGED ofHttp
  BY <1>1, <1>2, <1>5 DEF HttpParts, ofHttp
<1> QED
  BY <1>3, <1>4, <1>5 DEF HttpNext, OfPipeline, OfCache

LEMMA AlwaysHttpParts == HttpSpec => []HttpParts
<1>1. HttpInit => HttpParts
  BY PipelineInit, CacheInit DEF HttpInit, HttpParts
<1> QED
  BY <1>1, HttpPartsNext, PTL DEF HttpSpec

(* For any limits, however requests are spread over windows that open with *)
(* one and a store that is swept now and then.                             *)
THEOREM NoMoreThanTwice == HttpSpec => []AtMostTwice
<1>1. HttpParts => AtMostTwice
  BY WindowsRead DEF HttpParts, AtMostTwice
<1> QED
  BY <1>1, AlwaysHttpParts, PTL

(* Each answer of 500 or more is reported once, whatever was thrown where. *)
THEOREM EveryFailureIsReported == HttpSpec => []FailuresReported
<1>1. HttpParts => FailuresReported
  BY ReportsRead DEF HttpParts, FailuresReported
<1> QED
  BY <1>1, AlwaysHttpParts, PTL

(* No order of reads, changes, stores and evictions keeps what is outdated *)
(* longer than the time to live and the time a handler takes.              *)
THEOREM CacheIsFresh == HttpSpec => []CachedFresh
<1>1. HttpParts => CachedFresh
  BY CacheRead DEF HttpParts, CachedFresh
<1> QED
  BY <1>1, AlwaysHttpParts, PTL
=============================================================================
