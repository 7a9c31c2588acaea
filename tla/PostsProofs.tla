----------------------------- MODULE PostsProofs ----------------------------
(***************************************************************************)
(* Posts for every number of users, rows and overlapping requests.  The    *)
(* inductive invariant says, for each statement of save, what a request    *)
(* that nobody disturbed has reached when it is about to run it.           *)
(***************************************************************************)
EXTENDS Posts, MapTheorems

Entity(text, M, rs, cs) == [text |-> text, media |-> M, reactions |-> rs, comments |-> cs]

Saver(pc, e, ids, disturbed) ==
  [pc |-> pc, entity |-> e, ids |-> ids, disturbed |-> disturbed]

(* A request in save has these fields and no others.                       *)
HasShape(r) ==
  r.pc \in Saving =>
    r = Saver(r.pc, Entity(r.entity.text, r.entity.media, r.entity.reactions,
                           r.entity.comments), r.ids, r.disturbed)

PostOf(text) == IF text THEN "text" ELSE "blank"

SameUsers(rs) == \A x \in DOMAIN reactions \cap DOMAIN rs : reactions[x].user = rs[x].user

(* Where the tables are when nobody disturbed the request r.               *)
Reached(r) ==
  r.pc \in Saving /\ ~r.disturbed =>
    LET e == r.entity IN
      /\ r.pc \in {"clearMedia", "addMedia", "readReactions"} => post = PostOf(e.text)
      /\ r.pc = "addMedia" => media = {}
      /\ r.pc = "readReactions" => media = e.media
      /\ r.pc \in {"upsert", "clearMedia", "addMedia", "readReactions", "dropReactions",
                   "addReactions"} => SameUsers(e.reactions)
      /\ r.pc = "dropReactions" => r.ids = DOMAIN reactions
      /\ r.pc = "addReactions" => DOMAIN reactions = r.ids \cap DOMAIN e.reactions
      /\ r.pc = "readComments" => ReactorsOf(reactions) = ReactorsOf(e.reactions)
      /\ r.pc = "dropComments" => r.ids = DOMAIN comments
      /\ r.pc = "putComments" => /\ DOMAIN comments \subseteq DOMAIN e.comments
                                 /\ r.ids \subseteq DOMAIN e.comments
                                 /\ DOMAIN e.comments \ r.ids \subseteq DOMAIN comments
      /\ r.pc = "reload" => DOMAIN comments = DOMAIN e.comments

RequestsReached == \A q \in Requests : HasShape(req[q]) /\ Reached(req[q])

IInv == TypeOK /\ RequestsReached /\ UnloadableExplained

-----------------------------------------------------------------------------
(* Requests.                                                               *)
LEMMA IdleFacts ==
  /\ IsRequest(Idle) /\ HasShape(Idle) /\ Reached(Idle) /\ Idle.pc = "idle"
  /\ IsRequest([pc |-> "delete"]) /\ HasShape([pc |-> "delete"]) /\ Reached([pc |-> "delete"])
  BY DEF IsRequest, HasShape, Reached, Idle, Saving

LEMMA SaverFacts ==
  ASSUME NEW pc \in Saving, NEW text \in BOOLEAN, NEW M \in SUBSET Media,
         NEW rs, IsMap(rs, Reactions, Reaction),
         NEW cs, IsMap(cs, Comments, Parent \cup {ReadNoParent}),
         NEW ids \in SUBSET (Reactions \cup Comments), NEW disturbed \in BOOLEAN
  PROVE  /\ IsRequest(Saver(pc, Entity(text, M, rs, cs), ids, disturbed))
         /\ HasShape(Saver(pc, Entity(text, M, rs, cs), ids, disturbed))
  BY DEF IsRequest, HasShape, Saver, Entity, IsEntity

(* The fields of a request in save.                                        *)
LEMMA HeldFacts ==
  ASSUME IInv, NEW q \in Requests, req[q].pc \in Saving
  PROVE  /\ q \in Held /\ HasShape(req[q]) /\ Reached(req[q]) /\ IsRequest(req[q])
         /\ req[q].entity.text \in BOOLEAN /\ req[q].entity.media \subseteq Media
         /\ IsMap(req[q].entity.reactions, Reactions, Reaction)
         /\ IsMap(req[q].entity.comments, Comments, Parent \cup {ReadNoParent})
         /\ req[q].ids \subseteq Reactions \cup Comments /\ req[q].disturbed \in BOOLEAN
         /\ req[q] = Saver(req[q].pc, Entity(req[q].entity.text, req[q].entity.media,
                             req[q].entity.reactions, req[q].entity.comments),
                           req[q].ids, req[q].disturbed)
<1>1. HasShape(req[q]) /\ Reached(req[q]) /\ IsRequest(req[q]) /\ q \in Held
  BY DEF IInv, TypeOK, RequestsReached, Held
<1>2. req[q] \notin {Idle, [pc |-> "delete"]}
  BY DEF Idle, Saving
<1>3. IsEntity(req[q].entity) /\ req[q].ids \subseteq Reactions \cup Comments
        /\ req[q].disturbed \in BOOLEAN
  BY <1>1, <1>2 DEF IsRequest
<1> QED
  BY <1>1, <1>3 DEF IsEntity, HasShape

(* Changing one field of a request, or of its entity.                      *)
LEMMA SaverExcept ==
  ASSUME NEW pc, NEW e, NEW ids, NEW d, NEW r, r = Saver(pc, e, ids, d), NEW x
  PROVE  /\ [r EXCEPT !.pc = x] = Saver(x, e, ids, d)
         /\ [r EXCEPT !.entity = x] = Saver(pc, x, ids, d)
         /\ [r EXCEPT !.ids = x] = Saver(pc, e, x, d)
         /\ [r EXCEPT !.disturbed = x] = Saver(pc, e, ids, x)
         /\ r.pc = pc /\ r.entity = e /\ r.ids = ids /\ r.disturbed = d
<1>1. [r EXCEPT !.pc = x] = Saver(x, e, ids, d)
  BY DEF Saver
<1>2. [r EXCEPT !.entity = x] = Saver(pc, x, ids, d)
  BY DEF Saver
<1>3. [r EXCEPT !.ids = x] = Saver(pc, e, x, d)
  BY DEF Saver
<1>4. [r EXCEPT !.disturbed = x] = Saver(pc, e, ids, x)
  BY DEF Saver
<1>5. r.pc = pc /\ r.entity = e /\ r.ids = ids /\ r.disturbed = d
  BY DEF Saver
<1> QED
  BY <1>1, <1>2, <1>3, <1>4, <1>5

LEMMA EntityExcept ==
  ASSUME NEW text, NEW M, NEW rs, NEW cs, NEW e, e = Entity(text, M, rs, cs), NEW x
  PROVE  /\ [e EXCEPT !.text = x] = Entity(x, M, rs, cs)
         /\ [e EXCEPT !.media = x] = Entity(text, x, rs, cs)
         /\ [e EXCEPT !.reactions = x] = Entity(text, M, x, cs)
         /\ [e EXCEPT !.comments = x] = Entity(text, M, rs, x)
         /\ e.text = text /\ e.media = M /\ e.reactions = rs /\ e.comments = cs
<1>1. [e EXCEPT !.text = x] = Entity(x, M, rs, cs)
  BY DEF Entity
<1>2. [e EXCEPT !.media = x] = Entity(text, x, rs, cs)
  BY DEF Entity
<1>3. [e EXCEPT !.reactions = x] = Entity(text, M, x, cs)
  BY DEF Entity
<1>4. [e EXCEPT !.comments = x] = Entity(text, M, rs, x)
  BY DEF Entity
<1>5. e.text = text /\ e.media = M /\ e.reactions = rs /\ e.comments = cs
  BY DEF Entity
<1> QED
  BY <1>1, <1>2, <1>3, <1>4, <1>5

(* What a statement makes of a request in save.                            *)
LEMMA ThenFacts ==
  ASSUME NEW q, NEW pc, NEW e, NEW ids, NEW d, NEW step, NEW S, req[q] = Saver(pc, e, ids, d)
  PROVE  /\ Then(q, step) = Saver(step, e, ids, d)
         /\ Reading(q, step, S) = Saver(step, e, S, d)
<1>1. PICK r : r = req[q]
  OBVIOUS
<1>2. PICK s : s = [r EXCEPT !.pc = step]
  OBVIOUS
<1>3. s = Saver(step, e, ids, d)
  BY <1>1, <1>2, SaverExcept
<1>4. [s EXCEPT !.ids = S] = Saver(step, e, S, d)
  BY <1>3, SaverExcept
<1>5. [r EXCEPT !.pc = step, !.ids = S] = [s EXCEPT !.ids = S]
  BY <1>2, Zenon
<1> QED
  BY <1>1, <1>2, <1>3, <1>4, <1>5 DEF Then, Reading

LEMMA ForgetReactionsFacts ==
  ASSUME NEW pc, NEW text, NEW M, NEW rs, NEW cs, NEW ids, NEW d, NEW r,
         r = Saver(pc, Entity(text, M, rs, cs), ids, d)
  PROVE  ForgetReactions(r) = Saver(pc, Entity(text, M, NoReactions, cs), ids, d)
<1>1. PICK e : e = Entity(text, M, rs, cs)
  OBVIOUS
<1>2. r.entity = e
  BY <1>1, SaverExcept
<1>3. PICK h : h = [r.entity EXCEPT !.reactions = NoReactions]
  OBVIOUS
<1>4. h = Entity(text, M, NoReactions, cs)
  BY <1>1, <1>2, <1>3, EntityExcept
<1>5. [r EXCEPT !.entity.reactions = NoReactions] = [r EXCEPT !.entity = h]
  BY <1>3
<1>6. [r EXCEPT !.entity = h] = Saver(pc, h, ids, d)
  BY SaverExcept
<1> QED
  BY <1>4, <1>5, <1>6 DEF ForgetReactions

LEMMA ForgetContentFacts ==
  ASSUME NEW pc, NEW text, NEW M, NEW rs, NEW cs, NEW ids, NEW d, NEW r,
         r = Saver(pc, Entity(text, M, rs, cs), ids, d)
  PROVE  \E no \in BOOLEAN : ForgetContent(r) = Saver(pc, Entity(no, {}, rs, cs), ids, d)
<1>0. PICK no : no = FALSE
  OBVIOUS
<1>1. PICK f : f = [r.entity EXCEPT !.text = no]
  OBVIOUS
<1>2. PICK s : s = [r EXCEPT !.entity.text = no]
  OBVIOUS
<1>3. PICK e : e = Entity(text, M, rs, cs)
  OBVIOUS
<1>4. r.entity = e
  BY <1>3, SaverExcept
<1>5. f = Entity(no, M, rs, cs)
  <2>1. f = [e EXCEPT !.text = no]
    BY <1>1, <1>4
  <2> QED
    BY <1>3, <2>1 DEF Entity
<1>6. s = [r EXCEPT !.entity = f]
  BY <1>1, <1>2
<1>7. s = Saver(pc, f, ids, d)
  BY <1>6, SaverExcept
<1>8. PICK g : g = [s.entity EXCEPT !.media = {}]
  OBVIOUS
<1>9. s.entity = f
  BY <1>7 DEF Saver
<1>10. g = Entity(no, {}, rs, cs)
  <2>1. g = [f EXCEPT !.media = {}]
    BY <1>8, <1>9
  <2> QED
    BY <1>5, <2>1 DEF Entity
<1>11. [s EXCEPT !.entity.media = {}] = [s EXCEPT !.entity = g]
  BY <1>8
<1>12. [s EXCEPT !.entity = g] = Saver(pc, g, ids, d)
  BY <1>7, SaverExcept
<1>13. [r EXCEPT !.entity.text = no, !.entity.media = {}] = [s EXCEPT !.entity.media = {}]
  BY <1>2
<1> QED
  BY <1>0, <1>10, <1>11, <1>12, <1>13 DEF ForgetContent

LEMMA DisturbedSaver ==
  ASSUME NEW pc, NEW e, NEW ids, NEW d, NEW s, s = Saver(pc, e, ids, d), NEW x
  PROVE  \A r : r = [s EXCEPT !.disturbed = x] => r = Saver(pc, e, ids, x)
<1>1. [s EXCEPT !.disturbed = x] = Saver(pc, e, ids, x)
  BY DEF Saver
<1> QED
  BY <1>1

(* Another request that is in save is disturbed, and stays where it is.    *)
LEMMA Disturbed ==
  ASSUME IInv, NEW p \in Held, NEW r, r = [req[p] EXCEPT !.disturbed = TRUE]
  PROVE  IsRequest(r) /\ HasShape(r) /\ r.disturbed /\ r.pc = req[p].pc
<1>1. p \in Requests /\ req[p].pc \in Saving
  BY DEF Held
<1>2. PICK pc, text, M, rs, cs, ids, d :
        /\ req[p] = Saver(pc, Entity(text, M, rs, cs), ids, d) /\ pc = req[p].pc
        /\ text \in BOOLEAN /\ M \subseteq Media /\ IsMap(rs, Reactions, Reaction)
        /\ IsMap(cs, Comments, Parent \cup {ReadNoParent})
        /\ ids \subseteq Reactions \cup Comments
  <2>1. /\ req[p].entity.text \in BOOLEAN /\ req[p].entity.media \subseteq Media
        /\ IsMap(req[p].entity.reactions, Reactions, Reaction)
        /\ IsMap(req[p].entity.comments, Comments, Parent \cup {ReadNoParent})
        /\ req[p].ids \subseteq Reactions \cup Comments
        /\ req[p] = Saver(req[p].pc, Entity(req[p].entity.text, req[p].entity.media,
                            req[p].entity.reactions, req[p].entity.comments),
                          req[p].ids, req[p].disturbed)
    BY <1>1, HeldFacts
  <2> QED
    BY <2>1
<1>3. PICK e : e = Entity(text, M, rs, cs)
  OBVIOUS
<1>4. PICK s : s = req[p]
  OBVIOUS
<1>5. s = Saver(pc, e, ids, d)
  BY <1>2, <1>3, <1>4
<1>6. r = Saver(pc, e, ids, TRUE)
  <2>1. PICK yes : yes = TRUE
    OBVIOUS
  <2>2. r = [s EXCEPT !.disturbed = yes]
    BY <1>4, <2>1
  <2>3. r = Saver(pc, e, ids, yes)
    BY <1>5, <2>2, DisturbedSaver
  <2> QED
    BY <2>1, <2>3
<1>7. r = Saver(pc, Entity(text, M, rs, cs), ids, TRUE)
  BY <1>3, <1>6
<1>8. IsRequest(Saver(pc, Entity(text, M, rs, cs), ids, TRUE))
        /\ HasShape(Saver(pc, Entity(text, M, rs, cs), ids, TRUE))
  BY <1>1, <1>2, SaverFacts
<1>9. r.disturbed = TRUE /\ r.pc = pc
  BY <1>7 DEF Saver
<1> QED
  BY <1>2, <1>7, <1>8, <1>9

TablesOK ==
  /\ post \in {"none", "text", "blank"}
  /\ media \subseteq Media
  /\ IsMap(reactions, Reactions, Reaction)
  /\ IsMap(comments, Comments, Parent)
  /\ excused \in BOOLEAN

(* A statement that leaves the tables alone.                               *)
LEMMA GotoStep ==
  ASSUME IInv, NEW q \in Requests, NEW r, Goto(q, r), IsRequest(r), HasShape(r), Reached(r),
         UNCHANGED tables, excused' \in BOOLEAN, UnloadableExplained'
  PROVE  IInv'
<1>1. /\ DOMAIN req' = Requests /\ req'[q] = r
      /\ \A p \in Requests : p # q => req'[p] = req[p]
  BY DEF IInv, TypeOK, Goto
<1>2. TypeOK'
  BY <1>1 DEF IInv, TypeOK, tables, IsRequest, IsEntity
<1>3. RequestsReached'
  <2>1. ASSUME NEW x, Reached(x)
        PROVE  Reached(x)'
    BY <2>1 DEF Reached, SameUsers, ReactorsOf, tables
  <2> QED
    BY <1>1, <2>1 DEF IInv, RequestsReached, HasShape
<1> QED
  BY <1>2, <1>3 DEF IInv

(* A statement that changes them.                                          *)
LEMMA ChangingStep ==
  ASSUME IInv, NEW q \in Requests, NEW r, GotoChanging(q, r), IsRequest(r), HasShape(r),
         Reached(r)', TablesOK', UnloadableExplained'
  PROVE  IInv'
<1>1. /\ DOMAIN req' = Requests /\ req'[q] = r
      /\ \A p \in Requests : p # q => req'[p] = IF p \in Held
                                                THEN [req[p] EXCEPT !.disturbed = TRUE]
                                                ELSE req[p]
  BY DEF GotoChanging
<1>2. ASSUME NEW p \in Requests
      PROVE  IsRequest(req'[p]) /\ HasShape(req'[p]) /\ Reached(req[p])'
  <2>1. CASE p = q
    BY <1>1, <2>1
  <2>2. CASE p # q /\ p \in Held
    BY <1>1, <2>2, Disturbed DEF Reached
  <2>3. CASE p # q /\ p \notin Held
    BY <1>1, <2>3 DEF IInv, TypeOK, RequestsReached, HasShape, Reached, Held
  <2> QED
    BY <2>1, <2>2, <2>3
<1>3. TypeOK'
  BY <1>1, <1>2 DEF TypeOK, TablesOK, IsRequest, IsEntity
<1>4. RequestsReached'
  BY <1>1, <1>2 DEF RequestsReached, HasShape
<1> QED
  BY <1>3, <1>4 DEF IInv

(* The requests between the deletion and the insertion of the media stay   *)
(* there when others move.                                                 *)
LEMMA StaysExplained ==
  ASSUME IInv, NEW q \in Requests, NEW r, Goto(q, r) \/ GotoChanging(q, r),
         UNCHANGED <<post, media>>, excused => excused',
         req[q].pc \in {"clearMedia", "addMedia"} =>
           r.pc \in {"clearMedia", "addMedia"} \/ excused'
  PROVE  UnloadableExplained'
<1>1. req'[q] = r /\ \A p \in Requests : p # q => req'[p].pc = req[p].pc
  BY Disturbed DEF IInv, TypeOK, Goto, GotoChanging
<1> QED
  BY <1>1 DEF IInv, UnloadableExplained, Exists, Loadable

-----------------------------------------------------------------------------
(* The use cases.                                                          *)
LEMMA BeginSaveStep ==
  ASSUME IInv, NEW q \in Requests, NEW text \in BOOLEAN, NEW M \in SUBSET Media,
         NEW rs, IsMap(rs, Reactions, Reaction), SameUsers(rs),
         NEW cs, IsMap(cs, Comments, Parent \cup {ReadNoParent}),
         NEW e, e = Entity(text, M, rs, cs), BeginSave(q, e)
  PROVE  IInv'
<1>1. PICK r : r = Saver("upsert", Entity(text, M, rs, cs), {}, FALSE)
  OBVIOUS
<1>2. Goto(q, r) /\ UNCHANGED <<tables, excused>> /\ req[q].pc = "idle"
  BY <1>1 DEF BeginSave, Saver, Idle
<1>3. IsRequest(r) /\ HasShape(r)
  BY <1>1, SaverFacts DEF Saving
<1>4. Reached(r)
  BY <1>1 DEF Reached, Saver, Entity
<1>5. UnloadableExplained'
  <2>1. UNCHANGED <<post, media>> /\ (excused => excused')
    BY <1>2 DEF tables
  <2>2. ~(req[q].pc \in {"clearMedia", "addMedia"})
    BY <1>2
  <2> QED
    BY <1>2, <2>1, <2>2, StaysExplained
<1>6. UNCHANGED tables /\ excused' \in BOOLEAN
  BY <1>2 DEF IInv, TypeOK
<1> QED
  BY <1>2, <1>3, <1>4, <1>5, <1>6, GotoStep

ReadComments ==
  [c \in DOMAIN comments |-> IF comments[c] = NoParent THEN ReadNoParent ELSE comments[c]]

LEMMA LoadedFacts ==
  ASSUME IInv
  PROVE  /\ Loaded = Entity(post = "text", media, reactions, ReadComments)
         /\ (post = "text") \in BOOLEAN /\ media \subseteq Media
         /\ IsMap(reactions, Reactions, Reaction) /\ SameUsers(reactions)
         /\ IsMap(ReadComments, Comments, Parent \cup {ReadNoParent})
         /\ DOMAIN ReadComments = DOMAIN comments
<1>1. Loaded = Entity(post = "text", media, reactions, ReadComments)
  BY DEF Loaded, Entity, ReadComments
<1>2. IsMap(comments, Comments, Parent) /\ media \subseteq Media
        /\ IsMap(reactions, Reactions, Reaction)
  BY DEF IInv, TypeOK
<1>3. IsMap(ReadComments, Comments, Parent \cup {ReadNoParent})
        /\ DOMAIN ReadComments = DOMAIN comments
  BY <1>2 DEF IsMap, ReadComments
<1>4. SameUsers(reactions)
  BY DEF SameUsers
<1> QED
  BY <1>1, <1>2, <1>3, <1>4

LEMMA createPostStep ==
  ASSUME IInv, NEW q \in Requests, NEW text \in BOOLEAN, NEW M \in SUBSET Media,
         createPost(q, text, M)
  PROVE  IInv'
<1>1. BeginSave(q, Entity(text, M, NoReactions, NoComments))
  BY DEF createPost, Entity
<1>2. IsMap(NoReactions, Reactions, Reaction) /\ SameUsers(NoReactions)
        /\ IsMap(NoComments, Comments, Parent \cup {ReadNoParent})
  BY DEF IsMap, SameUsers, NoReactions, NoComments
<1> QED
  BY <1>1, <1>2, BeginSaveStep

LEMMA updateContentStep ==
  ASSUME IInv, NEW q \in Requests, NEW text \in BOOLEAN, updateContent(q, text)
  PROVE  IInv'
<1>1. PICK e : e = Loaded
  OBVIOUS
<1>2. [e EXCEPT !.text = text] = Entity(text, media, reactions, ReadComments)
  BY <1>1, LoadedFacts, EntityExcept
<1>3. BeginSave(q, Entity(text, media, reactions, ReadComments))
  BY <1>1, <1>2 DEF updateContent
<1> QED
  BY <1>3, LoadedFacts, BeginSaveStep

LEMMA updateMediaStep ==
  ASSUME IInv, NEW q \in Requests, NEW text \in BOOLEAN, NEW M \in SUBSET Media,
         updateMedia(q, text, M)
  PROVE  IInv'
<1>1. PICK e : e = Loaded
  OBVIOUS
<1>2. PICK f : f = [e EXCEPT !.text = text]
  OBVIOUS
<1>3. f = Entity(text, media, reactions, ReadComments)
  BY <1>1, <1>2, LoadedFacts, EntityExcept
<1>4. [f EXCEPT !.media = M] = Entity(text, M, reactions, ReadComments)
  BY <1>3, EntityExcept
<1>5. [e EXCEPT !.text = text, !.media = M] = [f EXCEPT !.media = M]
  BY <1>2, Zenon
<1>6. BeginSave(q, Entity(text, M, reactions, ReadComments))
  BY <1>1, <1>4, <1>5 DEF updateMedia
<1> QED
  BY <1>6, LoadedFacts, BeginSaveStep

(* The use cases that change the reactions of the entity.                  *)
LEMMA WithReactionsStep ==
  ASSUME IInv, NEW q \in Requests, NEW rs, IsMap(rs, Reactions, Reaction), SameUsers(rs),
         BeginSave(q, [Loaded EXCEPT !.reactions = rs])
  PROVE  IInv'
<1>1. PICK e : e = Loaded
  OBVIOUS
<1>2. [e EXCEPT !.reactions = rs] = Entity(post = "text", media, rs, ReadComments)
  BY <1>1, LoadedFacts, EntityExcept
<1>3. BeginSave(q, Entity(post = "text", media, rs, ReadComments))
  BY <1>1, <1>2
<1> QED
  BY <1>3, LoadedFacts, BeginSaveStep

LEMMA WithReactionFacts ==
  ASSUME NEW rs, IsMap(rs, Reactions, Reaction), SameUsers(rs),
         NEW u \in Users, NEW t \in Types, NEW r \in Reactions,
         r \in DOMAIN reactions => reactions[r].user = u
  PROVE  /\ IsMap(WithReaction(rs, u, t, r), Reactions, Reaction)
         /\ SameUsers(WithReaction(rs, u, t, r))
<1>1. PICK x : x = [user |-> u, type |-> t]
  OBVIOUS
<1>2. x \in Reaction /\ x.user = u
  BY <1>1 DEF Reaction
<1>3. IsMap(With(rs, r, x), Reactions, Reaction)
  BY <1>2, WithType
<1>4. SameUsers(With(rs, r, x))
  BY <1>2 DEF SameUsers, With
<1> QED
  BY <1>1, <1>3, <1>4 DEF WithReaction

LEMMA addReactionStep ==
  ASSUME IInv, NEW q \in Requests, NEW u \in Users, NEW t \in Types, NEW r \in Reactions,
         addReaction(q, u, t, r)
  PROVE  IInv'
<1>1. r \in DOMAIN reactions => reactions[r].user = u
  BY DEF addReaction, ReactionsOf, NewReactions
<1>2. IsMap(WithReaction(reactions, u, t, r), Reactions, Reaction)
        /\ SameUsers(WithReaction(reactions, u, t, r))
  BY <1>1, LoadedFacts, WithReactionFacts
<1> QED
  BY <1>2, WithReactionsStep DEF addReaction

LEMMA OthersFacts ==
  ASSUME IInv, NEW u
  PROVE  /\ IsMap(Without(reactions, ReactionsOf(u)), Reactions, Reaction)
         /\ SameUsers(Without(reactions, ReactionsOf(u)))
<1>1. IsMap(Without(reactions, ReactionsOf(u)), Reactions, Reaction)
  BY LoadedFacts, WithoutType
<1>2. SameUsers(Without(reactions, ReactionsOf(u)))
  BY DEF SameUsers, Without, Restrict
<1> QED
  BY <1>1, <1>2

LEMMA removeReactionStep ==
  ASSUME IInv, NEW q \in Requests, NEW u \in Users, removeReaction(q, u)
  PROVE  IInv'
  BY OthersFacts, WithReactionsStep DEF removeReaction

LEMMA toggleReactionStep ==
  ASSUME IInv, NEW q \in Requests, NEW u \in Users, NEW t \in Types, NEW r \in Reactions,
         toggleReaction(q, u, t, r)
  PROVE  IInv'
<1> DEFINE others == Without(reactions, ReactionsOf(u))
<1>1. CASE BeginSave(q, [Loaded EXCEPT !.reactions = others])
  BY <1>1, OthersFacts, WithReactionsStep
<1>2. CASE r \in NewReactions
           /\ BeginSave(q, [Loaded EXCEPT !.reactions = WithReaction(others, u, t, r)])
  <2>1. r \notin DOMAIN reactions
    BY <1>2 DEF NewReactions
  <2>2. IsMap(WithReaction(others, u, t, r), Reactions, Reaction)
          /\ SameUsers(WithReaction(others, u, t, r))
    BY <2>1, OthersFacts, WithReactionFacts
  <2> QED
    BY <1>2, <2>2, WithReactionsStep
<1> QED
  BY <1>1, <1>2 DEF toggleReaction

(* The use cases that change the comments of the entity.                   *)
LEMMA WithCommentsStep ==
  ASSUME IInv, NEW q \in Requests, NEW cs, IsMap(cs, Comments, Parent \cup {ReadNoParent}),
         BeginSave(q, [Loaded EXCEPT !.comments = cs])
  PROVE  IInv'
<1>1. PICK e : e = Loaded
  OBVIOUS
<1>2. [e EXCEPT !.comments = cs] = Entity(post = "text", media, reactions, cs)
  BY <1>1, LoadedFacts, EntityExcept
<1>3. BeginSave(q, Entity(post = "text", media, reactions, cs))
  BY <1>1, <1>2
<1> QED
  BY <1>3, LoadedFacts, BeginSaveStep

LEMMA LoadedComments == IInv => Loaded.comments = ReadComments
  BY LoadedFacts DEF Entity

LEMMA addCommentStep ==
  ASSUME IInv, NEW q \in Requests, NEW c \in Comments, NEW p \in Parent, addComment(q, c, p)
  PROVE  IInv'
<1>1. IsMap(With(ReadComments, c, p), Comments, Parent \cup {ReadNoParent})
  BY LoadedFacts, WithType
<1>2. BeginSave(q, [Loaded EXCEPT !.comments = With(ReadComments, c, p)])
  BY LoadedComments DEF addComment
<1> QED
  BY <1>1, <1>2, WithCommentsStep

LEMMA updateCommentStep ==
  ASSUME IInv, NEW q \in Requests, NEW c \in Comments, updateComment(q, c)
  PROVE  IInv'
<1>1. BeginSave(q, Entity(post = "text", media, reactions, ReadComments))
  BY LoadedFacts DEF updateComment
<1> QED
  BY <1>1, LoadedFacts, BeginSaveStep

LEMMA deleteCommentStep ==
  ASSUME IInv, NEW q \in Requests, NEW c \in Comments, deleteComment(q, c)
  PROVE  IInv'
<1>1. IsMap(Without(ReadComments, {c}), Comments, Parent \cup {ReadNoParent})
  <2>1. IsMap(ReadComments, Comments, Parent \cup {ReadNoParent})
    BY LoadedFacts
  <2> QED
    BY <2>1, WithoutType
<1>2. BeginSave(q, [Loaded EXCEPT !.comments = Without(ReadComments, {c})])
  BY LoadedComments DEF deleteComment
<1> QED
  BY <1>1, <1>2, WithCommentsStep

LEMMA deletePostStep ==
  ASSUME IInv, NEW q \in Requests, deletePost(q)
  PROVE  IInv'
<1>1. PICK r : r = [pc |-> "delete"]
  OBVIOUS
<1>2. Goto(q, r) /\ UNCHANGED <<tables, excused>> /\ req[q].pc = "idle"
  BY <1>1 DEF deletePost, Idle
<1>3. UnloadableExplained'
  <2>1. UNCHANGED <<post, media>> /\ (excused => excused')
    BY <1>2 DEF tables
  <2>2. ~(req[q].pc \in {"clearMedia", "addMedia"})
    BY <1>2
  <2> QED
    BY <1>2, <2>1, <2>2, StaysExplained
<1>4. UNCHANGED tables /\ excused' \in BOOLEAN
  BY <1>2 DEF IInv, TypeOK
<1> QED
  BY <1>1, <1>2, <1>3, <1>4, IdleFacts, GotoStep

-----------------------------------------------------------------------------
(* The statements of save.  Request q runs one, with these fields.         *)
Runs(q, step, text, M, rs, cs, ids, d) ==
  /\ req[q] = Saver(step, Entity(text, M, rs, cs), ids, d)
  /\ text \in BOOLEAN /\ M \in SUBSET Media /\ IsMap(rs, Reactions, Reaction)
  /\ IsMap(cs, Comments, Parent \cup {ReadNoParent})
  /\ ids \in SUBSET (Reactions \cup Comments) /\ d \in BOOLEAN
  /\ Reached(Saver(step, Entity(text, M, rs, cs), ids, d))
  /\ req[q].entity.text = text /\ req[q].entity.media = M
  /\ req[q].entity.reactions = rs /\ req[q].entity.comments = cs
  /\ req[q].ids = ids /\ req[q].disturbed = d /\ req[q].pc = step

LEMMA SaverParts ==
  ASSUME IInv, NEW q \in Requests, NEW step \in Saving, At(q, step)
  PROVE  \E text, M, rs, cs, ids, d : Runs(q, step, text, M, rs, cs, ids, d)
<1>1. req[q].pc = step
  BY DEF At
<1>2. /\ req[q].entity.text \in BOOLEAN /\ req[q].entity.media \subseteq Media
      /\ IsMap(req[q].entity.reactions, Reactions, Reaction)
      /\ IsMap(req[q].entity.comments, Comments, Parent \cup {ReadNoParent})
      /\ req[q].ids \subseteq Reactions \cup Comments /\ req[q].disturbed \in BOOLEAN
      /\ req[q] = Saver(req[q].pc, Entity(req[q].entity.text, req[q].entity.media,
                          req[q].entity.reactions, req[q].entity.comments),
                        req[q].ids, req[q].disturbed)
      /\ Reached(req[q])
  BY <1>1, HeldFacts
<1>3. Runs(q, step, req[q].entity.text, req[q].entity.media, req[q].entity.reactions,
           req[q].entity.comments, req[q].ids, req[q].disturbed)
  BY <1>1, <1>2 DEF Runs
<1> QED
  BY <1>3

(* The same request after the statement is a request.                      *)
LEMMA RunsOn ==
  ASSUME NEW q, NEW step, NEW text, NEW M, NEW rs, NEW cs, NEW ids, NEW d,
         Runs(q, step, text, M, rs, cs, ids, d), NEW next \in Saving,
         NEW S \in SUBSET (Reactions \cup Comments)
  PROVE  /\ IsRequest(Saver(next, Entity(text, M, rs, cs), S, d))
         /\ HasShape(Saver(next, Entity(text, M, rs, cs), S, d))
         /\ Then(q, next) = Saver(next, Entity(text, M, rs, cs), ids, d)
         /\ Reading(q, next, S) = Saver(next, Entity(text, M, rs, cs), S, d)
         /\ ids \in SUBSET (Reactions \cup Comments)
<1>1. /\ req[q] = Saver(step, Entity(text, M, rs, cs), ids, d)
      /\ text \in BOOLEAN /\ M \in SUBSET Media /\ IsMap(rs, Reactions, Reaction)
      /\ IsMap(cs, Comments, Parent \cup {ReadNoParent})
      /\ ids \in SUBSET (Reactions \cup Comments) /\ d \in BOOLEAN
  BY DEF Runs
<1>2. /\ IsRequest(Saver(next, Entity(text, M, rs, cs), S, d))
      /\ HasShape(Saver(next, Entity(text, M, rs, cs), S, d))
  BY <1>1, SaverFacts
<1>3. /\ Then(q, next) = Saver(next, Entity(text, M, rs, cs), ids, d)
      /\ Reading(q, next, S) = Saver(next, Entity(text, M, rs, cs), S, d)
  <2>1. PICK e : e = Entity(text, M, rs, cs)
    OBVIOUS
  <2>2. req[q] = Saver(step, e, ids, d)
    BY <1>1, <2>1
  <2>3. Then(q, next) = Saver(next, e, ids, d)
    BY <2>2, ThenFacts
  <2>4. Reading(q, next, S) = Saver(next, e, S, d)
    BY <2>2, ThenFacts
  <2> QED
    BY <2>1, <2>3, <2>4
<1> QED
  BY <1>1, <1>2, <1>3

LEMMA deleteStep ==
  ASSUME IInv, NEW q \in Requests, delete(q)
  PROVE  IInv'
<1>1. TablesOK'
  BY DEF delete, TablesOK, NoReactions, NoComments, IsMap
<1>2. UnloadableExplained' /\ Reached(Idle)'
  BY DEF delete, UnloadableExplained, Exists, Reached, Idle, Saving
<1>3. GotoChanging(q, Idle)
  BY DEF delete
<1> QED
  BY <1>1, <1>2, <1>3, IdleFacts, ChangingStep

LEMMA upsertStep ==
  ASSUME IInv, NEW q \in Requests, upsert(q)
  PROVE  IInv'
<1>1. PICK text, M, rs, cs, ids, d : Runs(q, "upsert", text, M, rs, cs, ids, d)
  BY SaverParts DEF upsert, Saving
<1>2. PICK r : r = Saver("clearMedia", Entity(text, M, rs, cs), ids, d)
  OBVIOUS
<1>3. "clearMedia" \in Saving
  BY DEF Saving
<1>4. IsRequest(r) /\ HasShape(r) /\ GotoChanging(q, r)
  BY <1>1, <1>2, <1>3, RunsOn DEF upsert
<1>5. UNCHANGED <<media, reactions, comments, excused>> /\ post' = PostOf(text)
  BY <1>1 DEF upsert, PostOf, Runs
<1>6. TablesOK'
  BY <1>5 DEF TablesOK, IInv, TypeOK, PostOf
<1>7. Reached(r)'
  BY <1>1, <1>2, <1>5 DEF Runs, Reached, SameUsers, Saver, Entity, Saving
<1>8. UnloadableExplained'
  BY <1>2, <1>4 DEF UnloadableExplained, GotoChanging, Saver
<1> QED
  BY <1>4, <1>6, <1>7, <1>8, ChangingStep

LEMMA clearMediaStep ==
  ASSUME IInv, NEW q \in Requests, clearMedia(q)
  PROVE  IInv'
<1>1. PICK text, M, rs, cs, ids, d : Runs(q, "clearMedia", text, M, rs, cs, ids, d)
  BY SaverParts DEF clearMedia, Saving
<1>2. PICK r : r = Saver("addMedia", Entity(text, M, rs, cs), ids, d)
  OBVIOUS
<1>3. "addMedia" \in Saving
  BY DEF Saving
<1>4. IsRequest(r) /\ HasShape(r) /\ GotoChanging(q, r)
  BY <1>1, <1>2, <1>3, RunsOn DEF clearMedia
<1>5. UNCHANGED <<post, reactions, comments, excused>> /\ media' = {}
  BY DEF clearMedia
<1>6. TablesOK'
  BY <1>5 DEF TablesOK, IInv, TypeOK
<1>7. Reached(r)'
  BY <1>1, <1>2, <1>5 DEF Runs, Reached, SameUsers, Saver, Entity, Saving
<1>8. UnloadableExplained'
  BY <1>2, <1>4 DEF UnloadableExplained, GotoChanging, Saver
<1> QED
  BY <1>4, <1>6, <1>7, <1>8, ChangingStep

LEMMA addMediaStep ==
  ASSUME IInv, NEW q \in Requests, addMedia(q)
  PROVE  IInv'
<1>1. PICK text, M, rs, cs, ids, d : Runs(q, "addMedia", text, M, rs, cs, ids, d)
  BY SaverParts DEF addMedia, Saving
<1>2. PICK r : r = Saver("readReactions", Entity(text, M, rs, cs), ids, d)
  OBVIOUS
<1>3. "readReactions" \in Saving
  BY DEF Saving
<1>4. IsRequest(r) /\ HasShape(r) /\ GotoChanging(q, r)
  BY <1>1, <1>2, <1>3, RunsOn DEF addMedia
<1>5. /\ UNCHANGED <<post, reactions, comments>> /\ media' = media \cup M
      /\ excused' = (d \/ ~Valid(text, M))
  <2>1. req[q].entity.text = text /\ req[q].entity.media = M /\ req[q].disturbed = d
    BY <1>1 DEF Runs
  <2>2. excused' = (req[q].disturbed \/ ~Valid(req[q].entity.text, req[q].entity.media))
    BY DEF addMedia
  <2>3. UNCHANGED <<post, reactions, comments>> /\ media' = media \cup req[q].entity.media
    BY DEF addMedia
  <2>4. excused' = (d \/ ~Valid(text, M))
    BY <2>1, <2>2, Zenon
  <2> QED
    BY <2>1, <2>3, <2>4, Zenon
<1>6. TablesOK'
  <2>1. excused' \in BOOLEAN
    BY <1>5, Zenon
  <2> QED
    BY <1>1, <1>5, <2>1 DEF TablesOK, IInv, TypeOK, Runs
<1>7. ~d => post = PostOf(text) /\ media = {} /\ SameUsers(rs)
  BY <1>1 DEF Runs, Reached, Saver, Entity, Saving
<1>8. Reached(r)'
  BY <1>2, <1>5, <1>7 DEF Reached, SameUsers, Saver, Entity, Saving
<1>9. UnloadableExplained'
  BY <1>5, <1>7 DEF UnloadableExplained, Exists, Loadable, Valid, PostOf
<1> QED
  BY <1>4, <1>6, <1>8, <1>9, ChangingStep

(* The statements after addMedia touch neither the post nor its media.     *)
LEMMA QuietStep ==
  ASSUME IInv, NEW q \in Requests, req[q].pc \notin {"clearMedia", "addMedia"},
         NEW r, Goto(q, r), IsRequest(r), HasShape(r), Reached(r), UNCHANGED <<tables, excused>>
  PROVE  IInv'
<1>1. UNCHANGED <<post, media>> /\ (excused => excused') /\ excused' \in BOOLEAN
  BY DEF tables, IInv, TypeOK
<1>2. UnloadableExplained'
  BY <1>1, StaysExplained
<1> QED
  BY <1>1, <1>2, GotoStep

LEMMA RowsStep ==
  ASSUME IInv, NEW q \in Requests, req[q].pc \notin {"clearMedia", "addMedia"},
         NEW r, GotoChanging(q, r), IsRequest(r), HasShape(r), Reached(r)',
         UNCHANGED <<post, media, excused>>,
         IsMap(reactions', Reactions, Reaction), IsMap(comments', Comments, Parent)
  PROVE  IInv'
<1>1. UNCHANGED <<post, media>> /\ (excused => excused')
  OBVIOUS
<1>2. UnloadableExplained'
  BY <1>1, StaysExplained
<1>3. TablesOK'
  BY DEF TablesOK, IInv, TypeOK
<1> QED
  BY <1>2, <1>3, ChangingStep

LEMMA AfterDropFacts ==
  ASSUME NEW q, NEW step, NEW text, NEW M, NEW rs, NEW cs, NEW ids, NEW d,
         Runs(q, step, text, M, rs, cs, ids, d), NEW S \in SUBSET (Reactions \cup Comments)
  PROVE  /\ ~(DOMAIN rs \subseteq S) =>
              AfterDrop(q, S) = Saver("addReactions", Entity(text, M, rs, cs), S, d)
         /\ DOMAIN rs \subseteq S =>
              AfterDrop(q, S) = Saver("readComments", Entity(text, M, rs, cs), {}, d)
<1>1. req[q].entity.reactions = rs
  BY DEF Runs
<1>2. DOMAIN NotFound(q, S) = DOMAIN rs \ S
  BY <1>1 DEF NotFound, Restrict
<1>3. "addReactions" \in Saving /\ "readComments" \in Saving
  BY DEF Saving
<1>4. Reading(q, "addReactions", S) = Saver("addReactions", Entity(text, M, rs, cs), S, d)
  BY <1>3, RunsOn
<1>5. Reading(q, "readComments", {}) = Saver("readComments", Entity(text, M, rs, cs), {}, d)
  BY <1>3, RunsOn
<1> QED
  BY <1>2, <1>4, <1>5 DEF AfterDrop

LEMMA SameReactors ==
  ASSUME NEW a, NEW b, DOMAIN a = DOMAIN b, \A x \in DOMAIN a : a[x].user = b[x].user
  PROVE  ReactorsOf(a) = ReactorsOf(b)
  BY DEF ReactorsOf

LEMMA readReactionsStep ==
  ASSUME IInv, NEW q \in Requests, readReactions(q)
  PROVE  IInv'
<1>1. PICK text, M, rs, cs, ids, d : Runs(q, "readReactions", text, M, rs, cs, ids, d)
  BY SaverParts DEF readReactions, Saving
<1>2. PICK S : S = DOMAIN reactions /\ S \in SUBSET (Reactions \cup Comments)
  BY DEF IInv, TypeOK, IsMap
<1>3. PICK r0 : r0 = IF S \subseteq DOMAIN rs THEN AfterDrop(q, S)
                     ELSE Reading(q, "dropReactions", S)
  OBVIOUS
<1>4. PICK r : r = ForgetContent(r0)
  OBVIOUS
<1>5. Goto(q, r) /\ UNCHANGED <<tables, excused>> /\ req[q].pc = "readReactions"
  BY <1>1, <1>2, <1>3, <1>4 DEF readReactions, Runs
<1>6. PICK step, T :
        /\ r0 = Saver(step, Entity(text, M, rs, cs), T, d)
        /\ step \in Saving /\ T \in SUBSET (Reactions \cup Comments)
        /\ \/ step = "addReactions" /\ T = S /\ S \subseteq DOMAIN rs
           \/ step = "readComments" /\ S = DOMAIN rs
           \/ step = "dropReactions" /\ T = S
  <2>1. CASE ~(S \subseteq DOMAIN rs)
    <3>1. "dropReactions" \in Saving
      BY DEF Saving
    <3>2. Reading(q, "dropReactions", S) = Saver("dropReactions", Entity(text, M, rs, cs), S, d)
      BY <1>1, <1>2, <3>1, RunsOn
    <3> QED
      BY <1>2, <1>3, <2>1, <3>1, <3>2
  <2>2. CASE S \subseteq DOMAIN rs /\ ~(DOMAIN rs \subseteq S)
    <3>1. r0 = Saver("addReactions", Entity(text, M, rs, cs), S, d)
      BY <1>1, <1>2, <1>3, <2>2, AfterDropFacts
    <3> QED
      BY <1>2, <2>2, <3>1 DEF Saving
  <2>3. CASE S = DOMAIN rs
    <3>1. r0 = Saver("readComments", Entity(text, M, rs, cs), {}, d)
      BY <1>1, <1>2, <1>3, <2>3, AfterDropFacts
    <3> QED
      BY <1>2, <2>3, <3>1 DEF Saving
  <2> QED
    BY <2>1, <2>2, <2>3
<1>7. PICK no \in BOOLEAN : r = Saver(step, Entity(no, {}, rs, cs), T, d)
  <2>1. r0 = Saver(step, Entity(text, M, rs, cs), T, d)
    BY <1>6
  <2> QED
    BY <1>4, <2>1, ForgetContentFacts
<1>8. IsRequest(r) /\ HasShape(r)
  BY <1>1, <1>6, <1>7, SaverFacts DEF Runs
<1>9. Reached(r)
  <2>1. ~d => SameUsers(rs)
    BY <1>1 DEF Runs, Reached, Saver, Entity, Saving
  <2>2. ~d /\ step = "readComments" => ReactorsOf(reactions) = ReactorsOf(rs)
    BY <1>2, <1>6, <2>1, SameReactors DEF SameUsers
  <2> QED
    BY <1>2, <1>6, <1>7, <2>1, <2>2 DEF Reached, Saver, Entity
<1> QED
  BY <1>5, <1>8, <1>9, QuietStep

LEMMA dropReactionsStep ==
  ASSUME IInv, NEW q \in Requests, dropReactions(q)
  PROVE  IInv'
<1>1. PICK text, M, rs, cs, ids, d : Runs(q, "dropReactions", text, M, rs, cs, ids, d)
  BY SaverParts DEF dropReactions, Saving
<1>2. PICK r : r = AfterDrop(q, ids)
  OBVIOUS
<1>3. /\ GotoChanging(q, r) /\ UNCHANGED <<post, media, comments, excused>>
      /\ reactions' = Without(reactions, ids \ DOMAIN rs) /\ req[q].pc = "dropReactions"
  BY <1>1, <1>2 DEF dropReactions, Runs
<1>4. IsMap(reactions, Reactions, Reaction) /\ IsMap(comments, Comments, Parent)
  BY DEF IInv, TypeOK
<1>5. IsMap(reactions', Reactions, Reaction) /\ IsMap(comments', Comments, Parent)
  BY <1>3, <1>4, WithoutType
<1>6. ids \in SUBSET (Reactions \cup Comments)
  BY <1>1 DEF Runs
<1>7. ~d => /\ DOMAIN reactions' = ids \cap DOMAIN rs
            /\ \A x \in DOMAIN reactions' : reactions'[x].user = rs[x].user
  BY <1>1, <1>3 DEF Runs, Reached, Saver, Entity, Saving, SameUsers, Without, Restrict
<1>8. CASE DOMAIN rs \subseteq ids
  <2>1. r = Saver("readComments", Entity(text, M, rs, cs), {}, d)
    BY <1>1, <1>2, <1>6, <1>8, AfterDropFacts
  <2>2. IsRequest(r) /\ HasShape(r)
    BY <1>1, <2>1, SaverFacts DEF Runs, Saving
  <2>3. ~d => ReactorsOf(reactions') = ReactorsOf(rs)
    BY <1>7, <1>8, SameReactors
  <2>4. Reached(r)'
    BY <2>1, <2>3 DEF Reached, Saver, Entity
  <2> QED
    BY <1>3, <1>5, <2>2, <2>4, RowsStep
<1>9. CASE ~(DOMAIN rs \subseteq ids)
  <2>1. r = Saver("addReactions", Entity(text, M, rs, cs), ids, d)
    BY <1>1, <1>2, <1>6, <1>9, AfterDropFacts
  <2>2. IsRequest(r) /\ HasShape(r)
    BY <1>1, <2>1, SaverFacts DEF Runs, Saving
  <2>3. Reached(r)'
    BY <1>7, <2>1 DEF Reached, Saver, Entity, SameUsers
  <2> QED
    BY <1>3, <1>5, <2>2, <2>3, RowsStep
<1> QED
  BY <1>8, <1>9

LEMMA addReactionsStep ==
  ASSUME IInv, NEW q \in Requests, addReactions(q)
  PROVE  IInv'
<1>1. PICK text, M, rs, cs, ids, d : Runs(q, "addReactions", text, M, rs, cs, ids, d)
  BY SaverParts DEF addReactions, Saving
<1>2. PICK r : r = Saver("readComments", Entity(text, M, rs, cs), {}, d)
  OBVIOUS
<1>3. PICK created : created = Restrict(rs, DOMAIN rs \ ids)
  OBVIOUS
<1>4. /\ GotoChanging(q, r) /\ UNCHANGED <<post, media, comments, excused>>
      /\ reactions' = WithAll(reactions, created) /\ req[q].pc = "addReactions"
  <2>1. Reading(q, "readComments", {}) = r
    BY <1>1, <1>2, RunsOn DEF Saving
  <2> QED
    BY <1>1, <1>3, <2>1 DEF addReactions, Runs, NotFound
<1>5. IsMap(rs, Reactions, Reaction) /\ IsMap(reactions, Reactions, Reaction)
        /\ IsMap(comments, Comments, Parent)
  BY <1>1 DEF IInv, TypeOK, Runs
<1>6. IsMap(reactions', Reactions, Reaction) /\ IsMap(comments', Comments, Parent)
  BY <1>3, <1>4, <1>5 DEF IsMap, WithAll, Restrict
<1>7. IsRequest(r) /\ HasShape(r)
  BY <1>1, <1>2, SaverFacts DEF Runs, Saving
<1>8. ~d => /\ DOMAIN reactions' = DOMAIN rs
            /\ \A x \in DOMAIN reactions' : reactions'[x].user = rs[x].user
  BY <1>1, <1>3, <1>4
     DEF Runs, Reached, Saver, Entity, Saving, SameUsers, WithAll, Restrict
<1>9. ~d => ReactorsOf(reactions') = ReactorsOf(rs)
  BY <1>8, SameReactors
<1>10. Reached(r)'
  BY <1>2, <1>9 DEF Reached, Saver, Entity
<1> QED
  BY <1>4, <1>6, <1>7, <1>10, RowsStep

LEMMA readCommentsStep ==
  ASSUME IInv, NEW q \in Requests, readComments(q)
  PROVE  IInv'
<1>1. PICK text, M, rs, cs, ids, d : Runs(q, "readComments", text, M, rs, cs, ids, d)
  BY SaverParts DEF readComments, Saving
<1>2. PICK S : S = DOMAIN comments /\ S \in SUBSET (Reactions \cup Comments)
  BY DEF IInv, TypeOK, IsMap
<1>3. PICK r0 : r0 = IF S \subseteq DOMAIN cs THEN Reading(q, "putComments", DOMAIN cs)
                     ELSE Reading(q, "dropComments", S)
  OBVIOUS
<1>4. PICK r : r = ForgetReactions(r0)
  OBVIOUS
<1>5. Goto(q, r) /\ UNCHANGED <<tables, excused>> /\ req[q].pc = "readComments"
  BY <1>1, <1>2, <1>3, <1>4 DEF readComments, Runs
<1>6. DOMAIN cs \in SUBSET (Reactions \cup Comments)
  BY <1>1 DEF Runs, IsMap
<1>7. PICK step, T :
        /\ r0 = Saver(step, Entity(text, M, rs, cs), T, d)
        /\ step \in Saving /\ T \in SUBSET (Reactions \cup Comments)
        /\ \/ step = "putComments" /\ T = DOMAIN cs /\ S \subseteq DOMAIN cs
           \/ step = "dropComments" /\ T = S
  <2>1. "putComments" \in Saving /\ "dropComments" \in Saving
    BY DEF Saving
  <2>2. Reading(q, "putComments", DOMAIN cs) =
          Saver("putComments", Entity(text, M, rs, cs), DOMAIN cs, d)
    BY <1>1, <1>6, <2>1, RunsOn
  <2>3. Reading(q, "dropComments", S) = Saver("dropComments", Entity(text, M, rs, cs), S, d)
    BY <1>1, <1>2, <2>1, RunsOn
  <2> QED
    BY <1>2, <1>3, <1>6, <2>1, <2>2, <2>3
<1>8. r = Saver(step, Entity(text, M, NoReactions, cs), T, d)
  <2>1. r0 = Saver(step, Entity(text, M, rs, cs), T, d)
    BY <1>7
  <2>2. ForgetReactions(r0) = Saver(step, Entity(text, M, NoReactions, cs), T, d)
    BY <2>1, ForgetReactionsFacts
  <2> QED
    BY <1>4, <2>2
<1>9. IsRequest(r) /\ HasShape(r)
  <2>1. IsMap(NoReactions, Reactions, Reaction)
    BY DEF IsMap, NoReactions
  <2> QED
    BY <1>1, <1>7, <1>8, <2>1, SaverFacts DEF Runs
<1>10. Reached(r)
  BY <1>2, <1>7, <1>8 DEF Reached, Saver, Entity
<1> QED
  BY <1>5, <1>9, <1>10, QuietStep

LEMMA dropCommentsStep ==
  ASSUME IInv, NEW q \in Requests, dropComments(q)
  PROVE  IInv'
<1>1. PICK text, M, rs, cs, ids, d : Runs(q, "dropComments", text, M, rs, cs, ids, d)
  BY SaverParts DEF dropComments, Saving
<1>2. PICK gone : gone = ids \ DOMAIN cs
  OBVIOUS
<1>3. PICK r : r = Saver("putComments", Entity(text, M, rs, cs), DOMAIN cs, d)
  OBVIOUS
<1>4. DOMAIN cs \in SUBSET (Reactions \cup Comments)
  BY <1>1 DEF Runs, IsMap
<1>5. /\ GotoChanging(q, r) /\ UNCHANGED <<post, media, reactions, excused>>
      /\ comments' = [c \in DOMAIN comments \ gone |->
                        IF comments[c] \in gone THEN NoParent ELSE comments[c]]
      /\ req[q].pc = "dropComments"
  <2>1. Reading(q, "putComments", DOMAIN cs) = r
    BY <1>1, <1>3, <1>4, RunsOn DEF Saving
  <2> QED
    BY <1>1, <1>2, <2>1 DEF dropComments, Runs
<1>6. IsMap(reactions, Reactions, Reaction) /\ IsMap(comments, Comments, Parent)
  BY DEF IInv, TypeOK
<1>7. IsMap(reactions', Reactions, Reaction) /\ IsMap(comments', Comments, Parent)
  BY <1>5, <1>6 DEF IsMap, Parent
<1>8. IsRequest(r) /\ HasShape(r)
  BY <1>1, <1>3, <1>4, SaverFacts DEF Runs, Saving
<1>9. ~d => ids = DOMAIN comments
  BY <1>1 DEF Runs, Reached, Saver, Entity, Saving
<1>10. Reached(r)'
  BY <1>2, <1>3, <1>5, <1>9 DEF Reached, Saver, Entity
<1> QED
  BY <1>5, <1>7, <1>8, <1>10, RowsStep

LEMMA putCommentStep ==
  ASSUME IInv, NEW q \in Requests, NEW c \in Comments, putComment(q, c)
  PROVE  IInv'
<1>1. PICK text, M, rs, cs, ids, d : Runs(q, "putComments", text, M, rs, cs, ids, d)
  BY SaverParts DEF putComment, Saving
<1>2. PICK r : r = Saver("putComments", Entity(text, M, rs, cs), ids \ {c}, d)
  OBVIOUS
<1>3. ids \ {c} \in SUBSET (Reactions \cup Comments)
  BY <1>1 DEF Runs
<1>4. /\ GotoChanging(q, r) /\ UNCHANGED <<post, media, reactions, excused>>
      /\ req[q].pc = "putComments" /\ c \in ids
  <2>1. Reading(q, "putComments", ids \ {c}) = r
    BY <1>1, <1>2, <1>3, RunsOn DEF Saving
  <2> QED
    BY <1>1, <2>1 DEF putComment, Runs
<1>5. \/ c \in DOMAIN comments /\ comments' = comments
      \/ /\ cs[c] \in DOMAIN comments \cup {NoParent}
         /\ comments' = With(comments, c, cs[c])
  BY <1>1 DEF putComment, Runs, Creatable
<1>6. IsMap(reactions, Reactions, Reaction) /\ IsMap(comments, Comments, Parent)
  BY DEF IInv, TypeOK
<1>7. IsMap(reactions', Reactions, Reaction) /\ IsMap(comments', Comments, Parent)
  <2>1. CASE comments' = comments
    BY <1>4, <1>6, <2>1
  <2>2. CASE cs[c] \in DOMAIN comments \cup {NoParent} /\ comments' = With(comments, c, cs[c])
    <3>1. cs[c] \in Parent
      BY <1>6, <2>2 DEF IsMap, Parent
    <3> QED
      BY <1>4, <1>6, <2>2, <3>1, WithType
  <2> QED
    BY <1>5, <2>1, <2>2
<1>8. IsRequest(r) /\ HasShape(r)
  BY <1>1, <1>2, <1>3, SaverFacts DEF Runs, Saving
<1>9. DOMAIN comments' = DOMAIN comments \cup {c}
  BY <1>5 DEF With
<1>10. ~d => /\ ids \subseteq DOMAIN cs /\ DOMAIN comments \subseteq DOMAIN cs
             /\ DOMAIN cs \ ids \subseteq DOMAIN comments
  BY <1>1 DEF Runs, Reached, Saver, Entity, Saving
<1>11. Reached(r)'
  BY <1>2, <1>4, <1>9, <1>10 DEF Reached, Saver, Entity
<1> QED
  BY <1>4, <1>7, <1>8, <1>11, RowsStep

LEMMA putCommentsDoneStep ==
  ASSUME IInv, NEW q \in Requests, putCommentsDone(q)
  PROVE  IInv'
<1>1. PICK text, M, rs, cs, ids, d : Runs(q, "putComments", text, M, rs, cs, ids, d)
  BY SaverParts DEF putCommentsDone, Saving
<1>2. PICK r : r = Saver("reload", Entity(text, M, rs, cs), ids, d)
  OBVIOUS
<1>3. "reload" \in Saving
  BY DEF Saving
<1>4. IsRequest(r) /\ HasShape(r) /\ Goto(q, r)
  <2>1. ids \in SUBSET (Reactions \cup Comments)
    BY <1>1 DEF Runs
  <2> QED
    BY <1>1, <1>2, <1>3, <2>1, RunsOn DEF putCommentsDone
<1>5. UNCHANGED <<tables, excused>> /\ ids = {} /\ req[q].pc = "putComments"
  BY <1>1 DEF putCommentsDone, Runs
<1>6. Reached(r)
  BY <1>1, <1>2, <1>5 DEF Runs, Reached, Saver, Entity, Saving
<1> QED
  BY <1>4, <1>5, <1>6, QuietStep

LEMMA reloadStep ==
  ASSUME IInv, NEW q \in Requests, reload(q)
  PROVE  IInv'
  BY IdleFacts, QuietStep DEF reload, At

LEMMA failStep ==
  ASSUME IInv, NEW q \in Requests, fail(q)
  PROVE  IInv'
<1>1. Goto(q, Idle) /\ UNCHANGED tables
  BY DEF fail
<1>2. /\ excused' \in BOOLEAN /\ (excused => excused')
      /\ req[q].pc \in {"clearMedia", "addMedia"} => excused'
  BY DEF fail
<1>3. UnloadableExplained'
  <2>1. UNCHANGED <<post, media>>
    BY <1>1 DEF tables
  <2> QED
    BY <1>1, <1>2, <2>1, StaysExplained
<1> QED
  BY <1>1, <1>2, <1>3, IdleFacts, GotoStep

-----------------------------------------------------------------------------
LEMMA InitIInv == Init => IInv
<1>1. SUFFICES ASSUME Init PROVE IInv
  OBVIOUS
<1>2. TypeOK
  BY <1>1 DEF Init, TypeOK, IsRequest, IsMap, NoReactions, NoComments
<1>3. RequestsReached
  BY <1>1, IdleFacts DEF Init, RequestsReached
<1>4. UnloadableExplained
  BY <1>1 DEF Init, UnloadableExplained, Exists
<1> QED
  BY <1>2, <1>3, <1>4 DEF IInv

LEMMA NextIInv == IInv /\ [Next]_vars => IInv'
<1> SUFFICES ASSUME IInv, [Next]_vars
             PROVE  IInv'
  OBVIOUS
<1>1. CASE UNCHANGED vars
  <2>1. TypeOK'
    BY <1>1 DEF vars, tables, IInv, TypeOK, IsRequest, IsEntity
  <2>2. ASSUME NEW x, Reached(x)
        PROVE  Reached(x)'
    BY <1>1, <2>2 DEF vars, tables, Reached, SameUsers, ReactorsOf
  <2>3. RequestsReached'
    BY <1>1, <2>2 DEF vars, IInv, RequestsReached, HasShape
  <2>4. UnloadableExplained'
    BY <1>1 DEF vars, tables, IInv, UnloadableExplained, Exists, Loadable
  <2> QED
    BY <2>1, <2>3, <2>4 DEF IInv
<1>2. ASSUME NEW q \in Requests, UseCase(q)
      PROVE  IInv'
  BY <1>2, createPostStep, updateContentStep, updateMediaStep, addReactionStep,
     removeReactionStep, toggleReactionStep, addCommentStep, updateCommentStep,
     deleteCommentStep, deletePostStep DEF UseCase
<1>3. ASSUME NEW q \in Requests, Statement(q)
      PROVE  IInv'
  BY <1>3, deleteStep, upsertStep, clearMediaStep, addMediaStep, readReactionsStep,
     dropReactionsStep, addReactionsStep, readCommentsStep, dropCommentsStep,
     putCommentStep, putCommentsDoneStep, reloadStep DEF Statement
<1> QED
  BY <1>1, <1>2, <1>3, failStep DEF Next

LEMMA SpecIInv == Spec => []IInv
  BY InitIInv, NextIInv, PTL DEF Spec

(* Every table has the rows its schema allows, and every request that is   *)
(* saving holds an entity of the right type.                               *)
THEOREM RowsAreWellTyped == Spec => []TypeOK
<1>1. IInv => TypeOK
  BY DEF IInv
<1> QED
  BY <1>1, SpecIInv, PTL

(* A save that no other request disturbs leaves exactly the post it was    *)
(* given, statement by statement, whatever earlier failed saves had left.  *)
THEOREM SavesWhatItWasGiven == Spec => []SavedExactly
<1>1. IInv => SavedExactly
  <2>1. ASSUME IInv, NEW q \in Held, ~req[q].disturbed
        PROVE  /\ At(q, "readReactions") =>
                    /\ post = (IF req[q].entity.text THEN "text" ELSE "blank")
                    /\ media = req[q].entity.media
               /\ At(q, "readComments") =>
                    ReactorsOf(reactions) = ReactorsOf(req[q].entity.reactions)
               /\ At(q, "reload") => DOMAIN comments = DOMAIN req[q].entity.comments
    BY <2>1, HeldFacts DEF Held, Reached, At, PostOf
  <2> QED
    BY <2>1 DEF SavedExactly
<1> QED
  BY <1>1, SpecIInv, PTL

(* A post that fails every list it is in is being saved at this moment, or *)
(* some save of it was cut short, overlapped or given no content.          *)
THEOREM UnloadableHasAReason == Spec => []UnloadableExplained
<1>1. IInv => UnloadableExplained
  BY DEF IInv
<1> QED
  BY <1>1, SpecIInv, PTL
=============================================================================
