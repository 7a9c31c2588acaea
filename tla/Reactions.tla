----------------------------- MODULE Reactions -----------------------------
(***************************************************************************)
(* The reactions of users to posts and comments, and the comments they may *)
(* react to.  The same table of reactions is written by the reactions      *)
(* module, a request at a time, and by the save of a post.                 *)
(*                                                                         *)
(* The comments module can only write: fromPersistence calls the           *)
(* constructor of a class without `new', which the configured target       *)
(* (ES2021) leaves a TypeError.  No comment is ever loaded.                *)
(***************************************************************************)
EXTENDS Maps, Integers, FiniteSets

CONSTANTS Users, Posts, Comments,
          Ids,      \* ids of reaction rows
          Requests  \* slots for requests in progress

VARIABLES
  posts,      \* post -> its author
  comments,   \* comment -> [post, author]
  reactions,  \* id -> row
  req,        \* request -> where it is in its use case
  byPosts,    \* history: rows the save of a post created
  owed        \* history: reactions made to what another wrote, less those
              \* announced and those whose announcement was lost

targets == <<posts, comments>>
vars == <<targets, reactions, byPosts, owed, req>>

Nothing == "none"

(* What the reactions module takes, and what the posts module does.        *)
validTypes == {"LIKE", "HAHA"}
PostTypes == {"LIKE", "LAUGH"}

Targets == Posts \cup Comments

Row == [user : Users, target : Targets, type : validTypes \cup PostTypes]

Idle == [pc |-> "idle"]

IsRequest(r) ==
  \/ r = Idle
  \/ r = [pc |-> "announce"]
  \/ /\ r.pc \in {"find", "insert"}
     /\ r.user \in Users /\ r.target \in Targets /\ r.author \in Users
     /\ r.type \in validTypes \cup PostTypes
  \/ r.pc = "update" /\ r.id \in Ids /\ r.type \in validTypes \cup PostTypes
  \/ r.pc = "delete" /\ r.id \in Ids

(* Every value has its type.                                               *)
TypeOK ==
  /\ IsMap(posts, Posts, Users)
  /\ IsMap(comments, Comments, [post : Posts, author : Users])
  /\ IsMap(reactions, Ids, Row)
  /\ byPosts \subseteq Ids
  /\ DOMAIN req = Requests /\ \A q \in Requests : IsRequest(req[q])
  /\ owed \in Nat

-----------------------------------------------------------------------------
Exists(t) == t \in DOMAIN posts \cup DOMAIN comments

(* findById of PrismaPostService and PrismaCommentService: these select    *)
(* columns and make no entity.                                             *)
AuthorOf(t) == IF t \in Posts THEN posts[t] ELSE comments[t].author

(* findFirst by reactor and target: the unique indexes leave one at most.  *)
ReactionsTo(u, t) ==
  {i \in DOMAIN reactions : reactions[i].user = u /\ reactions[i].target = t}

(* createFromPrimitive throws over any other type.                         *)
isValidReactionType(i) == reactions[i].type \in validTypes

(* Ids are UUIDs: none is made twice while somebody holds it.              *)
Held == {req[q].id : q \in {p \in Requests : req[p].pc \in {"update", "delete"}}}
NewIds == Ids \ (DOMAIN reactions \cup Held)

Goto(q, r) == req' = [req EXCEPT ![q] = r]

Begin(q, r) ==
  /\ req[q] = Idle
  /\ Goto(q, r)
  /\ UNCHANGED <<targets, reactions, byPosts, owed>>

-----------------------------------------------------------------------------
(* Mutant: the types of the posts module are allowed too.                  *)
AnyReactionDto ==
  [post : Posts \cup {Nothing}, comment : Comments \cup {Nothing},
   type : validTypes \cup PostTypes]

(* POST /reactions: of a post and a comment together the post is meant.    *)
CreateReactionDto ==
  [post : Posts \cup {Nothing}, comment : Comments \cup {Nothing}, type : validTypes]

TargetOf(dto) == IF dto.post # Nothing THEN dto.post ELSE dto.comment

createReaction(q, u, dto) ==
  LET target == TargetOf(dto) IN
    /\ target # Nothing /\ Exists(target)
    /\ Begin(q, [pc |-> "find", user |-> u, target |-> target, type |-> dto.type,
                 author |-> AuthorOf(target)])

(* A new entity of another type is not made; updateType does not look.     *)
validateReaction(type) == type \in validTypes

(* createOrUpdateReaction, up to its write: a row of an invalid type fails *)
(* the request, and so does a new reaction of one.                         *)
createOrUpdateReaction(q) ==
  /\ req[q].pc = "find"
  /\ LET r == req[q]
         found == ReactionsTo(r.user, r.target)
     IN \/ /\ found = {} /\ validateReaction(r.type)
           /\ Goto(q, [r EXCEPT !.pc = "insert"])
        \/ /\ found = {} /\ ~validateReaction(r.type)
           /\ Goto(q, Idle)
        \/ \E i \in found :
             Goto(q, IF isValidReactionType(i)
                       THEN [pc |-> "update", id |-> i, type |-> r.type]
                       ELSE Idle)
  /\ UNCHANGED <<targets, reactions, byPosts, owed>>

(* Mutant: every reaction that is saved is announced.                      *)
UpdateAnnounced(q) ==
  /\ req[q].pc = "update" /\ req[q].id \in DOMAIN reactions
  /\ LET row == reactions[req[q].id] IN
       /\ reactions' = With(reactions, req[q].id, [row EXCEPT !.type = req[q].type])
       /\ IF Exists(row.target) /\ AuthorOf(row.target) # row.user
            THEN Goto(q, [pc |-> "announce"])
            ELSE Goto(q, Idle)
  /\ UNCHANGED <<targets, byPosts, owed>>

(* save of an entity that has an id: the update of a row that is gone is   *)
(* an error.                                                               *)
update(q) ==
  /\ req[q].pc = "update" /\ req[q].id \in DOMAIN reactions
  /\ reactions' = [reactions EXCEPT ![req[q].id].type = req[q].type]
  /\ Goto(q, Idle)
  /\ UNCHANGED <<targets, byPosts, owed>>

(* save of one that has none: the indexes refuse a second reaction, the    *)
(* foreign keys one to what was deleted meanwhile.                         *)
insert(q) ==
  /\ req[q].pc = "insert"
  /\ LET r == req[q] IN
        /\ Exists(r.target) /\ ReactionsTo(r.user, r.target) = {}
        /\ \E i \in NewIds :
             reactions' = With(reactions, i, [user |-> r.user, target |-> r.target,
                                              type |-> r.type])
        /\ IF r.author # r.user
             THEN Goto(q, [pc |-> "announce"]) /\ owed' = owed + 1
             ELSE Goto(q, Idle) /\ UNCHANGED owed
  /\ UNCHANGED <<targets, byPosts>>

(* createReactionNotification, of which what it says is left out: an error *)
(* is logged and forgotten.                                                *)
announce(q) ==
  /\ req[q].pc = "announce"
  /\ owed' = owed - 1
  /\ Goto(q, Idle)
  /\ UNCHANGED <<targets, reactions, byPosts>>

validateReactionOwnership(u, i) ==
  i \in DOMAIN reactions /\ isValidReactionType(i) /\ reactions[i].user = u

deleteReaction(q, u, i) ==
  /\ validateReactionOwnership(u, i)
  /\ Begin(q, [pc |-> "delete", id |-> i])

delete(q) ==
  /\ req[q].pc = "delete" /\ req[q].id \in DOMAIN reactions
  /\ reactions' = Without(reactions, {req[q].id})
  /\ byPosts' = byPosts \ {req[q].id}
  /\ Goto(q, Idle)
  /\ UNCHANGED <<targets, owed>>

create(q, u) == \E dto \in CreateReactionDto : createReaction(q, u, dto)

remove(q, u) == \E i \in Ids : deleteReaction(q, u, i)

ReactionsController(q) == \E u \in Users : create(q, u) \/ remove(q, u)

(* An error, or a crash: the request ends where it is.                     *)
fail(q) ==
  /\ req[q] # Idle
  /\ owed' = IF req[q].pc = "announce" THEN owed - 1 ELSE owed
  /\ Goto(q, Idle)
  /\ UNCHANGED <<targets, reactions, byPosts>>

-----------------------------------------------------------------------------
(* What the reading handlers answer: all of them make entities of the rows *)
(* they find, except the status, which reads the columns.                  *)
Shown(rows) == IF \A i \in rows : isValidReactionType(i) THEN rows ELSE {}

GetReactionsQuery ==
  [post : Posts \cup {Nothing}, comment : Comments \cup {Nothing},
   reactor : Users \cup {Nothing}, targetType : {"post", "comment", Nothing}]

(* Where a type is asked for too, which post or comment is forgotten.      *)
PostAskedFor(query, t) ==
  IF query.targetType = "post" THEN t \in Posts ELSE query.post \in {Nothing, t}

CommentAskedFor(query, t) ==
  IF query.targetType = "comment" THEN t \in Comments ELSE query.comment \in {Nothing, t}

findAll(query) ==
  Shown({i \in DOMAIN reactions :
           /\ PostAskedFor(query, reactions[i].target)
           /\ CommentAskedFor(query, reactions[i].target)
           /\ query.reactor \in {Nothing, reactions[i].user}})

getPostReactions(p) == Shown({i \in DOMAIN reactions : reactions[i].target = p})

(* The post a listing cannot show, though somebody reacted to it.          *)
Unlistable(p) ==
  getPostReactions(p) = {} /\ \E i \in DOMAIN reactions : reactions[i].target = p

getReactionStatus(u, t) == ReactionsTo(u, t) # {}

-----------------------------------------------------------------------------
(* POST /comments.  No row becomes an entity: findById finds nothing or    *)
(* fails, and so do the handlers that change a comment, which load it      *)
(* first, and those that list them.                                        *)
CreateCommentDto == [post : Posts, parent : Comments \cup {Nothing}]

fromPersistence(c) == FALSE

findById(c) == c \in DOMAIN comments /\ fromPersistence(c)

(* The users and the posts are taken to exist, so it is the foreign key    *)
(* that may refuse the row.  A parent has to load.  The row is saved, and  *)
(* the request fails all the same, on making an entity of it.              *)
createComment(u, dto) ==
  /\ dto.parent # Nothing => findById(dto.parent)
  /\ dto.post \in DOMAIN posts
  /\ \E c \in Comments \ DOMAIN comments :
       comments' = With(comments, c, [post |-> dto.post, author |-> u])
  /\ UNCHANGED <<posts, reactions, byPosts, owed, req>>

(* What the save of a post adds and removes, and what goes with a post or  *)
(* a comment that is deleted: the reactions to it, by the foreign keys.    *)
saveReaction(u, p, type, i) ==
  /\ p \in DOMAIN posts /\ ReactionsTo(u, p) = {}
  /\ i \in NewIds
  /\ reactions' = With(reactions, i, [user |-> u, target |-> p, type |-> type])
  /\ byPosts' = byPosts \cup {i}
  /\ UNCHANGED <<targets, owed, req>>

dropReaction(i) ==
  /\ i \in DOMAIN reactions /\ reactions[i].target \in Posts
  /\ reactions' = Without(reactions, {i})
  /\ byPosts' = byPosts \ {i}
  /\ UNCHANGED <<targets, owed, req>>

Cascade(gone) ==
  LET rows == {i \in DOMAIN reactions : reactions[i].target \in gone} IN
    reactions' = Without(reactions, rows) /\ byPosts' = byPosts \ rows

dropComment(c) ==
  /\ c \in DOMAIN comments
  /\ comments' = Without(comments, {c})
  /\ Cascade({c})
  /\ UNCHANGED <<posts, owed, req>>

deletePost(p) ==
  /\ p \in DOMAIN posts
  /\ LET replies == {c \in DOMAIN comments : comments[c].post = p} IN
       /\ posts' = Without(posts, {p})
       /\ comments' = Without(comments, replies)
       /\ Cascade({p} \cup replies)
  /\ UNCHANGED <<owed, req>>

-----------------------------------------------------------------------------
Init ==
  /\ posts \in [Posts -> Users]
  /\ comments = [c \in {} |-> c]
  /\ reactions = [i \in {} |-> i]
  /\ req = [q \in Requests |-> Idle]
  /\ byPosts = {}
  /\ owed = 0

PostsModule ==
  \/ \E u \in Users, p \in Posts, type \in PostTypes, i \in Ids : saveReaction(u, p, type, i)
  \/ \E i \in Ids : dropReaction(i)
  \/ \E c \in Comments : dropComment(c)
  \/ \E p \in Posts : deletePost(p)

Next ==
  \/ \E q \in Requests :
       \/ ReactionsController(q)
       \/ createOrUpdateReaction(q) \/ update(q) \/ insert(q) \/ announce(q) \/ delete(q)
       \/ fail(q)
  \/ \E u \in Users, dto \in CreateCommentDto : createComment(u, dto)
  \/ PostsModule

Spec == Init /\ [][Next]_vars

-----------------------------------------------------------------------------
(* Of the reactions a user newly made to what somebody else wrote, each    *)
(* was announced once, is about to be, or its announcement was lost to an  *)
(* error or a crash: changing a reaction announces nothing, and of two     *)
(* requests that both found no reaction one is announced.                  *)
AnnouncedOnce ==
  owed = Cardinality({q \in Requests : req[q].pc = "announce"})

(* When the reactions to a post cannot be listed, not even by those who    *)
(* reacted properly, then because the save of a post stored a reaction of  *)
(* a type the reactions module does not have: it never stores one itself.  *)
UnlistableByPosts ==
  \A p \in Posts :
    Unlistable(p) =>
      \E i \in byPosts : reactions[i].target = p /\ reactions[i].type = "LAUGH"

(* Nobody is listed twice with a reaction to one thing, whichever module   *)
(* stored it and whatever is asked for; asked for a user and a post, the   *)
(* list has one at most, unless the type of the target is asked for as     *)
(* well, which replaces the post by all posts; and the list of a post,     *)
(* where there is one, agrees with the status.                             *)
ListedOnce ==
  /\ \A query \in GetReactionsQuery : \A i, j \in findAll(query) :
       (reactions[i].user = reactions[j].user /\ reactions[i].target = reactions[j].target)
         => i = j
  /\ \A query \in GetReactionsQuery :
       (query.post # Nothing /\ query.reactor # Nothing /\ query.targetType # "post") =>
         Cardinality(findAll(query)) <= 1
  /\ \A u \in Users, p \in Posts :
       ~Unlistable(p) =>
         (getReactionStatus(u, p) <=> \E i \in getPostReactions(p) : reactions[i].user = u)
=============================================================================
