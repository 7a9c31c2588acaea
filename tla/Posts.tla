-------------------------------- MODULE Posts -------------------------------
(***************************************************************************)
(* The posts module: the use cases of PostApplicationService over the rows *)
(* of one post.  No statement but those on hashtags touches the rows of    *)
(* two posts.                                                              *)
(*                                                                         *)
(* Every use case that changes a post, its reactions or its comments loads *)
(* the whole post, changes the entity in memory and hands it to            *)
(* PostPrismaRepository.save, which makes the tables equal to the entity   *)
(* in some ten statements without a transaction.  The actions are those    *)
(* statements; the statements of several requests interleave, and a        *)
(* request may end after any of its own (a constraint, a lost connection,  *)
(* a restart of the server).                                               *)
(*                                                                         *)
(* Left out: privacy and the age limit on edits (any user may comment, the *)
(* author may edit), who wrote a comment and with which words, the text of *)
(* a post beyond whether it has any, and the hashtag links, which are      *)
(* rewritten like the media.                                               *)
(* New row ids are random, so that a new id is one nobody holds; they are  *)
(* reused here once nobody does.                                           *)
(***************************************************************************)
EXTENDS Maps, FiniteSets, Integers

CONSTANTS Users,
          Author,     \* the author of the post
          Media,      \* ids of media rows
          Reactions,  \* ids of reaction rows
          Types,      \* reaction types
          Comments,   \* ids of comment rows
          Requests,   \* slots for requests in progress
          MaxRows     \* bound: rows of media, reactions and comments an entity has

ASSUME AuthorAssumption == Author \in Users

VARIABLES
  post,       \* the Post row: "none", or whether its content is "text" or "blank"
  media,      \* PostMedia: the ids of the post's rows
  reactions,  \* Reaction: id -> [user, type]
  comments,   \* Comment: id -> id of the comment it replies to
  req,        \* request -> where it is in its use case
  excused     \* history: one of the reasons in UnloadableExplained

tables == <<post, media, reactions, comments>>
vars == <<tables, req, excused>>

Reaction == [user : Users, type : Types]

(* A comment that is no reply has a null parent, in the table and when it  *)
(* is new; mapToEntity reads null as the empty string.                     *)
NoParent == "null"
ReadNoParent == ""

Parent == Comments \cup {NoParent}

IsEntity(e) ==
  /\ e.text \in BOOLEAN
  /\ e.media \subseteq Media
  /\ IsMap(e.reactions, Reactions, Reaction)
  /\ IsMap(e.comments, Comments, Parent \cup {ReadNoParent})

(* The statements of save, in their order.                                 *)
Saving == {"upsert", "clearMedia", "addMedia",
           "readReactions", "dropReactions", "addReactions",
           "readComments", "dropComments", "putComments", "reload"}

Idle == [pc |-> "idle"]

NoReactions == [r \in {} |-> r]
NoComments == [c \in {} |-> c]

(* A request in save holds the entity, the ids its last findMany returned, *)
(* and, as history, whether another request has changed the tables since   *)
(* it began.                                                               *)
IsRequest(r) ==
  \/ r \in {Idle, [pc |-> "delete"]}
  \/ /\ r.pc \in Saving
     /\ IsEntity(r.entity)
     /\ r.ids \subseteq Reactions \cup Comments
     /\ r.disturbed \in BOOLEAN

TypeOK ==
  /\ post \in {"none", "text", "blank"}
  /\ media \subseteq Media
  /\ IsMap(reactions, Reactions, Reaction)
  /\ IsMap(comments, Comments, Parent)
  /\ DOMAIN req = Requests /\ \A q \in Requests : IsRequest(req[q])
  /\ excused \in BOOLEAN

-----------------------------------------------------------------------------
Exists == post # "none"

(* The entity's validate: a post has content or media.                     *)
Valid(text, M) == text \/ M # {}

(* findById finds the post, and mapToEntity validates what it found.       *)
Loadable == Exists /\ Valid(post = "text", media)

Loaded ==
  [text |-> post = "text", media |-> media, reactions |-> reactions,
   comments |-> [c \in DOMAIN comments |->
                   IF comments[c] = NoParent THEN ReadNoParent ELSE comments[c]]]

Held == {q \in Requests : req[q].pc \in Saving}

NewMedia == Media \ (media \cup UNION {req[q].entity.media : q \in Held})
NewReactions ==
  Reactions \ (DOMAIN reactions
    \cup UNION {DOMAIN req[q].entity.reactions \cup req[q].ids : q \in Held})
NewComments ==
  Comments \ (DOMAIN comments
    \cup UNION {DOMAIN req[q].entity.comments \cup req[q].ids : q \in Held})

(* A step that leaves the tables alone, and one that changes them.         *)
Goto(q, r) == req' = [req EXCEPT ![q] = r]

GotoChanging(q, r) ==
  req' = [p \in Requests |->
            IF p = q THEN r
            ELSE IF p \in Held THEN [req[p] EXCEPT !.disturbed = TRUE]
            ELSE req[p]]

(* What a request has written it does not read again, and forgets.         *)
ForgetContent(r) == [r EXCEPT !.entity.text = FALSE, !.entity.media = {}]
ForgetReactions(r) == [r EXCEPT !.entity.reactions = NoReactions]

At(q, step) == req[q].pc = step
Then(q, step) == [req[q] EXCEPT !.pc = step]
Reading(q, step, S) == [req[q] EXCEPT !.pc = step, !.ids = S]

Rows(entity) ==
  Cardinality(entity.media) + Cardinality(DOMAIN entity.reactions)
    + Cardinality(DOMAIN entity.comments)

BeginSave(q, entity) ==
  /\ req[q] = Idle
  /\ Rows(entity) <= MaxRows
  /\ Goto(q, [pc |-> "upsert", entity |-> entity, ids |-> {}, disturbed |-> FALSE])
  /\ UNCHANGED <<tables, excused>>

-----------------------------------------------------------------------------
(* The use cases up to the call of save.  createPost: the id is new, so    *)
(* nothing was ever stored under it.                                       *)
createPost(q, text, M) ==
  /\ ~Exists
  /\ \A p \in Requests : req[p] = Idle
  /\ Valid(text, M)
  /\ BeginSave(q, [text |-> text, media |-> M,
                   reactions |-> NoReactions, comments |-> NoComments])

(* updatePost of the text: refused if it leaves neither text nor media.    *)
updateContent(q, text) ==
  /\ Loadable
  /\ Valid(text, media)
  /\ BeginSave(q, [Loaded EXCEPT !.text = text])

(* updatePost with a list of media replaces them all, by new rows, after   *)
(* the text was replaced or not.                                           *)
updateMedia(q, text, M) ==
  /\ Loadable
  /\ Valid(text, media)
  /\ M \subseteq NewMedia
  /\ BeginSave(q, [Loaded EXCEPT !.text = text, !.media = M])

ReactionsOf(u) == {r \in DOMAIN reactions : reactions[r].user = u}

(* addReaction of the entity: the type of an existing one is changed in    *)
(* place, otherwise there is a new one.                                    *)
WithReaction(rs, u, t, r) == With(rs, r, [user |-> u, type |-> t])

addReaction(q, u, t, r) ==
  /\ Loadable
  /\ u # Author
  /\ \A s \in ReactionsOf(u) : reactions[s].type # t
  /\ IF ReactionsOf(u) = {} THEN r \in NewReactions ELSE r \in ReactionsOf(u)
  /\ BeginSave(q, [Loaded EXCEPT !.reactions = WithReaction(reactions, u, t, r)])

removeReaction(q, u) ==
  /\ Loadable
  /\ ReactionsOf(u) # {}
  /\ BeginSave(q, [Loaded EXCEPT !.reactions = Without(reactions, ReactionsOf(u))])

(* toggleReaction: the same type is taken back, another one replaced by a  *)
(* new row, none added.                                                    *)
toggleReaction(q, u, t, r) ==
  /\ Loadable
  /\ u # Author
  /\ LET others == Without(reactions, ReactionsOf(u)) IN
       \/ /\ \E s \in ReactionsOf(u) : reactions[s].type = t
          /\ BeginSave(q, [Loaded EXCEPT !.reactions = others])
       \/ /\ \A s \in ReactionsOf(u) : reactions[s].type # t
          /\ r \in NewReactions
          /\ BeginSave(q, [Loaded EXCEPT !.reactions = WithReaction(others, u, t, r)])

(* A new comment, or a reply to one of the post's.                         *)
addComment(q, c, parent) ==
  /\ Loadable
  /\ c \in NewComments
  /\ parent \in DOMAIN comments \cup {NoParent}
  /\ BeginSave(q, [Loaded EXCEPT !.comments = With(@, c, parent)])

(* updateComment: only the text of the comment changes.                    *)
updateComment(q, c) ==
  /\ Loadable
  /\ c \in DOMAIN comments
  /\ BeginSave(q, Loaded)

deleteComment(q, c) ==
  /\ Loadable
  /\ c \in DOMAIN comments
  /\ BeginSave(q, [Loaded EXCEPT !.comments = Without(@, {c})])

(* deletePost, by its author or a moderator.                               *)
deletePost(q) ==
  /\ req[q] = Idle
  /\ Loadable
  /\ Goto(q, [pc |-> "delete"])
  /\ UNCHANGED <<tables, excused>>

(* post.delete; its rows in the other tables go with it.                   *)
delete(q) ==
  /\ At(q, "delete")
  /\ Exists
  /\ post' = "none"
  /\ media' = {}
  /\ reactions' = NoReactions
  /\ comments' = NoComments
  /\ excused' = FALSE
  /\ GotoChanging(q, Idle)

-----------------------------------------------------------------------------
(* Mutant: the update of the upsert leaves the content out.                *)
UpsertWithoutContent(q) ==
  /\ At(q, "upsert")
  /\ post' = IF Exists THEN post ELSE IF req[q].entity.text THEN "text" ELSE "blank"
  /\ GotoChanging(q, Then(q, "clearMedia"))
  /\ UNCHANGED <<media, reactions, comments, excused>>

(* save.  The post is upserted: one that was deleted meanwhile is back.    *)
upsert(q) ==
  /\ At(q, "upsert")
  /\ post' = IF req[q].entity.text THEN "text" ELSE "blank"
  /\ GotoChanging(q, Then(q, "clearMedia"))
  /\ UNCHANGED <<media, reactions, comments, excused>>

clearMedia(q) ==
  /\ At(q, "clearMedia")
  /\ media' = {}
  /\ GotoChanging(q, Then(q, "addMedia"))
  /\ UNCHANGED <<post, reactions, comments, excused>>

(* The ids are unique, and the post has to exist.  With this statement the *)
(* content of the post is written.                                         *)
addMedia(q) ==
  /\ At(q, "addMedia")
  /\ req[q].entity.media # {} => Exists /\ req[q].entity.media \cap media = {}
  /\ media' = media \cup req[q].entity.media
  /\ GotoChanging(q, Then(q, "readReactions"))
  /\ excused' = (req[q].disturbed \/ ~Valid(req[q].entity.text, req[q].entity.media))
  /\ UNCHANGED <<post, reactions, comments>>

(* findMany, after which the reactions it found and the entity does not    *)
(* have are deleted, and those of the entity that it did not find created, *)
(* if there are any.                                                       *)
NotFound(q, ids) == Restrict(req[q].entity.reactions, DOMAIN req[q].entity.reactions \ ids)

AfterDrop(q, ids) ==
  IF DOMAIN NotFound(q, ids) # {} THEN Reading(q, "addReactions", ids)
  ELSE Reading(q, "readComments", {})

readReactions(q) ==
  /\ At(q, "readReactions")
  /\ LET ids == DOMAIN reactions IN
       Goto(q, ForgetContent(IF ids \subseteq DOMAIN req[q].entity.reactions
                             THEN AfterDrop(q, ids)
                             ELSE Reading(q, "dropReactions", ids)))
  /\ UNCHANGED <<tables, excused>>

(* Mutant: the filter of the deletion is turned round.                     *)
DropKept(q) ==
  /\ At(q, "dropReactions")
  /\ reactions' = Without(reactions, req[q].ids \cap DOMAIN req[q].entity.reactions)
  /\ GotoChanging(q, AfterDrop(q, req[q].ids))
  /\ UNCHANGED <<post, media, comments, excused>>

dropReactions(q) ==
  /\ At(q, "dropReactions")
  /\ reactions' = Without(reactions, req[q].ids \ DOMAIN req[q].entity.reactions)
  /\ GotoChanging(q, AfterDrop(q, req[q].ids))
  /\ UNCHANGED <<post, media, comments, excused>>

(* Ids are unique, and so is a user's reaction to one post.                *)
addReactions(q) ==
  /\ At(q, "addReactions")
  /\ Exists
  /\ LET created == NotFound(q, req[q].ids) IN
       /\ \A r \in DOMAIN created :
            r \notin DOMAIN reactions /\ ReactionsOf(created[r].user) = {}
       /\ reactions' = WithAll(reactions, created)
  /\ GotoChanging(q, Reading(q, "readComments", {}))
  /\ UNCHANGED <<post, media, comments, excused>>

readComments(q) ==
  /\ At(q, "readComments")
  /\ LET ids == DOMAIN comments IN
       Goto(q, ForgetReactions(IF ids \subseteq DOMAIN req[q].entity.comments
                               THEN Reading(q, "putComments", DOMAIN req[q].entity.comments)
                               ELSE Reading(q, "dropComments", ids)))
  /\ UNCHANGED <<tables, excused>>

(* Those it found and the entity does not have.  Replies to a comment that *)
(* is deleted lose their parent.                                           *)
dropComments(q) ==
  /\ At(q, "dropComments")
  /\ LET gone == req[q].ids \ DOMAIN req[q].entity.comments IN
       comments' = [c \in DOMAIN comments \ gone |->
                      IF comments[c] \in gone THEN NoParent ELSE comments[c]]
  /\ GotoChanging(q, Reading(q, "putComments", DOMAIN req[q].entity.comments))
  /\ UNCHANGED <<post, media, reactions, excused>>

(* The comments of the entity are upserted one by one: only the text of    *)
(* those in the table is updated, others are created, which needs the post *)
(* and the parent.  No comment has the empty string for its id: of the     *)
(* comments that were read and deleted since, only a reply can come back.  *)
CreatableAnyhow(parent) == Exists   \* mutant: no foreign key on the parent

Creatable(parent) == Exists /\ parent \in DOMAIN comments \cup {NoParent}

putComment(q, c) ==
  /\ At(q, "putComments")
  /\ c \in req[q].ids
  /\ \/ c \in DOMAIN comments /\ UNCHANGED comments
     \/ /\ c \notin DOMAIN comments
        /\ Creatable(req[q].entity.comments[c])
        /\ comments' = With(comments, c, req[q].entity.comments[c])
  /\ GotoChanging(q, Reading(q, "putComments", req[q].ids \ {c}))
  /\ UNCHANGED <<post, media, reactions, excused>>

putCommentsDone(q) ==
  /\ At(q, "putComments")
  /\ req[q].ids = {}
  /\ Goto(q, Then(q, "reload"))
  /\ UNCHANGED <<tables, excused>>

(* The saved post is read again and answered, or the reading fails.        *)
reload(q) ==
  /\ At(q, "reload")
  /\ Goto(q, Idle)
  /\ UNCHANGED <<tables, excused>>

(* A statement fails: the request ends, what it wrote stays.               *)
fail(q) ==
  /\ req[q] # Idle
  /\ Goto(q, Idle)
  /\ excused' = (excused \/ req[q].pc \in {"clearMedia", "addMedia"})
  /\ UNCHANGED tables

-----------------------------------------------------------------------------
Init ==
  /\ post = "none"
  /\ media = {}
  /\ reactions = NoReactions
  /\ comments = NoComments
  /\ req = [q \in Requests |-> Idle]
  /\ excused = FALSE

UseCase(q) ==
  \/ \E text \in BOOLEAN, M \in SUBSET Media : createPost(q, text, M)
  \/ \E text \in BOOLEAN : updateContent(q, text)
  \/ \E text \in BOOLEAN, M \in SUBSET Media : updateMedia(q, text, M)
  \/ \E u \in Users, t \in Types, r \in Reactions : addReaction(q, u, t, r)
  \/ \E u \in Users : removeReaction(q, u)
  \/ \E u \in Users, t \in Types, r \in Reactions : toggleReaction(q, u, t, r)
  \/ \E c \in Comments, p \in Parent : addComment(q, c, p)
  \/ \E c \in Comments : updateComment(q, c)
  \/ \E c \in Comments : deleteComment(q, c)
  \/ deletePost(q)

Statement(q) ==
  \/ delete(q)
  \/ upsert(q)
  \/ clearMedia(q)
  \/ addMedia(q)
  \/ readReactions(q)
  \/ dropReactions(q)
  \/ addReactions(q)
  \/ readComments(q)
  \/ dropComments(q)
  \/ \E c \in Comments : putComment(q, c)
  \/ putCommentsDone(q)
  \/ reload(q)

Next == \E q \in Requests : UseCase(q) \/ Statement(q) \/ fail(q)

Spec == Init /\ [][Next]_vars

-----------------------------------------------------------------------------
(* A save during which no other request wrote to the post leaves exactly   *)
(* the post it was given: the same content and media, reactions by the     *)
(* same users and comments, whatever failed requests had left in the       *)
(* tables.                                                                 *)
ReactorsOf(rs) == [r \in DOMAIN rs |-> rs[r].user]

SavedExactly ==
  \A q \in Held : ~req[q].disturbed =>
    LET entity == req[q].entity IN
      /\ At(q, "readReactions") =>
           post = (IF entity.text THEN "text" ELSE "blank") /\ media = entity.media
      /\ At(q, "readComments") => ReactorsOf(reactions) = ReactorsOf(entity.reactions)
      /\ At(q, "reload") => DOMAIN comments = DOMAIN entity.comments

(* A post that cannot be loaded, and which fails every list it is in, is   *)
(* being saved by somebody between the deletion and the insertion of its   *)
(* media; or a save was cut short; or one was given a post without         *)
(* content; or the writes of two overlapped, one bringing the text and the *)
(* other the media, of which neither is left.                              *)
UnloadableExplained ==
  Exists /\ ~Loadable =>
    excused \/ \E q \in Requests : req[q].pc \in {"clearMedia", "addMedia"}
=============================================================================
