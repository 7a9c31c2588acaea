----------------------------- MODULE PostMedias ----------------------------
(***************************************************************************)
(* Uploads of media files to posts, next to the saves of the posts         *)
(* themselves, which replace and delete the same rows, see Posts.  Of a    *)
(* row the model keeps its order.  Left out: the files an upload that      *)
(* fails leaves in the cloud, and the check that no other row has the url  *)
(* the cloud has just made up.                                             *)
(***************************************************************************)
EXTENDS Maps, Integers, Sequences, FiniteSets

CONSTANTS Posts, Users, Requests,
          Limits,       \* numbers a client may give as the limit per post
          DefaultLimit, \* 10 in the code
          MaxFiles,     \* files in one request, 10 in the code
          MaxNamed,     \* bound: rows one save of a post creates
          MaxRows       \* bound: rows an upload leaves, where no limit does

VARIABLES
  owner,   \* post -> its author
  orders,  \* post -> the orders of its rows, by age; 0: as the client says
  raced,   \* history: posts of which a writer overtook another
  asked,   \* history: post -> the greatest number of rows anybody asked for
  req      \* request -> where it is in its use case

vars == <<owner, orders, raced, asked, req>>

Idle == [pc |-> "idle"]

IsRequest(r) ==
  \/ r = Idle
  \/ r.pc = "count" /\ r.post \in Posts /\ r.limit \subseteq Limits \cup {DefaultLimit}
  \/ r.pc = "save" /\ r.post \in Posts /\ r.count \in Nat

(* Every value has its type.                                               *)
TypeOK ==
  /\ IsMap(owner, Posts, Users)
  /\ DOMAIN orders = DOMAIN owner
  /\ \A p \in DOMAIN orders : orders[p] \in Seq(Nat)
  /\ raced \subseteq Posts /\ asked \in [Posts -> Nat]
  /\ \A q \in Requests : IsRequest(req[q])

rows == <<owner, orders, raced, asked>>

-----------------------------------------------------------------------------
(* The types a file may have, and what it is stored as.                    *)
Mimetypes == {"image", "video", "other"}

validateAndGetTypeFromMimetype(file) == file \in {"image", "video"}

(* uploadImage, uploadVideo: the cloud names the type of what it stored.   *)
uploadFile(file) == IF file = "image" THEN "image" ELSE "video"

uploadMultipleFiles(files) == [i \in DOMAIN files |-> uploadFile(files[i])]

(* normalizeMediaType, and the entity's own check.                         *)
normalizeMediaType(type) == type \in {"image", "video"}

validate(media) == normalizeMediaType(media.type) /\ media.order >= 1

(* Mutant: numbering starts at the count.                                  *)
FromCount(uploaded, count) == [i \in DOMAIN uploaded |-> count + i - 1]

(* createFromUploadedFiles: the new rows follow those that were counted.   *)
createFromUploadedFiles(uploaded, count) == [i \in DOMAIN uploaded |-> count + i]

(* fromPersistence: calls a class as a function, which throws for any row. *)
fromPersistence(found) == found = {}

countByPostId(p) == IF p \in DOMAIN orders THEN Len(orders[p]) ELSE 0

Goto(q, r) == req' = [req EXCEPT ![q] = r]

(* What a multipart request brings: a text as the limit, which nothing     *)
(* validates, so that it is any number or none; and files, of which the    *)
(* interceptor refuses those of other types.                               *)
UploadPostMediaDto ==
  [post : Posts, limit : {{n} : n \in Limits \cup {DefaultLimit}} \cup {{}}]

Files ==
  {f \in UNION {[1..n -> Mimetypes] : n \in 1..MaxFiles} :
     \A i \in DOMAIN f : f[i] # "other"}

exists(p) == p \in DOMAIN owner

belongsToUser(p, u) == owner[p] = u

(* execute, up to the count: the post is there, and the user's own.        *)
validateUpload(q, u, dto, files) ==
  /\ \A i \in DOMAIN files : validateAndGetTypeFromMimetype(files[i])
  /\ exists(dto.post) /\ belongsToUser(dto.post, u)
  /\ Goto(q, [pc |-> "count", post |-> dto.post, limit |-> dto.limit, files |-> files])
  /\ UNCHANGED rows

(* No comparison with a text that is no number says that there are too     *)
(* many.                                                                   *)
allowed(limit, wanted) == IF limit = {} THEN {wanted} ELSE limit

(* The limit is checked before the files are uploaded.                     *)
checkLimit(q) ==
  LET p == req[q].post
      count == countByPostId(p)
      wanted == count + Len(req[q].files)
  IN  /\ req[q].pc = "count"
      /\ wanted <= MaxRows
      /\ \E most \in allowed(req[q].limit, wanted) :
           /\ wanted <= most
           /\ asked' = [asked EXCEPT ![p] = IF most > @ THEN most ELSE @]
      /\ Goto(q, [pc |-> "save", post |-> p, count |-> count,
                  uploaded |-> uploadMultipleFiles(req[q].files)])
      /\ UNCHANGED <<owner, orders, raced>>

(* saveMany: all rows in one transaction; there is none of a deleted post. *)
saveMany(q) ==
  LET p == req[q].post
      medias == createFromUploadedFiles(req[q].uploaded, req[q].count)
  IN  /\ req[q].pc = "save" /\ exists(p)
      /\ \A i \in DOMAIN medias : validate([type |-> req[q].uploaded[i], order |-> medias[i]])
      /\ orders' = [orders EXCEPT ![p] = @ \o medias]
      /\ raced' = raced \cup (IF Len(orders[p]) = req[q].count THEN {} ELSE {p})
      /\ Goto(q, Idle)
      /\ UNCHANGED <<owner, asked>>

(* A refusal, a file the cloud did not take, an error; also a crash.  An   *)
(* upload that was stored is answered an error too: the rows do not load.  *)
fail(q) == req[q] # Idle /\ Goto(q, Idle) /\ UNCHANGED rows

(* The handler.                                                            *)
uploadMultiple(q, u) ==
  /\ req[q] = Idle
  /\ \E dto \in UploadPostMediaDto, files \in Files : validateUpload(q, u, dto, files)

-----------------------------------------------------------------------------
(* What the saves of posts do to the same rows, a statement at a time, and *)
(* deleting a post.  The orders of their rows are the client's.            *)
create(p, u) ==
  /\ p \notin DOMAIN owner /\ asked[p] = 0
  /\ owner' = With(owner, p, u)
  /\ orders' = With(orders, p, <<>>)
  /\ UNCHANGED <<raced, asked, req>>

clearMedia(p) ==
  /\ exists(p)
  /\ orders' = [orders EXCEPT ![p] = <<>>]
  /\ raced' = raced \ {p}
  /\ UNCHANGED <<owner, asked, req>>

addMedia(p, n) ==
  /\ exists(p) /\ Len(orders[p]) <= MaxNamed
  /\ orders' = [orders EXCEPT ![p] = @ \o [i \in 1..n |-> 0]]
  /\ raced' = raced \cup (IF orders[p] = <<>> THEN {} ELSE {p})
  /\ asked' = [asked EXCEPT ![p] = IF n > @ THEN n ELSE @]
  /\ UNCHANGED <<owner, req>>

delete(p) ==
  /\ exists(p)
  /\ owner' = Without(owner, {p}) /\ orders' = Without(orders, {p})
  /\ raced' = raced \ {p}
  /\ UNCHANGED <<asked, req>>

-----------------------------------------------------------------------------
(* What the handlers that read answer: an error, whenever there is a row.  *)
AllRows == UNION {{p} \X DOMAIN orders[p] : p \in DOMAIN orders}

(* A page is the rows at some positions, the newest first.                 *)
findWithPagination(page, limit) ==
  LET total == Cardinality(AllRows)
      last == IF page * limit < total THEN page * limit ELSE total
      found == ((page - 1) * limit + 1)..last
  IN  [loads |-> fromPersistence(found), total |-> total,
       totalPages |-> (total + limit - 1) \div limit]

findAll(query) == findWithPagination(query.page, query.limit)

findById(p, i) == {<<p, i>>} \cap AllRows

findOne(p, i) ==
  IF findById(p, i) = {} THEN "not found"
  ELSE IF fromPersistence(findById(p, i)) THEN "media" ELSE "error"

findByPostId(p) == fromPersistence(DOMAIN orders[p])

Init ==
  /\ owner = [p \in {} |-> p] /\ orders = owner
  /\ raced = {} /\ asked = [p \in Posts |-> 0]
  /\ req = [q \in Requests |-> Idle]

Next ==
  \/ \E q \in Requests :
       \/ \E u \in Users : uploadMultiple(q, u)
       \/ checkLimit(q) \/ saveMany(q) \/ fail(q)
  \/ \E p \in Posts :
       \/ \E u \in Users : create(p, u)
       \/ \E n \in 1..MaxNamed : addMedia(p, n)
       \/ clearMedia(p) \/ delete(p)

Spec == Init /\ [][Next]_vars

-----------------------------------------------------------------------------
(* The media that uploads add to a post are numbered on from those it has, *)
(* and they are no more than the greatest number somebody asked to allow,  *)
(* or, where he named no number, counted and brought; unless a writer      *)
(* stored rows next to others it had not counted: that the files are       *)
(* uploaded between the count and the save is all that breaks the          *)
(* numbering and the limit.  None of them can be read, by its id, by its   *)
(* post or in the list of all.                                             *)
NumberedInOrder ==
  \A p \in DOMAIN orders \ raced :
    /\ \A i \in DOMAIN orders[p] : orders[p][i] \in {0, i}
    /\ Len(orders[p]) <= asked[p]
    /\ orders[p] # <<>> =>
         /\ \A i \in DOMAIN orders[p] : findOne(p, i) = "error"
         /\ ~findByPostId(p)
         /\ ~findAll([page |-> 1, limit |-> DefaultLimit]).loads
=============================================================================
