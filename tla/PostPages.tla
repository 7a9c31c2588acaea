----------------------------- MODULE PostPages -----------------------------
(***************************************************************************)
(* Reading posts: a reader pages through the posts, or through his feed,   *)
(* while others create and delete.  A page is two queries, for its posts   *)
(* and for the number of all, that are sent together and not in one        *)
(* transaction.  The handlers know their caller by fields of the user that *)
(* JwtStrategy validated.  Of a post the model keeps author and privacy.   *)
(* An update changes nothing: its handler asks for a userId, which the     *)
(* user does not have, and so finds that nobody is the author.             *)
(* Left out: the filters by hashtag and text, the orders by reactions and  *)
(* comments, and posts that cannot be loaded, for which see Posts, where   *)
(* the rows of a post are.                                                 *)
(***************************************************************************)
EXTENDS Integers, FiniteSets

CONSTANTS Users,
          Moderators,   \* users whose role is ADMIN or MODERATOR
          Asked,        \* the privacies authors ask for
          Privacies,    \* the privacies readers filter by
          PageLimits,
          MaxCreated    \* bound: posts ever created

VARIABLES
  timeline,  \* the posts; their ids are in the order of their creation
  created,   \* history: posts ever created
  visit      \* the reader's way through the pages

vars == <<timeline, created, visit>>

Undefined == "undefined"
Unset == "unset"

Post == [id : 1..MaxCreated, author : Users, asked : Asked,
         privacy : {"PUBLIC", "FOLLOWERS", "PRIVATE"}]

(* A page in progress has the two answers that have come.                  *)
NoVisit == [pc |-> "none"]

(* Every value has its type.                                               *)
TypeOK ==
  /\ timeline \subseteq Post
  /\ created \in 0..MaxCreated
  /\ visit = NoVisit \/ visit.pc \in {"query", "page", "done"}

-----------------------------------------------------------------------------
(* validate: what the guard leaves of the user of a valid token.           *)
JwtUser(u) == [id |-> u, role |-> IF u \in Moderators THEN "MODERATOR" ELSE "USER"]

CurrentUser(user, field) == IF field \in DOMAIN user THEN user[field] ELSE Undefined

(* SkipGuards: the guard lets everybody in, and looks up nobody.           *)
Nobody == [f \in {} |-> f]

canViewPost(post, viewer, isFollowing) ==
  \/ post.privacy = "PUBLIC"
  \/ /\ post.privacy = "FOLLOWERS" /\ viewer # Undefined
     /\ post.author = viewer \/ isFollowing
  \/ post.privacy = "PRIVATE" /\ viewer # Undefined /\ post.author = viewer

canDeletePost(post, user, role) ==
  post.author = user \/ role \in {"ADMIN", "MODERATOR"}

(* The switch knows the small letters, the DTO makes capitals.             *)
mapPrivacyToApplicationEnum(privacy) ==
  CASE privacy = "private" -> "PRIVATE"
    [] privacy = "followers" -> "FOLLOWERS"
    [] OTHER -> "PUBLIC"

CreatePostRequestDto == [privacy : Asked]

createPost(u) ==
  /\ created < MaxCreated
  /\ \E dto \in CreatePostRequestDto :
       timeline' = timeline \cup {[id |-> created + 1, author |-> CurrentUser(JwtUser(u), "id"),
                                  asked |-> dto.privacy,
                                  privacy |-> mapPrivacyToApplicationEnum(dto.privacy)]}
  /\ created' = created + 1
  /\ visit' = IF visit.pc # "query" THEN visit
              ELSE [visit EXCEPT !.between = @ \/ visit.total # {} \/ visit.found # {}]

deleteById(post, userId, userRole) ==
  /\ canDeletePost(post, userId, userRole)
  /\ timeline' = timeline \ {post}

deletePost(u) ==
  LET user == JwtUser(u) IN
  /\ \E post \in timeline :
       deleteById(post, CurrentUser(user, "userId"), CurrentUser(user, "role"))
  /\ visit' = IF visit = NoVisit THEN visit ELSE [visit EXCEPT !.removed = TRUE]
  /\ UNCHANGED created

-----------------------------------------------------------------------------
(* PostResponseDto: the names of the author are put in later.              *)
mapToResponseDto(post) == [id |-> post.id, author |-> post.author, privacy |-> post.privacy]

mapToDetailResponseDto(post) == mapToResponseDto(post)

getPostById(id, viewerId, isFollowing) ==
  LET found == {post \in timeline : post.id = id} IN
  IF found = {} THEN [status |-> 404]
  ELSE LET post == CHOOSE p \in found : TRUE IN
       IF canViewPost(post, viewerId, isFollowing)
       THEN [status |-> 200, body |-> mapToDetailResponseDto(post)] ELSE [status |-> 403]

(* GET posts/:id, for which nobody follows anybody.                        *)
getPost(id) == getPostById(id, CurrentUser(Nobody, "userId"), FALSE)

(* The where of findAll.                                                   *)
GetPostsQueryDto ==
  [feed : {FALSE}, authorId : Users \cup {Unset}, privacy : Privacies \cup {Unset},
   sortBy : {"newest", "oldest"}, limit : PageLimits]

findAll(query) ==
  {post \in timeline : /\ query.authorId \in {Unset, post.author}
                       /\ query.privacy \in {Unset, post.privacy}}

(* GET posts/feed/timeline: the where has no author to compare with, since *)
(* the userId is undefined, and asks for privacies in small letters, which *)
(* no post has.                                                            *)
GetFeedDto == [feed : {TRUE}, limit : PageLimits]

getUserFeed == {post \in timeline : post.privacy \in {"public", "followers"}}

Wanted(query) == IF query.feed THEN getUserFeed ELSE findAll(query)

(* The orderBy, of the feed always by the newest.                          *)
orderBy(query, p1, p2) ==
  IF ~query.feed /\ query.sortBy = "oldest" THEN p1.id < p2.id ELSE p1.id > p2.id

Ahead(query, p) == Cardinality({p1 \in Wanted(query) : orderBy(query, p1, p)})

(* Mutant: take counts one less.                                           *)
TakeLess(query, page) ==
  {p \in Wanted(query) : Ahead(query, p) \in ((page - 1) * query.limit)..(page * query.limit - 2)}

(* skip and take.                                                          *)
PageOf(query, page) ==
  {p \in Wanted(query) : Ahead(query, p) \in ((page - 1) * query.limit)..(page * query.limit - 1)}

(* Both queries of a page are sent; the first page begins a visit.         *)
Ask(query, page, before) ==
  visit' = [pc |-> "query", query |-> query, page |-> page, found |-> {}, total |-> {},
            shown |-> before.shown, stayed |-> before.stayed,
            removed |-> before.removed, between |-> before.between]

Fresh(query) == [shown |-> {}, stayed |-> {p.id : p \in Wanted(query)},
                 removed |-> FALSE, between |-> FALSE]

getPosts ==
  /\ visit.pc = "none"
  /\ \E query \in GetPostsQueryDto : Ask(query, 1, Fresh(query))
  /\ UNCHANGED <<timeline, created>>

getFeed ==
  /\ visit.pc = "none"
  /\ \E query \in GetFeedDto : Ask(query, 1, Fresh(query))
  /\ UNCHANGED <<timeline, created>>

nextPage ==
  /\ visit.pc = "page"
  /\ Ask(visit.query, visit.page + 1, visit)
  /\ UNCHANGED <<timeline, created>>

findMany ==
  /\ visit.pc = "query" /\ visit.found = {}
  /\ visit' = [visit EXCEPT !.found = {PageOf(visit.query, visit.page)}]
  /\ UNCHANGED <<timeline, created>>

count ==
  /\ visit.pc = "query" /\ visit.total = {}
  /\ visit' = [visit EXCEPT !.total = {Cardinality(Wanted(visit.query))}]
  /\ UNCHANGED <<timeline, created>>

(* What is left of a page: of the posts those that may be viewed, of the   *)
(* feed all.                                                               *)
visiblePosts(found) ==
  {mapToResponseDto(p) : p \in {p \in found : canViewPost(p, CurrentUser(Nobody, "userId"), FALSE)}}

feedPosts(found) == {mapToResponseDto(p) : p \in found}

(* PostListResponseDto: hasNextPage when page < totalPages.                *)
answer ==
  /\ visit.pc = "query" /\ visit.found # {} /\ visit.total # {}
  /\ LET posts == CHOOSE f \in visit.found : TRUE
         total == CHOOSE n \in visit.total : TRUE
         totalPages == (total + visit.query.limit - 1) \div visit.query.limit
         answered == IF visit.query.feed THEN feedPosts(posts) ELSE visiblePosts(posts)
     IN  visit' = [visit EXCEPT !.pc = IF visit.page < totalPages THEN "page" ELSE "done",
                                !.found = {}, !.total = {},
                                !.shown = @ \cup answered]
  /\ UNCHANGED <<timeline, created>>

leave == visit.pc \in {"page", "done"} /\ visit' = NoVisit /\ UNCHANGED <<timeline, created>>

Init == timeline = {} /\ created = 0 /\ visit = NoVisit

Next ==
  \/ \E u \in Users : createPost(u) \/ deletePost(u)
  \/ getPosts \/ getFeed \/ nextPage \/ findMany \/ count \/ answer \/ leave

Spec == Init /\ [][Next]_vars

-----------------------------------------------------------------------------
(* A reader who turned the pages until there was none missed a post that   *)
(* was there all the time, and that he may view, only if some post was     *)
(* deleted meanwhile, or one created between the two queries of a page.    *)
(* And what he was shown he can open, as long as it is there.              *)
PostsExplained ==
  /\ visit.pc = "done" /\ ~visit.removed /\ ~visit.between =>
       \A id \in visit.stayed : \E p \in visit.shown : getPost(id) = [status |-> 200, body |-> p]
  /\ visit # NoVisit =>
       \A p \in visit.shown : getPost(p.id) \in {[status |-> 200, body |-> p], [status |-> 404]}

(* What an author asked to keep to himself is shown to nobody who is not   *)
(* known to be that author.                                                *)
PrivateStaysPrivate ==
  visit # NoVisit =>
    \A p \in timeline : p.asked = "PRIVATE" => mapToResponseDto(p) \notin visit.shown
=============================================================================
