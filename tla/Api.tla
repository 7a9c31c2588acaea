-------------------------------- MODULE Api --------------------------------
(***************************************************************************)
(* The parts of the API whose rows no other part writes: accounts, reading *)
(* posts, reactions and comments, media files, follows, searches, paging   *)
(* through messages.  They run in one process; a request is one of theirs. *)
(***************************************************************************)
EXTENDS Integers

CONSTANTS Requests,
          Accounts, Passwords, Texts,
          Authors, Moderators, Asked, Privacies, PageLimits, MaxCreated,
          Users, Posts, Comments, Ids, MaxFollowed,
          Searched, Self, MAX_ENTRIES,
          MessageIds, MaxSent, Limits, DefaultLimit, MediaLimits, MaxFiles, MaxNamed, MaxRows

(* 0 stands for no cursor.                                                 *)
ASSUME MessageIdsAssumption == MessageIds \subseteq Nat \ {0}

(* What a reader may ask for at a time; 0 asks for the default.            *)
ASSUME MessageLimitsAssumption == Limits \subseteq Int \ {0}

(* A list of follows that names no user asks for "any" one.                *)
ASSUME AnyAssumption == "any" \notin Users

VARIABLES
  users, tokens, registering, issued, fromGoogle, wished, overwritten,
  timeline, created, visit,
  posts, comments, reactions, reacting, byPosts, owed,
  follows, following, followed, unfollowed,
  history, searching,
  sent, drawn, reader, walk,
  owner, orders, raced, asked, uploading

A == INSTANCE Accounts WITH req <- registering, asked <- wished
P == INSTANCE PostPages WITH Users <- Authors
R == INSTANCE Reactions WITH req <- reacting
F == INSTANCE Follows WITH req <- following
S == INSTANCE SearchHistory WITH req <- searching
M == INSTANCE MessagePages
U == INSTANCE PostMedias WITH req <- uploading, Limits <- MediaLimits

(* What a reader may ask for, and an author, of whose word the DTO makes   *)
(* capitals.                                                               *)
ASSUME PostsAssumption ==
  PageLimits \subseteq Nat \ {0} /\ Asked \cap {"private", "followers"} = {}

(* A client may give any number as the limit of an upload; there is a      *)
(* limit in place of one he does not give.                                 *)
ASSUME UploadsAssumption ==
  /\ MediaLimits \subseteq Int /\ DefaultLimit \in Nat \ {0}
  /\ MaxFiles \in Nat /\ MaxNamed \in Nat /\ MaxRows \in Nat

(* The length a history may have.                                          *)
ASSUME EntriesAssumption == MAX_ENTRIES \in Nat

(* A password somebody sets is not the absence of one.                     *)
ASSUME PasswordsAssumption == A!NoPassword \notin Passwords

ofAccounts == <<users, tokens, registering, issued, fromGoogle, wished, overwritten>>
ofPosts == <<timeline, created, visit>>
ofReactions == <<posts, comments, reactions, reacting, byPosts, owed>>
ofFollows == <<follows, following, followed, unfollowed>>
ofSearches == <<history, searching>>
ofPages == <<sent, drawn, reader, walk>>
ofUploads == <<owner, orders, raced, asked, uploading>>

vars == <<ofAccounts, ofPosts, ofReactions, ofFollows, ofSearches, ofPages, ofUploads>>

Init == A!Init /\ P!Init /\ R!Init /\ F!Init /\ S!Init /\ M!Init /\ U!Init

OfAccounts ==
  A!Next /\ UNCHANGED <<ofPosts, ofReactions, ofFollows, ofSearches, ofPages, ofUploads>>
OfPosts ==
  P!Next /\ UNCHANGED <<ofAccounts, ofReactions, ofFollows, ofSearches, ofPages, ofUploads>>
OfReactions ==
  R!Next /\ UNCHANGED <<ofAccounts, ofPosts, ofFollows, ofSearches, ofPages, ofUploads>>
OfFollows ==
  F!Next /\ UNCHANGED <<ofAccounts, ofPosts, ofReactions, ofSearches, ofPages, ofUploads>>
OfSearches ==
  S!Next /\ UNCHANGED <<ofAccounts, ofPosts, ofReactions, ofFollows, ofPages, ofUploads>>
OfPages ==
  M!Next /\ UNCHANGED <<ofAccounts, ofPosts, ofReactions, ofFollows, ofSearches, ofUploads>>
OfUploads ==
  U!Next /\ UNCHANGED <<ofAccounts, ofPosts, ofReactions, ofFollows, ofSearches, ofPages>>

Next == \/ OfAccounts \/ OfPosts \/ OfReactions \/ OfFollows \/ OfSearches
        \/ OfPages \/ OfUploads

Spec == Init /\ [][Next]_vars

-----------------------------------------------------------------------------
(* What was last asked of a user, the password they set, the address they  *)
(* verified, the profile, is what the row says, unless somebody saved a    *)
(* copy of the row that was no longer current.                             *)
UpdatesKept == A!UpdatesKept

(* An address is verified by Google, or by whoever could read a mail sent  *)
(* to it, in spite of the copies of rows that are saved.                   *)
VerifiedByMail == A!VerifiedByMail

(* An address verified by mail has a password to log in with: verifyEmail  *)
(* needs two saves, may end between them, and other requests save copies   *)
(* without the password.                                                   *)
VerifiedHasPassword == A!VerifiedHasPassword

(* A reader who turned the pages until there was none missed a post that   *)
(* was there all the time, and that he may view, only if some post was     *)
(* deleted meanwhile, or one created between the two queries of a page.    *)
(* And what he was shown he can open, as long as it is there.              *)
PostsExplained == P!PostsExplained

(* Of the reactions a user newly made to what somebody else wrote, each    *)
(* was announced once, is about to be, or its announcement was lost to an  *)
(* error or a crash: changing a reaction announces nothing, and of two     *)
(* requests that both found no reaction one is announced.                  *)
AnnouncedOnce == R!AnnouncedOnce

(* When the reactions to a post cannot be listed, then because the save of *)
(* a post stored a type the reactions module does not have: that module    *)
(* stores none itself, however its requests overlap.                       *)
UnlistableByPosts == R!UnlistableByPosts

(* Every end of a follow that somebody was told of is the end of another   *)
(* row, although the row is found in one step and deleted in another.      *)
UnfollowedOnce == F!UnfollowedOnce

(* Nobody is listed twice: not in a history, although whole histories      *)
(* replace one another, nor among the reactions to one thing, although two *)
(* modules write them, or the followers of one user.                       *)
ListsEachOnce == R!ListedOnce /\ F!ListedOnce /\ S!ListsEachOnce

(* A reader who follows the cursors comes to the last page, and misses a   *)
(* message that was there all the time only if its random id is not below  *)
(* a cursor he was given, or if he asked for a negative number.            *)
PagesExplained == M!PagesExplained

(* The media that uploads add to a post are numbered on from those it has, *)
(* and within the limit, where the client named a number, unless rows were *)
(* stored between an upload's count and its save.  None of them can be     *)
(* read.                                                                   *)
NumberedInOrder == U!NumberedInOrder
=============================================================================
