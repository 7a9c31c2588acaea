------------------------------- MODULE MCApi -------------------------------
(***************************************************************************)
(* Api and Http for TLC, one part at a time: the parts share no state, so  *)
(* what one of them does is the same whatever the others did, and mixing   *)
(* them shows nothing new.                                                 *)
(***************************************************************************)
EXTENDS Api, Http, TLC

VARIABLE part \* the part that runs

(* One message at a time; three less than none, which TLC's configuration  *)
(* cannot name.                                                            *)
MCLimits == {1, -3}

(* A tick of the limiter is five minutes to a quarter of an hour: the long *)
(* window outlasts the sweeps of the store, as those of a login do, and    *)
(* the short one does not, as that of any other request.                   *)
MCLimitOf == [login |-> [windowMs |-> 4, max |-> 1], read |-> [windowMs |-> 1, max |-> 1]]

Symmetry ==
  Permutations(Users) \cup Permutations(Ids) \cup Permutations(Requests)
    \cup Permutations(InFlight)

MCInit == Init /\ HttpInit /\ part \in 1..9

OfApi ==
  \/ part = 1 /\ OfAccounts
  \/ part = 2 /\ OfPosts
  \/ part = 3 /\ OfReactions
  \/ part = 4 /\ OfFollows
  \/ part = 5 /\ OfSearches
  \/ part = 6 /\ OfPages
  \/ part = 7 /\ OfUploads

OfHttp ==
  \/ part = 8 /\ OfPipeline
  \/ part = 9 /\ OfCache

MCNext ==
  /\ UNCHANGED part
  /\ \/ OfApi /\ UNCHANGED ofHttp
     \/ OfHttp /\ UNCHANGED vars

MCSpec == MCInit /\ [][MCNext]_<<vars, ofHttp, part>>
=============================================================================
