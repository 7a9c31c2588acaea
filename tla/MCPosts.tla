------------------------------ MODULE MCPosts ------------------------------
(***************************************************************************)
(* Posts for TLC.  The ids of rows and the slots of requests are           *)
(* interchangeable: nothing names one of them.                             *)
(***************************************************************************)
EXTENDS Posts, TLC

Symmetry ==
  Permutations(Media) \cup Permutations(Reactions)
    \cup Permutations(Comments) \cup Permutations(Requests)
=============================================================================
