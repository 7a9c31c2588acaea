-------------------------- MODULE MCNotifications --------------------------
(***************************************************************************)
(* Notifications for TLC.  Ids, texts and the slots of requests are        *)
(* interchangeable: nothing names one of them.                             *)
(***************************************************************************)
EXTENDS Notifications, TLC

Symmetry == Permutations(Ids) \cup Permutations(Texts) \cup Permutations(Requests)
=============================================================================
