-------------------------------- MODULE Maps --------------------------------
(***************************************************************************)
(* A JavaScript Map as a TLA+ function whose DOMAIN is the set of keys the *)
(* Map holds, so that `has(k)' is k \in DOMAIN m.  Update and deletion are *)
(* written with explicit function constructors, and not with :> and @@ of  *)
(* module TLC, because the provers have no definition of those two.        *)
(***************************************************************************)
EXTENDS Functions

(* m.set(k, v)                                                             *)
With(m, k, v) == [x \in DOMAIN m \cup {k} |-> IF x = k THEN v ELSE m[x]]

(* m.delete(k) for every k in S                                            *)
Without(m, S) == Restrict(m, DOMAIN m \ S)

(* Every entry of n set in m.                                              *)
WithAll(m, n) ==
  [x \in DOMAIN m \cup DOMAIN n |-> IF x \in DOMAIN n THEN n[x] ELSE m[x]]

(* m.get(k) ?? default                                                     *)
GetOr(m, k, default) == IF k \in DOMAIN m THEN m[k] ELSE default

(* m is a Map with keys in K and values in V.                              *)
IsMap(m, K, V) == DOMAIN m \in SUBSET K /\ m \in [DOMAIN m -> V]
=============================================================================
