----------------------------- MODULE MapTheorems ----------------------------
(* What the Map operators of module Maps return.                           *)
EXTENDS Maps, TLAPS

(* m.set(k, v) adds the key k, maps it to v and leaves other keys alone.   *)
LEMMA WithFacts ==
  ASSUME NEW m, NEW k, NEW v
  PROVE  /\ DOMAIN With(m, k, v) = DOMAIN m \cup {k}
         /\ With(m, k, v)[k] = v
         /\ \A x \in DOMAIN m : x # k => With(m, k, v)[x] = m[x]
  BY DEF With

(* Setting a key of K to a value of V keeps a Map a Map from K to V.       *)
LEMMA WithType ==
  ASSUME NEW K, NEW V, NEW m, IsMap(m, K, V), NEW k \in K, NEW v \in V
  PROVE  IsMap(With(m, k, v), K, V)
  BY DEF With, IsMap

(* m.delete(k) for k in S removes exactly those keys.                      *)
LEMMA WithoutFacts ==
  ASSUME NEW m, NEW S
  PROVE  /\ DOMAIN Without(m, S) = DOMAIN m \ S
         /\ \A x \in DOMAIN m \ S : Without(m, S)[x] = m[x]
  BY DEF Without, Restrict

(* Deleting keys keeps a Map a Map.                                        *)
LEMMA WithoutType ==
  ASSUME NEW K, NEW V, NEW m, IsMap(m, K, V), NEW S
  PROVE  IsMap(Without(m, S), K, V)
  BY DEF Without, Restrict, IsMap

(* get with a default of type V returns a value of V.                      *)
LEMMA GetOrType ==
  ASSUME NEW K, NEW V, NEW m, IsMap(m, K, V), NEW k, NEW d \in V
  PROVE  GetOr(m, k, d) \in V
  BY DEF GetOr, IsMap
=============================================================================
