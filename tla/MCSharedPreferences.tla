------------------------ MODULE MCSharedPreferences ------------------------
(* Values for checking SharedPreferences with TLC. *)
EXTENDS SharedPreferences, TLC

Variant(type, vs) == [type: {type}, v: vs]

\* A long that fits into an int.
Narrow == Variant("long", {1})

\* With 10 for 10^-6: 10^-7 is lost.
SomeFloats == {0, 1}

\* Values of every type that writing changes, and what becomes of them.
EveryKind ==
  Variant("long", {1, 9}) \cup Variant("float", SomeFloats)
    \cup Variant("string", {" ", "", "a\r\nb", "a\nb"}) \cup Variant("set", {{"", "a"}, {"a"}})

MapsTo(values) == UNION {[ks -> values] : ks \in SUBSET Keys}
NarrowMaps == MapsTo(Narrow)
NarrowEdits == MapsTo(Narrow \cup {None})

\* Bound: all values are alike, and a second failure is not one of a second commit, ...
Alike ==
  /\ commits + faults <= 3
  /\ mMap = None \/ mMap \in NarrowMaps
  /\ committed \in NarrowMaps /\ attempts \subseteq NarrowMaps
  /\ \A e \in Editors : mModifications[e] \in NarrowEdits

\* ... or there is one key, one commit, nobody listens and nothing fails.
OneKey ==
  /\ commits <= 1 /\ faults = 0 /\ mListeners = {}
  /\ \E k \in Keys : \A m \in Known \cup ({mMap} \ {None}) \cup {mModifications[e] : e \in Editors} :
       DOMAIN m \subseteq {k}

AlikeOrOneKey == Alike \/ OneKey

Symmetry == Permutations(Keys) \cup Permutations(Editors)
=============================================================================
