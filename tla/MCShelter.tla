---- MODULE MCShelter ----
(* Shelter for TLC.  Shelters, pointers and references are interchangeable *)
(* and the properties checked are invariants, so all are symmetric.        *)
EXTENDS Shelter, TLC

Interchangeable ==
    Permutations(ShelterId) \cup Permutations(Ptr) \cup Permutations(Handle)
====
