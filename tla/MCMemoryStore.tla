--------------------------- MODULE MCMemoryStore ---------------------------
(***************************************************************************)
(* Small instances of MemoryStore for TLC.                                  *)
(***************************************************************************)
EXTENDS MemoryStore, TLC

CONSTANTS k1, k2, k3, v1, v2, p1, p2

TwoKeys == {k1, k2}
ThreeKeys == {k1, k2, k3}
OneValue == {v1}
TwoValues == {v1, v2}
OnePersister == {p1}
TwoPersisters == {p1, p2}
Symmetry == Permutations(Keys) \cup Permutations(Values) \cup Permutations(Persisters)
=============================================================================
