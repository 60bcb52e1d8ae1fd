--------------------------- MODULE MCProjectRoot ---------------------------
(***************************************************************************)
(* Small instances of ProjectRoot for TLC.                                  *)
(***************************************************************************)
EXTENDS ProjectRoot

CONSTANTS a, b, c

TwoRoots == {a, b}
ThreeRoots == {a, b, c}
OnlyA == {a}
AnyFallback == {NoRoot, b}
Unset == {NoRoot}
SetOrNot == {NoRoot, a}
Behaves(p, m, n) == [patient |-> p, changes |-> m, calls |-> n]
PatientOrNot == {Behaves(TRUE, 2, 2), Behaves(FALSE, 1, 1)}
ChangesTwice == {Behaves(FALSE, 2, 0)}
ChangesOnce == {Behaves(FALSE, 1, 1)}
EveryCall == {"cwd", "path", "memory"}
NoCall == {}
=============================================================================
