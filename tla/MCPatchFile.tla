----------------------------- MODULE MCPatchFile -----------------------------
(***************************************************************************)
(* Small instances of PatchFile for TLC: a file of four bytes in two lines  *)
(* and every combination of two edits and two inserts of the shapes below.  *)
(***************************************************************************)
EXTENDS PatchFile

OneBreak == {2}

One(o, n) == [at |-> {o}, len |-> n, exact |-> TRUE, all |-> FALSE]
Lost == [at |-> {}, len |-> 1, exact |-> TRUE, all |-> FALSE]
Twice(all) == [at |-> {0, 3}, len |-> 1, exact |-> TRUE, all |-> all]
\* An old_text that overlaps itself: its second occurrence begins inside the first.
Itself == [at |-> {0, 1}, len |-> 2, exact |-> TRUE, all |-> TRUE]
Fuzzy == [at |-> {1, 3}, len |-> 1, exact |-> FALSE, all |-> TRUE]

EditShapes == {One(0, 1), One(0, 2), One(1, 1), One(1, 2), One(2, 2), One(3, 1)}
                  \cup {Lost, Twice(TRUE), Twice(FALSE), Itself, Fuzzy}
UpToTwo(S) == {<<>>} \cup {<<x>> : x \in S} \cup {<<x, y>> : x, y \in S}

SomeEdits == UpToTwo(EditShapes)
\* Line 0 is invalid, line 3 is past the end of the file.
SomeInserts == {<<>>, <<0>>, <<1>>, <<2>>, <<3>>, <<2, 2>>, <<3, 2>>}
\* For the boundary run.
PlainEdits == {<<One(o, n)>> : o \in {0, 2}, n \in 1..2}
PlainInserts == {<<1>>, <<2>>}
=============================================================================
