------------------------------ MODULE MCSearch ------------------------------
(***************************************************************************)
(* Small instances of Search for TLC: every tree of a few entries drawn     *)
(* from a list of shapes.                                                   *)
(***************************************************************************)
EXTENDS Search, TLC

CONSTANTS w1, w2

File(hits, joined) == [kind |-> "file", hits |-> hits, joined |-> joined]
Plain == File(<<>>, {})           \* nothing matches
OneHit == File(<<1>>, {})
TwoHits == File(<<1, 2>>, {})     \* two blocks, one hit each
Repeats == File(<<1, 1, 2>>, {})  \* two blocks, the first one hit twice
Whole == File(<<>>, {1, 2, 3})    \* blocks match only as a whole
Broken == [kind |-> "broken", hits |-> <<>>, joined |-> {}]
BadDir == [kind |-> "baddir", hits |-> <<>>, joined |-> {}]

TwoWorkers == {w1, w2}
Symmetry == Permutations(Workers)

\* The last path of the walk sorts first ("a-b/x" is walked after "a/x").
LastFirst == [e \in Files |-> IF e = N THEN 0 ELSE e]

\* Every tree of N entries of every shape.
EveryTree == [Files -> {Plain, OneHit, TwoHits, Whole, Repeats, Broken, BadDir}]
\* Trees for the runs with more entries than the jobs channel and the pool hold.
LongTrees == [Files -> {TwoHits, Broken}] \cup [Files -> {OneHit, Plain}]
=============================================================================
