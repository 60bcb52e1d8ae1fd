------------------------------ MODULE Sublists ------------------------------
(***************************************************************************)
(* The members of a sequence that are in a set, in the order of the           *)
(* sequence.  It is SelectSeq for a test of membership, written as a          *)
(* recursive function so that the proofs can unfold it.                       *)
(***************************************************************************)
EXTENDS Integers, Sequences

Gather(acc, x, S) == IF x \in S THEN Append(acc, x) ELSE acc
Gathered(s, S) ==
    LET upTo[k \in 0..Len(s)] == IF k = 0 THEN <<>> ELSE Gather(upTo[k - 1], s[k], S)
    IN  upTo
Those(s, S) == Gathered(s, S)[Len(s)]

(* The members of a set of places 1..n in their order.                       *)
InTurn(n, S) == Those([i \in 1..n |-> i], S)

(* The elements at a set of places.                                          *)
Picked(s, S) == LET at == InTurn(Len(s), S) IN [k \in 1..Len(at) |-> s[at[k]]]

(* What lies between the places S of a sequence.                             *)
Split(s, S) ==
    LET cuts == <<0>> \o InTurn(Len(s), S) \o <<Len(s) + 1>>
    IN [k \in 1..Len(cuts) - 1 |-> SubSeq(s, cuts[k] + 1, cuts[k + 1] - 1)]
=============================================================================
