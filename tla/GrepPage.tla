------------------------------ MODULE GrepPage ------------------------------
(***************************************************************************)
(* The page of results grep_func answers (tools/grepfunc/tool.go), from what   *)
(* the search collected.  The matches of a tree are a sequence in the order    *)
(* of their places, file by file; a match is                                  *)
(*   [kind: "func" | "type", receiver: BOOLEAN, excluded: "" | "name" | "body", *)
(*    opens: BOOLEAN, before: Nat]                                            *)
(* where receiver says that it is a method of the type asked for, opens that   *)
(* it is the first of its file, and before counts the hits of the pattern in   *)
(* the file before the first in this block: hits in the blocks before, hits    *)
(* that repeat a block, hits in no block.  (A pattern that spans lines is also  *)
(* tried on joined blocks, in Search.)  A call is                             *)
(*   [max, offset, names, types, receiver, exclude].                         *)
(***************************************************************************)
EXTENDS Sublists, FiniteSets, FiniteSetsExt, SequencesExt

CONSTANTS
    MaxResultsCap,      \* maxResultsCap: 50
    DefaultMax,         \* results without max_results: 15
    FetchCap,           \* fetchCap: 200
    SearchBothFactor    \* searchBothFactor: 2

ASSUME PagesAssumption ==
    /\ MaxResultsCap \in Nat \ {0} /\ DefaultMax \in Nat \ {0} /\ SearchBothFactor \in Nat \ {0}
    /\ FetchCap \in Nat /\ MaxResultsCap <= FetchCap /\ DefaultMax <= FetchCap

(* Offsets count from 0.                                                      *)
Calls == [max : Int, offset : Nat, names : BOOLEAN, types : BOOLEAN, receiver : BOOLEAN, exclude : BOOLEAN]

(***************************************************************************)
(* The search.                                                               *)
(***************************************************************************)
MaxResults(arg) == IF arg.max <= 0 THEN DefaultMax ELSE Min({arg.max, MaxResultsCap})
FetchMax(arg) ==
    IF arg.offset > 0 THEN Min({arg.offset + MaxResults(arg), FetchCap}) ELSE MaxResults(arg)
Wanted(arg) == IF arg.types THEN FetchMax(arg) * SearchBothFactor ELSE FetchMax(arg)

(* Types are matches only when asked for.                                    *)
Eligible(tree, arg) == {i \in DOMAIN tree : arg.types \/ tree[i].kind = "func"}
File(tree, i) == Cardinality({j \in 1..i : tree[j].opens})
FileOf(tree, i) == {j \in DOMAIN tree : File(tree, j) = File(tree, i)}

(* The places a search may collect: a page of them, and which is decided by    *)
(* its workers; or fewer, all that were within the limit of their file.  That  *)
(* limit is on hits and not on matches: what is wanted, less what other files  *)
(* had yielded by the time the budget was read.                               *)
Collectable(tree, arg) ==
    {places \in SUBSET Eligible(tree, arg) :
        /\ Cardinality(places) <= Wanted(arg)
        /\ Cardinality(places) < Wanted(arg) =>
              \A i \in Eligible(tree, arg) \ places :
                  /\ tree[i].before + Cardinality(places \ FileOf(tree, i)) >= Wanted(arg)
                  /\ \A j \in places \cap FileOf(tree, i) : tree[j].before < tree[i].before}

(* In the order of the walk, when hits are matches: the first there are.      *)
InWalkOrder(tree, arg) == {i \in Eligible(tree, arg) : Cardinality({j \in Eligible(tree, arg) : j < i}) < Wanted(arg)}

(* Functions first, then types.                                              *)
SetKinds(tree, places) ==
    LET Of(kind) == InTurn(Len(tree), {i \in places : tree[i].kind = kind}) IN Of("func") \o Of("type")

(***************************************************************************)
(* The filters.  Without bodies only the name can be excluded.                *)
(***************************************************************************)
BodiesRead(arg) == arg.types \/ ~arg.names \/ arg.receiver
Passes(match, arg) ==
    /\ arg.receiver => match.receiver
    /\ arg.exclude => match.excluded # "name" /\ (BodiesRead(arg) => match.excluded # "body")
Filtered(tree, all, arg) == Those(all, {i \in DOMAIN tree : Passes(tree[i], arg)})

(***************************************************************************)
(* The page.                                                                 *)
(***************************************************************************)

(* Mutant: a search that ends at its cap is taken for a whole one.            *)
TruncatedPast(all, arg) == FetchMax(arg) > 0 /\ Len(all) > FetchMax(arg)

Truncated(all, arg) == FetchMax(arg) > 0 /\ Len(all) >= FetchMax(arg)

PageStart(total, arg) == Min({arg.offset, total})
RenderPaged(tree, places, arg) ==
    LET all == Filtered(tree, SetKinds(tree, places), arg)
        start == PageStart(Len(all), arg)
        end == Min({start + MaxResults(arg), Len(all)})
    IN [total |-> Len(all), end |-> end, page |-> SubSeq(all, start + 1, end), marked |-> Truncated(all, arg)]

(***************************************************************************)
(* What a page says.                                                         *)
(***************************************************************************)
Unfiltered(arg) == ~arg.receiver /\ ~arg.exclude
Whole(tree, arg) == SetKinds(tree, Eligible(tree, arg))

(* Every hit is the first in a match of its own, or comes behind all matches   *)
(* of its file; and the hits are in the order of the matches.                 *)
HitsApart(tree, arg) ==
    \A i \in Eligible(tree, arg) :
        tree[i].before = Cardinality({j \in Eligible(tree, arg) \cap FileOf(tree, i) : tree[j].before < tree[i].before})
HitsInOrder(tree, arg) ==
    \A i \in Eligible(tree, arg) :
        tree[i].before = Cardinality({j \in Eligible(tree, arg) \cap FileOf(tree, i) : j < i})

(* An answer without the mark counts every match and shows its part of them,  *)
(* whatever the workers collected, when no filter removed some and no hit was *)
(* spent on anything but a match of its own.                                  *)
UnmarkedComplete(tree, arg) ==
    HitsApart(tree, arg) =>
        \A places \in Collectable(tree, arg) :
            LET answer == RenderPaged(tree, places, arg)
                whole == Whole(tree, arg)
            IN (Unfiltered(arg) /\ ~answer.marked) =>
                  /\ answer.total = Len(whole)
                  /\ answer.page = SubSeq(whole, arg.offset + 1, Min({arg.offset + MaxResults(arg), Len(whole)}))

(* Following the offsets an answer gives shows every function once, when the   *)
(* workers collect in the order of the walk, hits are matches and none is      *)
(* filtered; up to the cap of a fetch.                                       *)
PagesTile(tree, arg) ==
    (Unfiltered(arg) /\ ~arg.types /\ HitsInOrder(tree, arg)) =>
        LET Answer(k) == RenderPaged(tree, InWalkOrder(tree, [arg EXCEPT !.offset = k * MaxResults(arg)]),
                                     [arg EXCEPT !.offset = k * MaxResults(arg)])
            pages == [k \in 1..Len(tree) |-> Answer(k - 1).page]
            whole == Whole(tree, arg)
        IN FlattenSeq(pages) = SubSeq(whole, 1, Min({Len(whole), FetchCap}))
=============================================================================
