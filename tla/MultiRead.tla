----------------------------- MODULE MultiRead -----------------------------
(***************************************************************************)
(* The `reads` of multi_read (tools/multiread/tool.go): every entry is        *)
(* expanded by a goroutine of its own, globs by a walk of the tree, and the   *)
(* expansions are put together in the order of the call.  A file is the pair  *)
(* of its entry and its place in that entry's expansion.                     *)
(***************************************************************************)
EXTENDS Integers, Sequences, SequencesExt

CONSTANTS
    MaxEntries,      \* entries of a call that are looked at
    MaxTotalFiles,   \* files of an answer
    MaxMatches,      \* bound: files a glob matches
    MaxReads         \* bound: entries of a call

ASSUME ReadsAssumption == {MaxEntries, MaxTotalFiles, MaxMatches, MaxReads} \subseteq Nat /\ MaxTotalFiles > 0

VARIABLES
    reads,       \* per entry: does it hold a glob
    slots,       \* per entry: its expansion, Open while the goroutine runs
    expanded,    \* the files of the answer
    rendered     \* the answer has been put together
readVars == <<reads, slots, expanded, rendered>>

Open == << <<0, 0>> >>

ReadInit ==
    /\ reads \in UNION {[1..n -> BOOLEAN] : n \in 1..MaxReads}
    /\ slots = [i \in 1..Min({Len(reads), MaxEntries}) |-> Open]
    /\ expanded = <<>>
    /\ rendered = FALSE

(* How many files an entry may stand for: a walk stops at the cap, and ends   *)
(* early, without a word, when a directory cannot be listed.                 *)
WalkGlob(glob) == IF glob THEN 0..Min({MaxMatches, MaxTotalFiles}) ELSE {1}

Expand(i) ==
    /\ slots[i] = Open
    /\ \E n \in WalkGlob(reads[i]) :
          slots' = [slots EXCEPT ![i] = [k \in 1..n |-> <<i, k>>]]
    /\ UNCHANGED <<reads, expanded, rendered>>

(* Mutant: every expansion is cut to an even share of the cap.               *)
FlattenSlotsEvenly(ss) ==
    FlattenSeq([i \in 1..Len(ss) |-> SubSeq(ss[i], 1, Min({Len(ss[i]), MaxTotalFiles \div Len(ss)}))])

(* The files of the first entries, put together one entry after the other     *)
(* while there is room.                                                      *)
Filled(ss) ==
    LET upTo[i \in 0..Len(ss)] ==
            IF i = 0 THEN <<>>
            ELSE upTo[i - 1] \o SubSeq(ss[i], 1, Min({Len(ss[i]), MaxTotalFiles - Len(upTo[i - 1])}))
    IN upTo
FlattenSlots(ss) == Filled(ss)[Len(ss)]

(* group.Wait, then the answer.                                              *)
Render ==
    /\ ~rendered
    /\ \A i \in DOMAIN slots : slots[i] # Open
    /\ expanded' = FlattenSlots(slots)
    /\ rendered' = TRUE
    /\ UNCHANGED <<reads, slots>>

ReadNext == Render \/ \E i \in DOMAIN slots : Expand(i)

(* The answer follows the call, whatever order the goroutines end in: its     *)
(* files are in the order of their entries, an entry without its files has    *)
(* none or met the cap, and no file is left out below the cap.               *)
ReadsInOrder ==
    rendered =>
        LET Before(f, g) == f[1] < g[1] \/ (f[1] = g[1] /\ f[2] < g[2])
            all == UNION {ToSet(slots[i]) : i \in DOMAIN slots}
        IN /\ IsSorted(expanded, Before)
           /\ Len(expanded) <= MaxTotalFiles
           /\ Len(expanded) < MaxTotalFiles => ToSet(expanded) = all
           /\ \A f \in ToSet(expanded), g \in all : Before(g, f) => g \in ToSet(expanded)
=============================================================================
