------------------------------ MODULE PatchFile ------------------------------
(***************************************************************************)
(* One patch_file call (tools/patchedit/edit.go): read the file, find where *)
(* every edit and insert applies, reject overlapping regions, splice the    *)
(* accepted ones into the content that was read, and replace the file       *)
(* through a temporary file.  The file may be saved by its owner meanwhile, *)
(* every file operation may fail, and the server may be killed.             *)
(*                                                                         *)
(* Text is abstracted to pieces: a byte of the file is its position, the    *)
(* text of the k-th result one piece of its own.  What the matchers         *)
(* (match.go) find for an edit is an input: the offsets of the occurrences, *)
(* their length and whether they are exact.                                 *)
(***************************************************************************)
EXTENDS Sublists, FiniteSets, SequencesExt

CONSTANTS
    Size,      \* bytes in the file
    Breaks,    \* the bytes that end a line
    Edits,     \* the sequences of edits a call may carry
    Inserts,   \* the sequences of lines a call may insert at, in argument order
    NoFile     \* there is no file

Bytes == 1..Size
\* An edit as the matchers see it: where its old_text occurs.
Edit == [at : SUBSET (0..Size - 1), len : Bytes, exact : BOOLEAN, all : BOOLEAN]

ASSUME SizeAssumption == Size \in Nat \ {0} /\ Breaks \subseteq Bytes
ASSUME EditsAssumption ==
    /\ Edits \subseteq Seq(Edit)
    /\ \A es \in Edits : \A i \in DOMAIN es : \A o \in es[i].at : o + es[i].len <= Size
ASSUME InsertsAssumption == Inserts \subseteq Seq(Nat)

VARIABLES
    file,      \* the content on disk
    tmp,       \* the content of path.tmp
    call,      \* the arguments of the call
    pc,        \* where the handler is
    original,  \* the content that was read
    results,   \* the outcome of every insert and edit
    current,   \* the content to write
    fallback,  \* the rename failed and the file was opened for writing
    reply      \* what the call answered

vars == <<file, tmp, call, pc, original, results, current, fallback, reply>>

\* The file as the call finds it, and as its owner may save it at any time.
AsFound == [i \in Bytes |-> i]
AsSaved == <<0>>
Text(k) == Size + k

Call == [edits : Edits, inserts : Inserts, dryRun : BOOLEAN, failFast : BOOLEAN,
         terse : BOOLEAN, create : BOOLEAN]

-----------------------------------------------------------------------------
(* Matching *)

\* The line a byte is in, and where a line starts: after every byte of the lines
\* before it, so at the end when the file has fewer lines.
LineOf(byte) == 1 + Cardinality({b \in Breaks : b < byte})
LineOffset(content, line) == Cardinality({b \in 1..Len(content) : LineOf(b) < line})

\* An insert with an invalid line or without text stands as line 0.
\* A result: whether it succeeded and the regions it replaces.
ApplyInsert(content, line) ==
    [ok |-> line >= 1, insert |-> TRUE,
     at |-> IF line >= 1 THEN {LineOffset(content, line)} ELSE {}, len |-> 0]

\* An edit succeeds on one match, or on several exact ones when all are wanted.
\* No match in an empty file, whatever the file held when it was larger.
FindAndReplace(content, e) ==
    LET at == {o \in e.at : o + e.len <= Len(content)}
    IN  [ok |-> Cardinality(at) = 1 \/ (at # {} /\ e.all /\ e.exact),
         insert |-> FALSE, at |-> at, len |-> e.len]

\* indexEdits numbers the arguments, so the sort by index keeps their order.
\* The inserts come first, each group in the order of its arguments.
ComputeResults(content, c) ==
    [i \in DOMAIN c.inserts |-> ApplyInsert(content, c.inserts[i])]
        \o [i \in DOMAIN c.edits |-> FindAndReplace(content, c.edits[i])]

\* The regions of the results that succeeded, each with the result it belongs to.
Regions(rs) == UNION {{[of |-> k, start |-> o, end |-> o + rs[k].len] : o \in rs[k].at} :
                         k \in {k \in DOMAIN rs : rs[k].ok}}

RangesOverlap(a, b) == a.start < b.end /\ b.start < a.end

\* The order in which the regions are listed: by result, then by offset.
Listed(a, b) == a.of < b.of \/ (a.of = b.of /\ a.start < b.start)

\* Faulty variant: of two regions that start together neither fails.
LosesUnlessTied(a, b) == RangesOverlap(a, b) /\ b.start < a.start

\* Of two overlapping regions the one that starts later fails, the one listed
\* later when they start together; its whole result fails with it.
Loses(a, b) == /\ RangesOverlap(a, b)
               /\ b.start < a.start \/ (b.start = a.start /\ Listed(b, a))

DetectOverlaps(rs) ==
    LET lost == {a.of : a \in {a \in Regions(rs) : \E b \in Regions(rs) : Loses(a, b)}}
    IN  [k \in DOMAIN rs |-> [rs[k] EXCEPT !.ok = @ /\ k \notin lost]]

-----------------------------------------------------------------------------
(* Splicing *)

\* The members of a set, sorted: the k-th has k - 1 before it.
InOrder(S, Before(_, _)) ==
    [k \in 1..Cardinality(S) |-> CHOOSE r \in S : Cardinality({q \in S : Before(q, r)}) = k - 1]

Ascending(a, b) == a.start < b.start \/ (a.start = b.start /\ Listed(a, b))
Descending(a, b) == a.start > b.start \/ (a.start = b.start /\ Listed(a, b))

\* Faulty variant: a region that ends where the next one begins is skipped as well.
TakeApart(acc, r) == IF r.end >= acc.limit THEN acc
                     ELSE [kept |-> acc.kept \cup {r}, limit |-> r.start]

\* From the highest offset down, a region that reaches beyond the one kept before
\* it is skipped.
Take(acc, r) == IF r.end > acc.limit THEN acc
                ELSE [kept |-> acc.kept \cup {r}, limit |-> r.start]
Selected(down, size) ==
    LET upTo[k \in 0..Len(down)] == IF k = 0 THEN [kept |-> {}, limit |-> size + 1]
                                    ELSE Take(upTo[k - 1], down[k])
    IN  upTo
SelectReplacements(regions, size) ==
    Selected(InOrder(regions, Descending), size)[Cardinality(regions)].kept

\* What lies before the region is kept, the region is replaced.
Splice(content, acc, r) ==
    [out |-> acc.out \o SubSeq(content, acc.prev + 1, r.start) \o <<Text(r.of)>>, prev |-> r.end]
Spliced(content, up) ==
    LET upTo[k \in 0..Len(up)] == IF k = 0 THEN [out |-> <<>>, prev |-> 0]
                                  ELSE Splice(content, upTo[k - 1], up[k])
    IN  upTo

\* Faulty variant: what follows the last region is left out.
ApplyWithoutTail(content, regions) ==
    LET kept == SelectReplacements(regions, Len(content))
    IN  Spliced(content, InOrder(kept, Ascending))[Cardinality(kept)].out

\* The kept regions are replaced in one pass over the content.
ApplyReplacements(content, regions) ==
    LET kept == SelectReplacements(regions, Len(content))
        end == Spliced(content, InOrder(kept, Ascending))[Cardinality(kept)]
    IN  end.out \o SubSeq(content, end.prev + 1, Len(content))

-----------------------------------------------------------------------------
Init ==
    /\ file \in {AsFound, NoFile} /\ tmp = NoFile
    /\ call \in {c \in Call : c.edits # <<>> \/ c.inserts # <<>>}
    /\ pc = "read"
    /\ original = <<>> /\ results = <<>> /\ current = <<>>
    /\ fallback = FALSE
    /\ reply = "none"

Answer(r) == pc' = "done" /\ reply' = r

\* Faulty variant: a missing file is read as if it were there.
ReadMissing ==
    /\ pc = "read"
    /\ file # NoFile \/ call.create
    /\ original' = file
    /\ pc' = "match"
    /\ UNCHANGED <<file, tmp, call, results, current, fallback, reply>>

\* Read the file; a missing one is empty when the call may create it.
Read ==
    /\ pc = "read"
    /\ file # NoFile \/ call.create
    /\ original' = IF file = NoFile THEN <<>> ELSE file
    /\ pc' = "match"
    /\ UNCHANGED <<file, tmp, call, results, current, fallback, reply>>

ReadFails ==
    /\ pc = "read"
    /\ Answer("error")
    /\ UNCHANGED <<file, tmp, call, original, results, current, fallback>>

\* Find the regions, reject the overlapping ones, splice the rest.
Match ==
    /\ pc = "match"
    /\ results' = DetectOverlaps(ComputeResults(original, call))
    /\ current' = ApplyReplacements(original, Regions(results'))
    /\ pc' = "decide"
    /\ UNCHANGED <<file, tmp, call, original, fallback, reply>>

Failures(rs) == {k \in DOMAIN rs : ~rs[k].ok}
Successes(rs) == DOMAIN rs \ Failures(rs)

\* Faulty variant: a terse call writes the edits that succeeded.
BlockedUnlessTerse(c, rs) == (Failures(rs) # {} /\ c.failFast) \/ Successes(rs) = {}

\* Nothing is written when an edit failed and the call is terse or fails fast, or
\* when no edit succeeded.
Blocked(c, rs) == \/ Failures(rs) # {} /\ (c.terse \/ c.failFast)
                  \/ Successes(rs) = {}

Refuse ==
    /\ pc = "decide" /\ Blocked(call, results)
    /\ Answer("unchanged")
    /\ UNCHANGED <<file, tmp, call, original, results, current, fallback>>

DryRun ==
    /\ pc = "decide" /\ ~Blocked(call, results) /\ call.dryRun
    /\ Answer("dryRun")
    /\ UNCHANGED <<file, tmp, call, original, results, current, fallback>>

\* Faulty variant: the file itself is opened, and emptied, for writing.
OpenInPlace ==
    /\ pc = "decide" /\ ~Blocked(call, results) /\ ~call.dryRun
    /\ file' = <<>>
    /\ pc' = "fill"
    /\ UNCHANGED <<tmp, call, original, results, current, fallback, reply>>

\* atomicWrite opens path.tmp, which is empty until it is filled.
OpenTmp ==
    /\ pc = "decide" /\ ~Blocked(call, results) /\ ~call.dryRun
    /\ tmp' = <<>>
    /\ pc' = "fillTmp"
    /\ UNCHANGED <<file, call, original, results, current, fallback, reply>>

FillTmp ==
    /\ pc = "fillTmp"
    /\ tmp' = current
    /\ pc' = "rename"
    /\ UNCHANGED <<file, call, original, results, current, fallback, reply>>

\* path.tmp cannot be written: the file is left alone.
TmpFails ==
    /\ pc = "fillTmp"
    /\ Answer("error")
    /\ UNCHANGED <<file, tmp, call, original, results, current, fallback>>

Rename ==
    /\ pc = "rename"
    /\ file' = tmp /\ tmp' = NoFile
    /\ Answer("applied")
    /\ UNCHANGED <<call, original, results, current, fallback>>

\* The rename fails: the file itself is opened for writing, which empties it.
RenameFails ==
    /\ pc = "rename"
    /\ file' = <<>>
    /\ fallback' = TRUE
    /\ pc' = "fill"
    /\ UNCHANGED <<tmp, call, original, results, current, reply>>

Fill ==
    /\ pc = "fill"
    /\ file' = current
    /\ Answer("applied")
    /\ UNCHANGED <<tmp, call, original, results, current, fallback>>

FillFails ==
    /\ pc = "fill"
    /\ Answer("error")
    /\ UNCHANGED <<file, tmp, call, original, results, current, fallback>>

\* Neither the rename nor the write to the file itself is possible.
WriteFails ==
    /\ pc = "rename"
    /\ Answer("error")
    /\ UNCHANGED <<file, tmp, call, original, results, current, fallback>>

\* The server is killed.
Crash ==
    /\ pc \notin {"done", "crashed"}
    /\ pc' = "crashed"
    /\ UNCHANGED <<file, tmp, call, original, results, current, fallback, reply>>

\* The owner of the file saves another version of it from an editor.
Save ==
    /\ file # AsSaved
    /\ file' = AsSaved
    /\ UNCHANGED <<tmp, call, pc, original, results, current, fallback, reply>>

Handler == \/ Read \/ ReadFails \/ Match \/ Refuse \/ DryRun \/ OpenTmp \/ FillTmp
           \/ TmpFails \/ Rename \/ RenameFails \/ Fill \/ FillFails \/ WriteFails

Next == Handler \/ Crash \/ Save

Spec == Init /\ [][Next]_vars
-----------------------------------------------------------------------------
(* Properties *)

Contents == Seq(Nat) \cup {NoFile}
Outcomes == [ok : BOOLEAN, insert : BOOLEAN, at : SUBSET (0..Size), len : 0..Size]

\* Every variable stays in its range (edit.go:35-73).
TypeOK ==
    /\ file \in Contents /\ tmp \in Contents
    /\ call \in Call
    /\ pc \in {"read", "match", "decide", "fillTmp", "rename", "fill", "done", "crashed"}
    /\ original \in Seq(Nat) /\ current \in Seq(Nat)
    /\ results \in Seq(Outcomes)
    /\ fallback \in BOOLEAN
    /\ reply \in {"none", "unchanged", "dryRun", "applied", "error"}

\* What the accepted results ask for, byte by byte: at each offset first the texts
\* that start there, in the order of the results, then the next byte unless an
\* accepted region covers it.
TextsAt(regions, o) == LET here == InOrder({r \in regions : r.start = o}, Listed)
                       IN  [i \in DOMAIN here |-> Text(here[i].of)]
ByteAt(content, regions, b) ==
    IF \E r \in regions : r.start < b /\ b <= r.end THEN <<>> ELSE <<content[b]>>
IntendedUpTo(content, regions) ==
    LET upTo[o \in 0..Len(content)] ==
            IF o = 0 THEN TextsAt(regions, 0)
            ELSE upTo[o - 1] \o ByteAt(content, regions, o) \o TextsAt(regions, o)
    IN  upTo
Intended(content, rs) == IntendedUpTo(content, Regions(rs))[Len(content)]

\* An insert lands exactly where an edit begins.
BoundaryInsert(rs) == \E a, b \in Regions(rs) :
                          rs[a.of].insert /\ ~rs[b.of].insert /\ a.start = b.start

Matched == pc \notin {"read", "match"} /\ results # <<>>

\* Every result reported as applied is in the content to write, at the offset it
\* was found at in the content read, and nothing else changes: one edit never moves
\* or swallows another (README.md:198-200, edit.go:614-616), as long as no insert
\* lands where an edit begins.
AppliedAsReported ==
    Matched /\ ~BoundaryInsert(results) => current = Intended(original, results)

\* "An insert landing inside an edit region conflicts; at the boundary it is fine"
\* (edit_test.go:284): an insert where an edit begins and the edit are both counted
\* as applied (edit_test.go:307-319), so both are in the content.
BoundaryInsertCoexists ==
    Matched /\ BoundaryInsert(results) => current = Intended(original, results)

\* No two accepted regions overlap, so the splice never cuts into a text it has just
\* put in (edit.go:252-254).
AcceptedApart ==
    Matched => \A a, b \in Regions(results) : a # b => ~RangesOverlap(a, b)

\* Every byte outside the accepted regions is kept, in order, whatever the edits.
RestUntouched ==
    LET outside == {original[b] : b \in {b \in DOMAIN original :
                       \A r \in Regions(results) : ~(r.start < b /\ b <= r.end)}}
    IN  Matched => Those(current, outside) = Those(original, outside)

\* Wherever the server is killed, the file is a whole version: the one found, the
\* one its owner saved, or the one with every accepted edit.  Only a failed rename
\* gives that up (edit.go:926-953).
FileWhole ==
    ~fallback => \/ file \in {AsFound, AsSaved, NoFile}
                 \/ Matched /\ file = ApplyReplacements(original, Regions(results))

\* A reply that denies the edit is true: the handler changes the file only in a
\* call that is no dry run, that no failed edit blocks, and before it replies
\* (edit.go:60-72, 668-724).
OnlyAsAnnounced ==
    [][file' # file /\ file' # AsSaved =>
         /\ pc \in {"rename", "fill"} /\ reply = "none" /\ ~call.dryRun
         /\ Successes(results) # {}
         /\ Failures(results) # {} => ~call.terse /\ ~call.failFast]_vars
=============================================================================
