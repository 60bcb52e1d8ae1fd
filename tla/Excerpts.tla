------------------------------ MODULE Excerpts ------------------------------
(***************************************************************************)
(* Which lines of a file a tool shows: multi_read's head, range, entry and    *)
(* tail (tools/multiread/tool.go), the context windows and body summaries of  *)
(* grep_func (tools/grepfunc/tool.go), and the output budget                  *)
(* (server/server.go).  Lines are numbered from 1; a text is a sequence of    *)
(* characters with "nl" for the line break.                                   *)
(***************************************************************************)
EXTENDS Sublists, SequencesExt

CONSTANTS
    DefaultLines, MaxLineCount,   \* lines of a head, when not asked for and at most
    MaxEntryLines                 \* lines of one entry of `reads`

ASSUME ExcerptsAssumption == MaxEntryLines \in Nat

(* Answers that show no line: an error, and an index out of range.           *)
StartExceeds == <<0>>
Panic == <<-1>>

Numbers(from, to) == [k \in 1..(IF to < from THEN 0 ELSE to - from + 1) |-> from + k - 1]
LineLimit(requested) == IF requested <= 0 THEN DefaultLines ELSE Min({requested, MaxLineCount})

(* The lines a scan of the file keeps; stopAt 0 stops at the end.            *)
ScanLines(total, readStart, stopAt) ==
    Numbers(Max({1, readStart}), IF stopAt <= 0 THEN total ELSE Min({stopAt, total}))

(* A range.  When more was stored than the range asks for it is cut, and a    *)
(* length below zero is no length to cut to.                                 *)
RenderRangePortion(total, start0, end0) ==
    LET start == Max({1, start0})
        stored == ScanLines(total, start, end0)
        end == IF end0 <= 0 \/ end0 > total THEN total ELSE end0
        want == end - start + 1
    IN IF start > total THEN StartExceeds
       ELSE IF Len(stored) > want THEN IF want < 0 THEN Panic ELSE SubSeq(stored, 1, want)
       ELSE stored

RenderHeadPortion(total, lines) == ScanLines(total, 1, LineLimit(lines))

RenderRange(total, start, end, lines) ==
    IF start > 0 \/ end > 0 THEN RenderRangePortion(total, start, end) ELSE RenderHeadPortion(total, lines)

RenderEntry(total, start0, endAt) ==
    LET kept == ScanLines(total, start0, endAt) IN SubSeq(kept, 1, Min({Len(kept), MaxEntryLines}))

(***************************************************************************)
(* The tail of a text.                                                       *)
(***************************************************************************)
Breaks(s) == {i \in 1..Len(s) : s[i] = "nl"}
TotalLines(s) == Cardinality(Breaks(s)) + (IF s # <<>> /\ Last(s) # "nl" THEN 1 ELSE 0)

(* From the last character but one backwards to the break before the tail.   *)
RenderTail(s, count) ==
    LET show == Min({count, TotalLines(s)})
        before == {i \in Breaks(s) : i < Len(s)}
        cut == {i \in before : Cardinality({j \in before : j >= i}) = show}
        selected == SubSeq(s, 1 + Max(cut \cup {0}), Len(s))
        ink == {i \in 1..Len(selected) : selected[i] # "nl"}
    IN [text |-> SubSeq(selected, 1, Max(ink \cup {0})),
        first |-> TotalLines(s) - show + 1, last |-> TotalLines(s)]

(* The lines of a text, without their breaks.                                *)
LineEnds(s) == Breaks(s) \cup (IF s # <<>> /\ Last(s) # "nl" THEN {Len(s) + 1} ELSE {})
LinesOf(s) ==
    LET at == InTurn(Len(s) + 1, LineEnds(s))
    IN [k \in 1..Len(at) |-> SubSeq(s, (IF k = 1 THEN 0 ELSE at[k - 1]) + 1, at[k] - 1)]

(***************************************************************************)
(* Windows, summaries, budgets.                                              *)
(***************************************************************************)

(* Mutant: windows that touch without a line in common stay apart.           *)
MergeOverlapping(windows, w) ==
    LET n == Len(windows)
    IN IF n > 0 /\ w.start <= windows[n].end
       THEN [windows EXCEPT ![n] = [start |-> @.start, end |-> Max({@.end, w.end}), matches |-> @.matches \cup w.matches]]
       ELSE Append(windows, w)

(* The hits of a body arrive in order; each opens a window of its own or      *)
(* extends the last one when the two touch.                                  *)
Merge(windows, w) ==
    LET n == Len(windows)
    IN IF n > 0 /\ w.start <= windows[n].end + 1
       THEN [windows EXCEPT ![n] = [start |-> @.start, end |-> Max({@.end, w.end}), matches |-> @.matches \cup w.matches]]
       ELSE Append(windows, w)

Around(h, ctx, total) == [start |-> Max({1, h - ctx}), end |-> Min({total, h + ctx}), matches |-> {h}]
WindowsUpTo(at, ctx, total) ==
    LET upTo[k \in 0..Len(at)] == IF k = 0 THEN <<>> ELSE Merge(upTo[k - 1], Around(at[k], ctx, total))
    IN upTo
BuildWindows(hits, ctx, total) ==
    LET at == InTurn(total, hits) IN WindowsUpTo(at, ctx, total)[Len(at)]

(* The first and the last `max` lines of a body that is longer than both.    *)
SummarizeBody(total, max) ==
    IF total <= max * 2 + 1 THEN [shown |-> Numbers(1, total), omitted |-> 0]
    ELSE [shown |-> Numbers(1, max) \o Numbers(total - max + 1, total), omitted |-> total - max * 2]

TruncateToBudget(s, budget) ==
    LET cut == {i \in Breaks(s) : i <= budget}
    IN IF budget <= 0 \/ Len(s) <= budget THEN s
       ELSE IF cut = {} THEN SubSeq(s, 1, budget) ELSE SubSeq(s, 1, Max(cut) - 1)

(***************************************************************************)
(* What is shown is what was asked for.                                      *)
(***************************************************************************)

(* A tail is the last lines of the file under the numbers the header gives    *)
(* them: exactly those lines, but for blank ones at the very end.            *)
TailExact(s, count) ==
    LET r == RenderTail(s, count)
        asked == [k \in 1..(r.last - r.first + 1) |-> LinesOf(s)[r.first + k - 1]]
        shown == LinesOf(r.text)
    IN /\ Len(asked) = Min({count, Len(LinesOf(s))})
       /\ IsPrefix(shown, asked)
       /\ \A k \in (Len(shown) + 1)..Len(asked) : asked[k] = <<>>

(* A range shows every line of it that the file has, once and in order, and   *)
(* no other; an entry of `reads` shows its first lines.                      *)
RangeExact(total, start, end) ==
    LET shown == RenderRange(total, start, end, MaxLineCount)
        InRange(n) == n >= start /\ (end <= 0 \/ n <= end)
    IN (start + end > 0 /\ (end <= 0 \/ end >= start - 1)) =>
          /\ shown = StartExceeds <=> Max({1, start}) > total
          /\ shown # StartExceeds =>
                /\ ToSet(shown) = {n \in 1..total : InRange(n)} /\ IsSorted(shown, <)
                /\ IsPrefix(RenderEntry(total, start, end), shown)

(* The windows of a body show each line within `ctx` of a hit once, no other, *)
(* every hit marked, and a gap of at least one line between two of them.     *)
WindowsExact(hits, ctx, total) ==
    LET ws == BuildWindows(hits, ctx, total)
        Shown(w) == w.start..w.end
    IN /\ UNION {Shown(ws[k]) : k \in 1..Len(ws)} = {n \in 1..total : \E h \in hits : n \in (h - ctx)..(h + ctx)}
       /\ UNION {ws[k].matches : k \in 1..Len(ws)} = hits
       /\ \A k \in 1..Len(ws) : ws[k].matches \subseteq Shown(ws[k])
       /\ \A k \in 2..Len(ws) : ws[k - 1].end + 1 < ws[k].start
=============================================================================
