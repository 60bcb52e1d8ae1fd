------------------------------ MODULE Matchers ------------------------------
(***************************************************************************)
(* The matchers of patch_file (tools/patchedit/match.go): where a text to be  *)
(* replaced is found, exactly or by one of three looser readings.  A text is  *)
(* a sequence of bytes in UTF-8: a character is one byte or a lead "L" and the *)
(* byte that continues it, "nl" is the line break, " " the other white space   *)
(* the matchers fold and "ff" a blank of one byte (form feed, vertical tab)    *)
(* that only the trimming knows.  Offsets count from 0, ends are exclusive.   *)
(***************************************************************************)
EXTENDS Sublists, SequencesExt

CONSTANTS
    MaxSubstringWindow,      \* a shared run must be this long, or all of a shorter text
    LongSubstringThreshold,  \* longer texts are compared by whole lines
    MinLineCoverage          \* in tenths

ASSUME MatchersAssumption == MaxSubstringWindow \in Nat \ {0}

Continues(c) == c \in {"x", "y"}
WellFormed(s) ==
    /\ \A i \in 1..Len(s) : Continues(s[i]) <=> i > 1 /\ s[i - 1] = "L"
    /\ s # <<>> => s[Len(s)] # "L"

(* Positions at which t occurs in s, those that overlap included.            *)
Occurrences(s, t) == {i \in 1..(Len(s) - Len(t) + 1) : SubSeq(s, i, i + Len(t) - 1) = t}
Holds(s, t) == Occurrences(s, t) # {}

MatchLoc(from, end, strategy) == [from |-> from, end |-> end, strategy |-> strategy]
Region(i, n, strategy) == MatchLoc(i - 1, i + n - 1, strategy)

ExactMatch(content, old) ==
    IF old = <<>> THEN {} ELSE {Region(i, Len(old), "exact") : i \in Occurrences(content, old)}

(***************************************************************************)
(* Whitespace.                                                               *)
(***************************************************************************)
IsWhitespace(c) == c \in {" ", "nl"}
IsSpace(c) == IsWhitespace(c) \/ c = "ff"   \* of package unicode, what strings.TrimSpace trims

Inked(s) == {i \in 1..Len(s) : ~IsWhitespace(s[i])}
Visible(s) == {i \in 1..Len(s) : ~IsSpace(s[i])}

(* The positions of s that are left when each run of white space is cut to its *)
(* first character and none is left in front; and those trimming leaves.     *)
Folded(s) == Inked(s) \cup {i \in 2..Len(s) : i - 1 \in Inked(s)}
Survivors(s) == InTurn(Len(s), {i \in Folded(s) : \E j, k \in Visible(s) : j <= i /\ i <= k})

Blanked(c) == IF IsWhitespace(c) THEN " " ELSE c
Collapse(s) == LET at == Survivors(s) IN [k \in 1..Len(at) |-> Blanked(s[at[k]])]

(* Occurrences taken from the left, each search resuming behind the last.    *)
LeftToRight(s, t) ==
    LET from[i \in Nat] ==
            LET next == {j \in Occurrences(s, t) : j >= i}
            IN IF next = {} THEN {} ELSE {Min(next)} \cup from[Min(next) + Len(t)]
    IN from[1]

(* Where each character of the folded content began.  It is folded before it  *)
(* is trimmed, and the trimming drops no entry in front.                      *)
OrigForNorm(s) == InTurn(Len(s), {i \in Folded(s) : ~Continues(s[i])})
RuneAt(norm, k) == Cardinality({q \in 1..k : ~Continues(norm[q])})

(* Mutant: the end of a location is looked up one byte too far.              *)
WsMatchLocPast(content, norm, abs, normLen) ==
    LET starts == OrigForNorm(content)
    IN MatchLoc(starts[RuneAt(norm, abs)] - 1,
                IF abs + normLen <= Len(norm) THEN starts[RuneAt(norm, abs + normLen)] ELSE Len(content),
                "whitespace_fuzzy")

(* The end is one byte behind the start of the last character.               *)
WsMatchLoc(content, norm, abs, normLen) ==
    LET starts == OrigForNorm(content)
    IN MatchLoc(starts[RuneAt(norm, abs)] - 1, starts[RuneAt(norm, abs + normLen - 1)], "whitespace_fuzzy")

WsFuzzyMatch(content, old) ==
    LET normContent == Collapse(content)
        normOld == Collapse(old)
    IN IF normOld = <<>> THEN {}
       ELSE {WsMatchLoc(content, normContent, abs, Len(normOld)) : abs \in LeftToRight(normContent, normOld)}

(***************************************************************************)
(* Lines.                                                                    *)
(***************************************************************************)

(* The first and last position of each line; `keep` includes the break.      *)
LineSpans(s) ==
    LET breaks == InTurn(Len(s), {i \in 1..Len(s) : s[i] = "nl"})
        cuts == <<0>> \o breaks
    IN [k \in 1..Len(cuts) |-> <<cuts[k] + 1, IF k < Len(cuts) THEN cuts[k + 1] ELSE Len(s)>>]

Lines(s) == LET at == LineSpans(s) IN [k \in 1..Len(at) |-> SubSeq(s, at[k][1], at[k][2])]

TrimSpace(s) ==
    LET seen == Visible(s) IN IF seen = {} THEN <<>> ELSE SubSeq(s, Min(seen), Max(seen))

TrimmedLines(s) == LET all == Lines(s) IN [k \in 1..Len(all) |-> TrimSpace(all[k])]

(* A line of nothing but "ff" is not empty, and pairs with none.             *)
NonEmptyLines(s) ==
    LET all == Lines(s) IN Picked(TrimmedLines(s), {k \in 1..Len(all) : Inked(all[k]) # {}})

LinePairMatches(fileLine, searchLine) ==
    LET Covers(short, long) ==
            Len(short) <= Len(long) /\ Holds(long, short) /\ Len(short) * 10 >= MinLineCoverage * Len(long)
    IN fileLine # <<>> /\ searchLine # <<>> /\ (Covers(fileLine, searchLine) \/ Covers(searchLine, fileLine))

LineFuzzyMatch(content, old) ==
    LET file == TrimmedLines(content)
        asked == NonEmptyLines(old)
        at == LineSpans(content)
        n == Len(asked)
    IN IF n = 0 THEN {}
       ELSE {MatchLoc(at[i][1] - 1, at[i + n - 1][2], "line_fuzzy") :
                i \in {k \in 1..(Len(file) - n + 1) : \A j \in 0..(n - 1) : LinePairMatches(file[k + j], asked[j + 1])}}

(***************************************************************************)
(* Shared substrings.                                                        *)
(***************************************************************************)

(* From every start the window grows while the content holds it.             *)
Grow(content, old, start, end) ==
    LET grow[e \in Nat] ==
            IF e <= Len(old) /\ Holds(content, SubSeq(old, start, e)) THEN grow[e + 1] ELSE e - 1
    IN grow[end]

(* The first of the longest.                                                 *)
FirstLongest(seqs) ==
    LET longest == {k \in DOMAIN seqs : \A j \in DOMAIN seqs : Len(seqs[j]) <= Len(seqs[k])}
    IN IF longest = {} THEN <<>> ELSE seqs[Min(longest)]

LongestCommonWindow(content, old, minLen) ==
    FirstLongest([start \in 1..Len(old) |->
        LET end == Grow(content, old, start, start + minLen - 1)
        IN IF end >= start + minLen - 1 THEN SubSeq(old, start, end) ELSE <<>>])

LongestCommonLine(content, old) ==
    LET all == TrimmedLines(old)
    IN FirstLongest([k \in 1..Len(all) |-> IF Holds(content, all[k]) THEN all[k] ELSE <<>>])

LongestCommonSubstring(content, old) ==
    IF Len(old) > LongSubstringThreshold THEN LongestCommonLine(content, old)
    ELSE LongestCommonWindow(content, old, Min({Len(old), MaxSubstringWindow}))

SubFuzzyMatch(content, old) ==
    LET longest == LongestCommonSubstring(content, old)
    IN IF longest = <<>> THEN {} ELSE {Region(i, Len(longest), "substring_fuzzy") : i \in Occurrences(content, longest)}

(* The four readings, the first that finds anything.                         *)
FindAllMatches(content, old) ==
    IF ExactMatch(content, old) # {} THEN ExactMatch(content, old)
    ELSE IF WsFuzzyMatch(content, old) # {} THEN WsFuzzyMatch(content, old)
    ELSE IF LineFuzzyMatch(content, old) # {} THEN LineFuzzyMatch(content, old)
    ELSE SubFuzzyMatch(content, old)

(***************************************************************************)
(* What a location promises.                                                 *)
(***************************************************************************)

TextAt(content, r) == SubSeq(content, r.from + 1, r.end)

(* A region that ends inside a character, taken to the end of the character:  *)
(* the white space match ends so behind a character of more than one byte.   *)
ToCharEnd(content, r) ==
    IF r.end < Len(content) /\ Continues(content[r.end + 1]) THEN [r EXCEPT !.end = @ + 1] ELSE r

(* Trimming takes nothing from the front of the folded content.              *)
Unshifted(content) == \A i \in Inked(content) : \E j \in Visible(content) : j <= i

(* The region an edit replaces reads like the text it was given: the same     *)
(* text, the same up to white space and the end of the last character (if    *)
(* trimming took nothing from the front), whole lines that pair up, or a run *)
(* of bytes that both hold; none is empty or reaches past the content.       *)
RegionsRead(content, old) ==
    \A r \in FindAllMatches(content, old) :
        /\ 0 <= r.from /\ r.from < r.end /\ r.end <= Len(content)
        /\ r.strategy = "exact" => TextAt(content, r) = old
        /\ r.strategy = "whitespace_fuzzy" /\ Unshifted(content) =>
              Collapse(TextAt(content, ToCharEnd(content, r))) = Collapse(old)
        /\ r.strategy = "line_fuzzy" =>
              /\ Len(NonEmptyLines(TextAt(content, r))) = Len(NonEmptyLines(old))
              /\ r.from = 0 \/ content[r.from] = "nl"
        /\ r.strategy = "substring_fuzzy" => Holds(old, TextAt(content, r))

(* What a text and the content have in common.                               *)
Shared(content, old) == {t \in {SubSeq(old, i, j) : i, j \in 1..Len(old)} : t # <<>> /\ Holds(content, t)}

(* No reading is skipped: a text with the same words in the same order is     *)
(* found by the white space match, and the shared run of a short text is the *)
(* longest there is.                                                         *)
NothingCloser(content, old) ==
    LET least == Min({Len(old), MaxSubstringWindow})
        longest == LongestCommonWindow(content, old, least)
        normOld == Collapse(old)
    IN /\ (normOld # <<>> /\ Holds(Collapse(content), normOld)) =>
              \E r \in FindAllMatches(content, old) : r.strategy \in {"exact", "whitespace_fuzzy"}
       /\ \A t \in Shared(content, old) : Len(t) >= least => Len(t) <= Len(longest)
=============================================================================
