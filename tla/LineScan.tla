------------------------------ MODULE LineScan ------------------------------
(***************************************************************************)
(* The brace counter of the block scanner (tools/grepfunc/scanner.go): how   *)
(* many braces a line opens and closes outside strings and comments, and the *)
(* lexical state the next line begins in.  A line is a sequence of           *)
(* characters; positions count from 1.                                       *)
(***************************************************************************)
EXTENDS Integers, Sequences

CONSTANTS
    JumpScanSample,   \* jumps after which a line's density is judged
    JumpScanMinGap    \* average gap below which the walk takes over

ASSUME ScanAssumption == JumpScanSample \in Nat /\ JumpScanMinGap \in Nat

Code == "code"
BlockComment == "blockComment"
LineComment == "lineComment"

(* The quote that ends each kind of string, and whether a backslash escapes. *)
Quote == [doubleQuote |-> "dquote", singleQuote |-> "squote", backtick |-> "backquote"]
ScanSpecials == {"{", "}", "/", "dquote", "squote", "backquote"}
Escapes(s) == s # "backtick"
ScanStates == {Code, BlockComment, LineComment} \cup DOMAIN Quote

At(line, i) == IF i \in 1..Len(line) THEN line[i] ELSE "end"

(* States that end with their line. *)
ResetLineState(s) == IF s \in {LineComment, "doubleQuote", "singleQuote"} THEN Code ELSE s

EndOfLine(s) == [opens |-> 0, closes |-> 0, state |-> ResetLineState(s)]
Plus(c, rest) == [opens |-> c.opens + rest.opens, closes |-> c.closes + rest.closes, state |-> rest.state]

(* One character in code: the braces it counts, the state it leaves, the     *)
(* last position it takes, and whether the rest of the line is a comment.    *)
ScanCodeChar(line, i) ==
    LET c == At(line, i)
        At2 == At(line, i + 1)
        quotes == {s \in DOMAIN Quote : Quote[s] = c}
    IN [opens  |-> IF c = "{" THEN 1 ELSE 0,
        closes |-> IF c = "}" THEN 1 ELSE 0,
        state  |-> IF quotes # {} THEN CHOOSE s \in quotes : TRUE
                   ELSE IF c = "/" /\ At2 = "/" THEN LineComment
                   ELSE IF c = "/" /\ At2 = "*" THEN BlockComment ELSE Code,
        last   |-> IF c = "/" /\ At2 = "*" THEN i + 1 ELSE i,
        done   |-> c = "/" /\ At2 = "/"]

ScanQuotedChar(line, i, s) ==
    IF Escapes(s) /\ line[i] = "backslash" /\ i < Len(line) THEN [state |-> s, last |-> i + 1]
    ELSE [state |-> IF line[i] = Quote[s] THEN Code ELSE s, last |-> i]

ScanBlockCommentChar(line, i) ==
    IF line[i] = "*" /\ At(line, i + 1) = "/" THEN [state |-> Code, last |-> i + 1]
    ELSE [state |-> BlockComment, last |-> i]

(* What the walk finds from position i on, given what it finds `later`.      *)
WalkFrom(line, later, i, s) ==
    LET c == IF s = Code THEN ScanCodeChar(line, i)
             ELSE IF s = BlockComment THEN ScanBlockCommentChar(line, i)
             ELSE ScanQuotedChar(line, i, s)
    IN IF i > Len(line) \/ s = LineComment THEN EndOfLine(s)
       ELSE IF s # Code THEN later[c.last + 1][c.state]
       ELSE Plus(c, IF c.done THEN EndOfLine(c.state) ELSE later[c.last + 1][c.state])

(* The walk over every character from position `from`. *)
ScanLineDense(line, from, state) ==
    LET walk[i \in Nat] == [s \in ScanStates |-> WalkFrom(line, walk, i, s)]
    IN walk[from][state]

(* The next position at or after i that satisfies Test, or 0. *)
NextPos(line, i, Test(_)) ==
    LET hits == {j \in i..Len(line) : Test(line[j])}
    IN IF hits = {} THEN 0 ELSE CHOOSE j \in hits : \A k \in hits : j <= k

(* Mutant: a quote after any backslash counts as escaped. *)
ScanQuoteRunAnySlash(line, i, s) ==
    LET p == NextPos(line, i, LAMBDA ch : ch = Quote[s])
    IN IF p = 0 THEN [state |-> s, next |-> Len(line) + 1, done |-> TRUE]
       ELSE [state |-> IF Escapes(s) /\ p > i /\ line[p - 1] = "backslash" THEN s ELSE Code,
             next |-> p + 1, done |-> FALSE]

(* Jumps to the closing quote, unless an odd run of backslashes escapes it. *)
ScanQuoteRun(line, i, s) ==
    LET p == NextPos(line, i, LAMBDA ch : ch = Quote[s])
        clean == {j \in (i - 1)..(p - 1) : \A k \in (j + 1)..(p - 1) : line[k] = "backslash"}
        run == p - 1 - CHOOSE j \in clean : \A k \in clean : j <= k
    IN IF p = 0 THEN [state |-> s, next |-> Len(line) + 1, done |-> TRUE]
       ELSE [state |-> IF Escapes(s) /\ run % 2 = 1 THEN s ELSE Code, next |-> p + 1, done |-> FALSE]

ScanBlockCommentRun(line, i) ==
    LET ends == {j \in i..Len(line) : line[j] = "*" /\ At(line, j + 1) = "/"}
    IN IF ends = {} THEN [state |-> BlockComment, next |-> Len(line) + 1, done |-> TRUE]
       ELSE [state |-> Code, next |-> 2 + CHOOSE j \in ends : \A k \in ends : j <= k, done |-> FALSE]

ScanInactiveRun(line, i, s) ==
    CASE s = BlockComment -> ScanBlockCommentRun(line, i)
      [] s = LineComment  -> [state |-> s, next |-> Len(line) + 1, done |-> TRUE]
      [] OTHER            -> ScanQuoteRun(line, i, s)

(* What the jump scan finds from position i on, given what it finds `later`. *)
JumpFrom(line, later, i, s, jumps) ==
    LET r == ScanInactiveRun(line, i, s)
        p == NextPos(line, i, LAMBDA ch : ch \in ScanSpecials)
        c == ScanCodeChar(line, p)
    IN IF i > Len(line) THEN EndOfLine(s)
       ELSE IF s # Code
       THEN IF r.done THEN EndOfLine(r.state) ELSE later[r.next][r.state][jumps]
       ELSE IF p = 0 THEN EndOfLine(Code)
       ELSE IF jumps + 1 = JumpScanSample /\ p - 1 < (jumps + 1) * JumpScanMinGap
       THEN ScanLineDense(line, p, Code)
       ELSE IF c.done THEN EndOfLine(c.state)
       ELSE Plus(c, later[c.last + 1][c.state][jumps + 1])

(* The scan that jumps between the characters that can matter, and falls     *)
(* back to the walk when those are dense.                                    *)
ScanLine(line, state) ==
    LET jump[i \in Nat] == [s \in ScanStates |-> [n \in Nat |-> JumpFrom(line, jump, i, s, n)]]
    IN jump[1][state][0]

(* A line that is one string or comment for the jump scan is one for the     *)
(* walk: both count the same braces and leave the same state, whatever state *)
(* the line begins in (TestScanLineAgreesWithDenseScan tries it on samples).  *)
ScansAgree(line) ==
    \A s \in ScanStates : ScanLine(line, s) = ScanLineDense(line, 1, s)
=============================================================================
