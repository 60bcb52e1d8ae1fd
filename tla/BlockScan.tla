----------------------------- MODULE BlockScan -----------------------------
(***************************************************************************)
(* mapBlockBoundaries of tools/grepfunc/scanner.go: one pass over the lines   *)
(* of a file that tells, for every line, the innermost function or type it    *)
(* belongs to, by counting braces.  A line is a record of its characters and  *)
(* of what the signature heuristics say of it; a line index counts from 1.    *)
(***************************************************************************)
EXTENDS Integers, Sequences, FiniteSetsExt, LineScan

CONSTANTS
    Line,        \* [text : Seq(char), sig, keyword, whole : BOOLEAN]: the lines a file may have;
                 \* `whole` when its last character closes a brace
    MaxLines

ASSUME LinesAssumption ==
    /\ MaxLines \in Nat
    /\ \A l \in Line : l \in [text : Seq({l.text[k] : k \in DOMAIN l.text}), sig : BOOLEAN, keyword : BOOLEAN, whole : BOOLEAN]

VARIABLES
    lines,       \* the part of the file scanned so far
    state,       \* lexical state the next line begins in
    depth,       \* brace depth before the next line
    stack,       \* fnEntry: open signatures, bodyDepth below zero until the body opens
    starts,      \* per line: the start of its innermost block, or NoBlock
    ends,        \* per line that starts a block: its last line, or NoBlock
    scanned      \* the end of the file has been reached
vars == <<lines, state, depth, stack, starts, ends, scanned>>

NoBlock == 0
Pending == -1

Init ==
    /\ lines = <<>> /\ state = Code /\ depth = 0 /\ stack = <<>>
    /\ starts = <<>> /\ ends = <<>> /\ scanned = FALSE

AwaitingKeywordSignature == stack # <<>> /\ stack[Len(stack)].bodyDepth < 0 /\ stack[Len(stack)].keyword

(* Mutant: a sample inside a raw string or comment is taken for a signature. *)
SignatureAnywhere(l, i, r) ==
    LET n == Len(stack)
        opened == depth + r.opens - r.closes > depth \/ l.whole
    IN IF l.sig /\ ~AwaitingKeywordSignature
       THEN Append(stack, [startLine |-> i, bodyDepth |-> IF opened THEN depth ELSE Pending, keyword |-> l.keyword])
       ELSE IF n > 0 /\ stack[n].bodyDepth < 0 /\ r.opens > 0
       THEN [stack EXCEPT ![n].bodyDepth = depth]
       ELSE stack

(* The entries a line leaves on the stack before bodies are closed.          *)
Signature(l, i, r) ==
    LET n == Len(stack)
        opened == depth + r.opens - r.closes > depth \/ l.whole
    IN IF state = Code /\ l.sig /\ ~AwaitingKeywordSignature
       THEN Append(stack, [startLine |-> i, bodyDepth |-> IF opened THEN depth ELSE Pending, keyword |-> l.keyword])
       ELSE IF n > 0 /\ stack[n].bodyDepth < 0 /\ r.opens > 0
       THEN [stack EXCEPT ![n].bodyDepth = depth]
       ELSE stack

(* closeEndedBlocks pops while the innermost body began at the depth d.  A    *)
(* mark below zero is taken for a body not opened yet: nothing is popped.     *)
Kept(st, d) == Min({k \in 0..Len(st) : \A j \in (k + 1)..Len(st) : st[j].bodyDepth >= 0 /\ st[j].bodyDepth = d})

Ends(es, closed, last) == [j \in DOMAIN es |-> IF \E e \in closed : e.startLine = j THEN last ELSE es[j]]

(* Mutant: the outermost block that closes claims the lines.                 *)
ClaimOutermost(ss, closed, last) ==
    [j \in DOMAIN ss |->
        LET around == {e.startLine : e \in {x \in closed : x.startLine <= j}}
        IN IF ss[j] = NoBlock /\ around # {} /\ j <= last THEN Min(around) ELSE ss[j]]

(* A line nobody has claimed goes to the innermost of the blocks that close. *)
Claim(ss, closed, last) ==
    [j \in DOMAIN ss |->
        LET around == {e.startLine : e \in {x \in closed : x.startLine <= j}}
        IN IF ss[j] = NoBlock /\ around # {} /\ j <= last THEN Max(around) ELSE ss[j]]

ScanNext(l) ==
    LET i  == Len(lines) + 1
        r  == ScanLine(l.text, state)
        d  == depth + r.opens - r.closes
        st == Signature(l, i, r)
        closed == {st[k] : k \in (Kept(st, d) + 1)..Len(st)}
    IN /\ ~scanned /\ i <= MaxLines
       /\ lines' = Append(lines, l)
       /\ state' = r.state
       /\ depth' = d
       /\ stack' = SubSeq(st, 1, Kept(st, d))
       /\ ends' = Ends(Append(ends, NoBlock), closed, i)
       /\ starts' = Claim(Append(starts, NoBlock), closed, i)
       /\ UNCHANGED scanned

(* Mutant: the last line of the file is taken to be the one behind it.       *)
CloseUnterminatedPast ==
    LET open == {stack[k] : k \in {j \in 1..Len(stack) : stack[j].bodyDepth >= 0}}
    IN /\ ~scanned
       /\ ends' = Ends(ends, open, Len(lines) + 1)
       /\ starts' = Claim(starts, open, Len(lines) + 1)
       /\ scanned' = TRUE
       /\ UNCHANGED <<lines, state, depth, stack>>

(* closeUnterminated: bodies left open at the end of the file run to it; a   *)
(* signature whose body never opened is no block.                            *)
CloseUnterminated ==
    LET open == {stack[k] : k \in {j \in 1..Len(stack) : stack[j].bodyDepth >= 0}}
    IN /\ ~scanned
       /\ ends' = Ends(ends, open, Len(lines))
       /\ starts' = Claim(starts, open, Len(lines))
       /\ scanned' = TRUE
       /\ UNCHANGED <<lines, state, depth, stack>>

Next == (\E l \in Line : ScanNext(l)) \/ CloseUnterminated
Spec == Init /\ [][Next]_vars

(***************************************************************************)
(* Properties.                                                               *)
(***************************************************************************)

Block(s) == s \in DOMAIN ends /\ ends[s] # NoBlock
Inside(s, j) == Block(s) /\ s <= j /\ j <= ends[s]

(* Every variable has its type, and the tables have one cell for each line.  *)
BlockTypeOK ==
    /\ lines \in Seq(Line) /\ Len(lines) <= MaxLines
    /\ state \in {Code, BlockComment, "backtick"}
    /\ depth \in Int
    /\ stack \in Seq([startLine : 1..Len(lines), bodyDepth : Int, keyword : BOOLEAN])
    /\ DOMAIN starts = 1..Len(lines) /\ DOMAIN ends = 1..Len(lines)
    /\ \A j \in 1..Len(lines) : starts[j] \in NoBlock..Len(lines) /\ ends[j] \in NoBlock..Len(lines)
    /\ scanned \in BOOLEAN

(* Two tables, one answer: the start recorded for a line is the last block   *)
(* that begins at or before it and ends at or after it, and NoBlock when     *)
(* there is none.  grep_func shows the block of a hit, and grep_context the   *)
(* enclosing symbol, by the first table, the end of it by the second.        *)
InnermostBlock ==
    scanned => \A j \in DOMAIN starts :
        starts[j] = Max({s \in DOMAIN ends : Inside(s, j)} \cup {NoBlock})

(* What the walk over every character says after each line of a file.        *)
Walked(ls) ==
    LET after[j \in 0..Len(ls)] ==
            IF j = 0 THEN [state |-> Code, depth |-> 0]
            ELSE LET b == after[j - 1]
                     r == ScanLineDense(ls[j].text, 1, b.state)
                 IN [state |-> r.state, depth |-> b.depth + r.opens - r.closes]
    IN after
DepthAfter(j) == Walked(lines)[j].depth
InCode(j) == Walked(lines)[j - 1].state = Code

(* Files the brace count can follow: no line closes two bodies or one that    *)
(* was never opened (a body that opens below zero counts as not opened), and  *)
(* every signature opens its body on its own line.                           *)
Plain ==
    /\ \A j \in DOMAIN lines : DepthAfter(j) >= Max({0, DepthAfter(j - 1) - 1})
    /\ \A j \in DOMAIN lines : (lines[j].sig /\ InCode(j)) =>
            DepthAfter(j) > DepthAfter(j - 1) \/ (lines[j].whole /\ DepthAfter(j) = DepthAfter(j - 1))

(* In such a file the blocks are the signatures in code, and each ends on the *)
(* line that brings the depth back to what it was, or at the end of the file: *)
(* strings, raw strings and comments with braces in them do not shift it.    *)
BodiesMatched ==
    (scanned /\ Plain) => \A s \in DOMAIN lines :
        LET back == {j \in s..Len(lines) : DepthAfter(j) = DepthAfter(s - 1)}
        IN IF lines[s].sig /\ InCode(s)
           THEN ends[s] = Min(back \cup {Len(lines)})
           ELSE ~Block(s)
=============================================================================
