------------------------------ MODULE TextProof ------------------------------
(***************************************************************************)
(* Proofs about the text tools, for every line, file, pattern and call: the  *)
(* jump scan of a line is the walk over it, the blocks of a file are what the *)
(* walk's braces say, and those of an indented file a tree; the two glob     *)
(* matchers agree; the files multi_read reads follow the call, for every     *)
(* order its goroutines end in; pages are complete; and the composition of   *)
(* the tools keeps all of this.                                              *)
(***************************************************************************)
EXTENDS TextTools, Counting

-----------------------------------------------------------------------------
(* The walk over a line *)

\* What a scan says of a line.
LineStates == {"code", "blockComment", "backtick"}
Scanned == [opens : Nat, closes : Nat, state : LineStates]

\* The states a line can be in, and what each leaves to the next line.
LEMMA StatesAre ==
    /\ DOMAIN Quote = {"doubleQuote", "singleQuote", "backtick"}
    /\ ScanStates = {"code", "blockComment", "lineComment", "doubleQuote", "singleQuote", "backtick"}
    /\ Code = "code" /\ BlockComment = "blockComment" /\ LineComment = "lineComment"
<1> QED BY DEF ScanStates, Quote, Code, BlockComment, LineComment

LEMMA QuotesAre ==
    /\ Quote["doubleQuote"] = "dquote" /\ Quote["singleQuote"] = "squote" /\ Quote["backtick"] = "backquote"
    /\ \A s \in DOMAIN Quote : Quote[s] \in ScanSpecials /\ Quote[s] # "backslash"
<1>1. Quote["doubleQuote"] = "dquote" /\ Quote["singleQuote"] = "squote" /\ Quote["backtick"] = "backquote"
  BY DEF Quote
<1>2. \A s \in DOMAIN Quote : s \in {"doubleQuote", "singleQuote", "backtick"}
  BY StatesAre
<1> QED BY <1>1, <1>2 DEF ScanSpecials

LEMMA EndOfLineTyped == \A s \in ScanStates : EndOfLine(s) \in Scanned
<1> QED BY StatesAre DEF EndOfLine, ResetLineState, Scanned, LineStates

LEMMA PlusTyped ==
    ASSUME NEW c, c.opens \in Nat, c.closes \in Nat, NEW r \in Scanned
    PROVE  Plus(c, r) \in Scanned
<1>1. r.opens \in Nat /\ r.closes \in Nat /\ r.state \in LineStates
  BY DEF Scanned
<1> QED BY <1>1 DEF Plus, Scanned

\* A character takes the scan to a position further on.
LEMMA CodeCharTyped ==
    ASSUME NEW line, NEW i \in Nat
    PROVE  LET c == ScanCodeChar(line, i)
           IN /\ c.opens \in Nat /\ c.closes \in Nat /\ c.state \in ScanStates
              /\ c.last \in Nat /\ c.last >= i /\ c.done \in BOOLEAN
<1> DEFINE quotes == {s \in DOMAIN Quote : Quote[s] = At(line, i)}
           chosen == CHOOSE s \in quotes : TRUE
<1>1. quotes # {} => chosen \in DOMAIN Quote
  OBVIOUS
<1> HIDE DEF quotes, chosen
<1>2. quotes # {} => chosen \in ScanStates
  BY <1>1, StatesAre
<1>3. ScanCodeChar(line, i).state \in ScanStates
  <2>1. ScanCodeChar(line, i).state \in {chosen, "code", "lineComment", "blockComment"}
    BY DEF ScanCodeChar, quotes, chosen, Code, BlockComment, LineComment
  <2>2. ScanCodeChar(line, i).state = chosen => quotes # {} \/ chosen \in {"code", "lineComment", "blockComment"}
    BY DEF ScanCodeChar, quotes, chosen, Code, BlockComment, LineComment
  <2> QED BY <1>2, <2>1, <2>2, StatesAre
<1> QED BY <1>3 DEF ScanCodeChar

LEMMA OtherCharTyped ==
    ASSUME NEW line, NEW i \in Nat, NEW s \in ScanStates
    PROVE  /\ LET c == ScanBlockCommentChar(line, i)
              IN c.state \in ScanStates /\ c.last \in Nat /\ c.last >= i
           /\ LET c == ScanQuotedChar(line, i, s)
              IN c.state \in ScanStates /\ c.last \in Nat /\ c.last >= i
<1> QED BY StatesAre DEF ScanBlockCommentChar, ScanQuotedChar

\* The character the walk meets, as WalkFrom reads it.
CharAt(line, i, s) ==
    IF s = Code THEN ScanCodeChar(line, i)
    ELSE IF s = BlockComment THEN ScanBlockCommentChar(line, i)
    ELSE ScanQuotedChar(line, i, s)

LEMMA WalkFromIs ==
    ASSUME NEW line, NEW later, NEW i, NEW s
    PROVE  WalkFrom(line, later, i, s) =
              IF i > Len(line) \/ s = LineComment THEN EndOfLine(s)
              ELSE IF s # Code THEN later[CharAt(line, i, s).last + 1][CharAt(line, i, s).state]
              ELSE Plus(CharAt(line, i, s), IF CharAt(line, i, s).done THEN EndOfLine(CharAt(line, i, s).state)
                                            ELSE later[CharAt(line, i, s).last + 1][CharAt(line, i, s).state])
<1> QED BY DEF WalkFrom, CharAt

LEMMA CharTyped ==
    ASSUME NEW line, NEW i \in Nat, NEW s \in ScanStates
    PROVE  LET c == CharAt(line, i, s) IN
           /\ c.state \in ScanStates /\ c.last \in Nat /\ c.last >= i
           /\ s = Code => c.opens \in Nat /\ c.closes \in Nat /\ c.done \in BOOLEAN
<1> QED BY CodeCharTyped, OtherCharTyped DEF CharAt

\* The results of a walk, for every position and state it may begin in.
Walks == [Nat -> [ScanStates -> Scanned]]

LEMMA WalkFromTyped ==
    ASSUME NEW line, NEW later \in Walks, NEW i \in Nat, NEW s \in ScanStates
    PROVE  WalkFrom(line, later, i, s) \in Scanned
<1> DEFINE c == CharAt(line, i, s)
<1>1. c.state \in ScanStates /\ c.last + 1 \in Nat /\ (s = Code => c.opens \in Nat /\ c.closes \in Nat /\ c.done \in BOOLEAN)
  BY CharTyped
<1>2. EndOfLine(s) \in Scanned /\ EndOfLine(c.state) \in Scanned
  BY <1>1, EndOfLineTyped
<1>3. later[c.last + 1][c.state] \in Scanned
  BY <1>1 DEF Walks
<1>4. s = Code => Plus(c, EndOfLine(c.state)) \in Scanned /\ Plus(c, later[c.last + 1][c.state]) \in Scanned
  BY <1>1, <1>2, <1>3, PlusTyped
<1> HIDE DEF c
<1> QED BY <1>2, <1>3, <1>4, WalkFromIs DEF c

\* One walk is the walk of the line.
IsWalk(line, w) == w \in Walks /\ \A i \in Nat, s \in ScanStates : w[i][s] = WalkFrom(line, w, i, s)

LEMMA WalkExists ==
    ASSUME NEW line, Len(line) \in Nat
    PROVE  \E w : IsWalk(line, w) /\ \A from, s : ScanLineDense(line, from, s) = w[from][s]
<1> DEFINE again(f) == [i \in Nat |-> [s \in ScanStates |-> WalkFrom(line, f, i, s)]]
           F == [f \in Walks |-> again(f)]
           S == [ScanStates -> Scanned]
           base == [s \in ScanStates |-> EndOfLine(s)]
<1>1. \A f \in Walks : again(f) \in Walks
  BY WalkFromTyped DEF Walks
<1>2. base \in S
  BY EndOfLineTyped
<1>3. F \in [[Nat -> S] -> [Nat -> S]]
  BY <1>1 DEF Walks
<1>4. ASSUME NEW f \in Walks, NEW g \in Walks, NEW i \in Nat,
             \A j \in Nat : i < j /\ i <= Len(line) => f[j] = g[j]
      PROVE  F[f][i] = F[g][i]
  <2>1. \A s \in ScanStates : WalkFrom(line, f, i, s) = WalkFrom(line, g, i, s)
    <3> TAKE s \in ScanStates
    <3> DEFINE c == CharAt(line, i, s)
    <3>1. c.last + 1 \in Nat /\ c.last + 1 > i
      BY CharTyped
    <3>2. i <= Len(line) => f[c.last + 1] = g[c.last + 1]
      BY <1>4, <3>1
    <3> HIDE DEF c
    <3> QED BY <3>2, WalkFromIs DEF c
  <2> QED BY <2>1
<1> HIDE DEF F, S, base
<1>5. \E f \in [Nat -> S] : F[f] = f
  BY <1>2, <1>3, <1>4, FixedPointExists DEF Walks, S
<1>6. PICK f \in Walks : F[f] = f
  BY <1>5 DEF Walks, S
<1> DEFINE w == CHOOSE x : x = again(x)
<1>7. w = again(w)
  BY <1>6 DEF F
<1>8. \A from, s : ScanLineDense(line, from, s) = w[from][s]
  BY DEF ScanLineDense
<1>9. \A i \in Nat : w[i] = f[i]
  <2> DEFINE T == {i \in Nat : w[i] = f[i]}
  <2>1. ASSUME NEW i \in Nat, \A j \in Nat : i < j /\ i <= Len(line) => j \in T
        PROVE  i \in T
    <3>1. \A s \in ScanStates : WalkFrom(line, w, i, s) = WalkFrom(line, f, i, s)
      <4> TAKE s \in ScanStates
      <4> DEFINE c == CharAt(line, i, s)
      <4>1. c.last + 1 \in Nat /\ c.last + 1 > i
        BY CharTyped
      <4>2. i <= Len(line) => w[c.last + 1] = f[c.last + 1]
        BY <2>1, <4>1
      <4> HIDE DEF c, w
      <4> QED BY <4>2, WalkFromIs DEF c
    <3>2. f = again(f)
      BY <1>6 DEF F
    <3> HIDE DEF w
    <3> QED BY <1>7, <3>1, <3>2
  <2> HIDE DEF T
  <2>2. T \in SUBSET Nat
    BY DEF T
  <2>3. T = Nat
    BY <2>1, <2>2, Downward
  <2> QED BY <2>3 DEF T
<1> HIDE DEF w
<1>10. w = f
  <2>1. w = [i \in Nat |-> w[i]] /\ f = [i \in Nat |-> f[i]]
    BY <1>7 DEF Walks
  <2> QED BY <1>9, <2>1
<1>11. \A i \in Nat, s \in ScanStates : w[i][s] = WalkFrom(line, w, i, s)
  BY <1>7
<1> QED BY <1>8, <1>10, <1>11 DEF IsWalk

\* The walk over a line says what a scan may say.
LEMMA DenseTyped ==
    ASSUME NEW line, Len(line) \in Nat, NEW from \in Nat, NEW s \in ScanStates
    PROVE  ScanLineDense(line, from, s) \in Scanned
<1> QED BY WalkExists DEF IsWalk, Walks

-----------------------------------------------------------------------------
(* Where the walk gets to when nothing can matter *)

\* The first position of a set, or 0 when there is none: what NextPos looks for.
FirstOf(S) == IF S = {} THEN 0 ELSE CHOOSE j \in S : \A k \in S : j <= k

LEMMA FirstOfIs ==
    ASSUME NEW i \in Nat, NEW n \in Nat, NEW S \in SUBSET (i..n)
    PROVE  \/ S = {} /\ FirstOf(S) = 0
           \/ FirstOf(S) \in S /\ FirstOf(S) >= i /\ \A k \in S : FirstOf(S) <= k
<1>1. S \in SUBSET Int /\ i \in Int /\ \A k \in S : i <= k
  OBVIOUS
<1>2. S # {} => \E j \in S : \A k \in S : j <= k
  BY <1>1, LeastExists
<1>3. S # {} => FirstOf(S) \in S /\ \A k \in S : FirstOf(S) <= k
  BY <1>2 DEF FirstOf
<1>4. S = {} => FirstOf(S) = 0
  BY DEF FirstOf
<1> QED BY <1>1, <1>3, <1>4

\* Outside strings and comments a character that is not special counts for nothing.
LEMMA CodeSkips ==
    ASSUME NEW line, Len(line) \in Nat, NEW w, IsWalk(line, w), NEW i \in Nat \ {0},
           NEW q \in i..(Len(line) + 1), \A k \in i..(q - 1) : line[k] \notin ScanSpecials
    PROVE  w[i][Code] = w[q][Code]
<1> DEFINE T == {k \in Nat : i <= k /\ k <= q => w[k][Code] = w[q][Code]}
<1>1. ASSUME NEW k \in Nat, \A j \in Nat : k < j /\ k <= q => j \in T
      PROVE  k \in T
  <2> SUFFICES ASSUME i <= k, k < q PROVE w[k][Code] = w[q][Code]
    OBVIOUS
  <2>1. k \in i..(q - 1) /\ k \in 1..Len(line) /\ ~(k > Len(line))
    OBVIOUS
  <2>2. At(line, k) = line[k] /\ line[k] \notin ScanSpecials
    BY <2>1 DEF At
  <2>3. \A s \in DOMAIN Quote : Quote[s] # At(line, k)
    BY <2>2, QuotesAre DEF ScanSpecials
  <2>4. ScanCodeChar(line, k) = [opens |-> 0, closes |-> 0, state |-> Code, last |-> k, done |-> FALSE]
    BY <2>2, <2>3 DEF ScanCodeChar, ScanSpecials
  <2>5. w[k][Code] = WalkFrom(line, w, k, Code) /\ w[k + 1][Code] \in Scanned /\ Code # LineComment
    BY StatesAre DEF IsWalk, Walks
  <2>6. w[k][Code] = Plus(ScanCodeChar(line, k), w[k + 1][Code])
    <3> DEFINE c == CharAt(line, k, Code)
    <3>1. c = ScanCodeChar(line, k) /\ c.last = k /\ c.state = Code /\ c.done = FALSE
      BY <2>4 DEF CharAt
    <3> HIDE DEF c
    <3> QED BY <2>1, <2>5, <3>1, WalkFromIs DEF c
  <2>7. w[k][Code] = w[k + 1][Code]
    BY <2>4, <2>5, <2>6 DEF Plus, Scanned
  <2>8. w[k + 1][Code] = w[q][Code]
    BY <1>1
  <2> QED BY <2>7, <2>8
<1> HIDE DEF T
<1>2. T \in SUBSET Nat
  BY DEF T
<1>3. T = Nat
  BY <1>1, <1>2, q \in Nat, Downward
<1> QED BY <1>3 DEF T

\* A comment goes on over what does not end it.
LEMMA CommentSkips ==
    ASSUME NEW line, Len(line) \in Nat, NEW w, IsWalk(line, w), NEW i \in Nat \ {0},
           NEW q \in i..(Len(line) + 1), \A k \in i..(q - 1) : ~(line[k] = "*" /\ At(line, k + 1) = "/")
    PROVE  w[i][BlockComment] = w[q][BlockComment]
<1> DEFINE T == {k \in Nat : i <= k /\ k <= q => w[k][BlockComment] = w[q][BlockComment]}
<1>1. ASSUME NEW k \in Nat, \A j \in Nat : k < j /\ k <= q => j \in T
      PROVE  k \in T
  <2> SUFFICES ASSUME i <= k, k < q PROVE w[k][BlockComment] = w[q][BlockComment]
    OBVIOUS
  <2>1. k \in i..(q - 1) /\ ~(k > Len(line))
    OBVIOUS
  <2>2. /\ BlockComment \in ScanStates /\ BlockComment # Code /\ BlockComment # LineComment
        /\ w[k][BlockComment] = WalkFrom(line, w, k, BlockComment)
    BY StatesAre DEF IsWalk
  <2> DEFINE c == CharAt(line, k, BlockComment)
  <2>3. c.state = BlockComment /\ c.last = k
    BY <2>1, <2>2 DEF CharAt, ScanBlockCommentChar
  <2> HIDE DEF c
  <2>4. w[k][BlockComment] = w[k + 1][BlockComment]
    BY <2>1, <2>2, <2>3, WalkFromIs DEF c
  <2>5. w[k + 1][BlockComment] = w[q][BlockComment]
    BY <1>1
  <2> QED BY <2>4, <2>5
<1> HIDE DEF T
<1>2. T \in SUBSET Nat
  BY DEF T
<1>3. T = Nat
  BY <1>1, <1>2, q \in Nat, Downward
<1> QED BY <1>3 DEF T

-----------------------------------------------------------------------------
(* Strings *)

\* Where the run of backslashes before position p begins, when it is looked for down to i.
Bound(line, i, p) ==
    LET clean == {j \in (i - 1)..(p - 1) : \A k \in (j + 1)..(p - 1) : line[k] = "backslash"}
    IN CHOOSE j \in clean : \A k \in clean : j <= k

LEMMA BoundIs ==
    ASSUME NEW line, NEW i \in Nat \ {0}, NEW p \in Nat, i <= p
    PROVE  LET b == Bound(line, i, p) IN
           /\ b \in (i - 1)..(p - 1)
           /\ \A k \in (b + 1)..(p - 1) : line[k] = "backslash"
           /\ b = i - 1 \/ line[b] # "backslash"
<1> DEFINE clean == {j \in (i - 1)..(p - 1) : \A k \in (j + 1)..(p - 1) : line[k] = "backslash"}
           b == Bound(line, i, p)
<1>1. p - 1 \in clean
  OBVIOUS
<1>2. clean \in SUBSET Int /\ i - 1 \in Int /\ \A k \in clean : i - 1 <= k
  OBVIOUS
<1>3. \E j \in clean : \A k \in clean : j <= k
  <2> HIDE DEF clean
  <2> QED BY <1>1, <1>2, LeastExists
<1>4. b \in clean /\ \A k \in clean : b <= k
  BY <1>3 DEF Bound
<1>5. ASSUME b # i - 1, line[b] = "backslash" PROVE FALSE
  <2> HIDE DEF b
  <2>1. b - 1 \in clean
    BY <1>4, <1>5
  <2> QED BY <1>4, <2>1
<1> HIDE DEF b
<1> QED BY <1>4, <1>5 DEF b

\* One character of a string: what follows a backslash is skipped with it.
LEMMA QuoteStep ==
    ASSUME NEW line, Len(line) \in Nat, NEW w, IsWalk(line, w), NEW k \in 1..Len(line), NEW s \in DOMAIN Quote
    PROVE  /\ Escapes(s) /\ line[k] = "backslash" /\ k < Len(line) => w[k][s] = w[k + 2][s]
           /\ ~(Escapes(s) /\ line[k] = "backslash" /\ k < Len(line)) =>
                 /\ line[k] = Quote[s] => w[k][s] = w[k + 1][Code]
                 /\ line[k] # Quote[s] => w[k][s] = w[k + 1][s]
<1>1. s \in ScanStates /\ s # Code /\ s # LineComment /\ s # BlockComment /\ ~(k > Len(line)) /\ k \in Nat
  BY StatesAre
<1>2. w[k][s] = WalkFrom(line, w, k, s)
  BY <1>1 DEF IsWalk
<1> DEFINE c == CharAt(line, k, s)
<1>3. c = ScanQuotedChar(line, k, s)
  BY <1>1 DEF CharAt
<1>4. /\ Escapes(s) /\ line[k] = "backslash" /\ k < Len(line) => c.last = k + 1 /\ c.state = s
      /\ ~(Escapes(s) /\ line[k] = "backslash" /\ k < Len(line)) =>
            /\ c.last = k
            /\ line[k] = Quote[s] => c.state = Code
            /\ line[k] # Quote[s] => c.state = s
  BY <1>3 DEF ScanQuotedChar
<1>5. w[k][s] = w[c.last + 1][c.state]
  BY <1>1, <1>2, WalkFromIs
<1> HIDE DEF c
<1>6. (k + 1) + 1 = k + 2
  OBVIOUS
<1> QED BY <1>4, <1>5, <1>6

\* A string that is not closed on its line runs to the end of it.
LEMMA QuoteRunsOn ==
    ASSUME NEW line, Len(line) \in Nat, NEW w, IsWalk(line, w), NEW i \in Nat \ {0}, NEW s \in DOMAIN Quote,
           \A k \in i..Len(line) : line[k] # Quote[s]
    PROVE  w[i][s] = EndOfLine(s)
<1> DEFINE T == {k \in Nat : i <= k => w[k][s] = EndOfLine(s)}
<1>1. ASSUME NEW k \in Nat, \A j \in Nat : k < j /\ k <= Len(line) => j \in T
      PROVE  k \in T
  <2> SUFFICES ASSUME i <= k PROVE w[k][s] = EndOfLine(s)
    OBVIOUS
  <2>1. CASE k > Len(line)
    <3>1. s \in ScanStates /\ w[k][s] = WalkFrom(line, w, k, s)
      BY StatesAre DEF IsWalk
    <3> QED BY <2>1, <3>1, WalkFromIs
  <2>2. CASE k <= Len(line)
    <3>1. k \in 1..Len(line) /\ line[k] # Quote[s]
      BY <2>2
    <3>2. w[k + 1][s] = EndOfLine(s) /\ w[k + 2][s] = EndOfLine(s)
      BY <1>1, <2>2, k + 1 \in T, k + 2 \in T
    <3> HIDE DEF T
    <3> QED BY <3>1, <3>2, QuoteStep
  <2> QED BY <2>1, <2>2
<1> HIDE DEF T
<1>2. T \in SUBSET Nat
  BY DEF T
<1>3. T = Nat
  BY <1>1, <1>2, Downward
<1> QED BY <1>3 DEF T

\* The first quote closes its string unless an odd run of backslashes is before it.
LEMMA QuoteCloses ==
    ASSUME NEW line, Len(line) \in Nat, NEW w, IsWalk(line, w), NEW i \in Nat \ {0}, NEW s \in DOMAIN Quote,
           NEW p \in i..Len(line), line[p] = Quote[s], \A k \in i..(p - 1) : line[k] # Quote[s]
    PROVE  w[i][s] = w[p + 1][IF Escapes(s) /\ (p - 1 - Bound(line, i, p)) % 2 = 1 THEN s ELSE Code]
<1> DEFINE after(k) == IF Escapes(s) /\ (p - 1 - Bound(line, k, p)) % 2 = 1 THEN s ELSE Code
           T == {k \in Nat : i <= k /\ k <= p => w[k][s] = w[p + 1][after(k)]}
<1>1. ASSUME NEW k \in Nat, \A j \in Nat : k < j /\ k <= p => j \in T
      PROVE  k \in T
  <2> SUFFICES ASSUME i <= k, k <= p PROVE w[k][s] = w[p + 1][after(k)]
    OBVIOUS
  <2>1. k \in Nat \ {0} /\ k \in 1..Len(line) /\ p \in Nat /\ Quote[s] # "backslash"
    BY QuotesAre
  <2>2. /\ Bound(line, k, p) \in (k - 1)..(p - 1)
        /\ \A j \in (Bound(line, k, p) + 1)..(p - 1) : line[j] = "backslash"
        /\ Bound(line, k, p) = k - 1 \/ line[Bound(line, k, p)] # "backslash"
    BY <2>1, BoundIs
  <2>3. CASE k = p
    <3>1. (p - 1 - Bound(line, k, p)) % 2 = 0
      BY <2>2, <2>3
    <3>2. w[k][s] = w[k + 1][Code]
      BY <2>1, <2>3, QuoteStep
    <3> QED BY <2>3, <3>1, <3>2
  <2>4. CASE k < p /\ Escapes(s) /\ line[k] = "backslash"
    <3>1. w[k][s] = w[k + 2][s]
      BY <2>1, <2>4, k < Len(line), QuoteStep
    <3>2. CASE k + 1 = p
      <4>1. (p - 1 - Bound(line, k, p)) % 2 = 1
        BY <2>2, <2>4, <3>2
      <4> QED BY <2>4, <3>1, <3>2, <4>1
    <3>3. CASE k + 1 # p
      <4>1. /\ Bound(line, k + 2, p) \in (k + 1)..(p - 1)
            /\ \A j \in (Bound(line, k + 2, p) + 1)..(p - 1) : line[j] = "backslash"
            /\ Bound(line, k + 2, p) = k + 1 \/ line[Bound(line, k + 2, p)] # "backslash"
        BY <2>1, <2>4, <3>3, k + 2 \in Nat \ {0}, k + 2 <= p, (k + 2) - 1 = k + 1, BoundIs
      <4>2. Bound(line, k + 2, p) = Bound(line, k, p) \/ (Bound(line, k, p) = k - 1 /\ Bound(line, k + 2, p) = k + 1)
        BY <2>2, <2>4, <4>1
      <4>3. (p - 1 - Bound(line, k, p)) % 2 = (p - 1 - Bound(line, k + 2, p)) % 2
        BY <2>2, <4>1, <4>2
      <4>4. w[k + 2][s] = w[p + 1][after(k + 2)]
        <5>1. k + 2 \in Nat /\ k < k + 2 /\ k <= p /\ i <= k + 2 /\ k + 2 <= p
          BY <2>1, <2>4, <3>3
        <5>2. k + 2 \in T
          <6> HIDE DEF T
          <6> QED BY <1>1, <5>1
        <5> HIDE DEF after
        <5> QED BY <5>1, <5>2
      <4> QED BY <3>1, <4>3, <4>4
    <3> QED BY <3>2, <3>3
  <2>5. CASE k < p /\ ~(Escapes(s) /\ line[k] = "backslash")
    <3>1. w[k][s] = w[k + 1][s]
      BY <2>1, <2>5, QuoteStep
    <3>2. w[k + 1][s] = w[p + 1][after(k + 1)]
      BY <1>1, <2>5
    <3>3. Escapes(s) => Bound(line, k, p) = Bound(line, k + 1, p)
      <4>1. /\ Bound(line, k + 1, p) \in k..(p - 1)
            /\ \A j \in (Bound(line, k + 1, p) + 1)..(p - 1) : line[j] = "backslash"
            /\ Bound(line, k + 1, p) = k \/ line[Bound(line, k + 1, p)] # "backslash"
        BY <2>1, <2>5, k + 1 \in Nat \ {0}, k + 1 <= p, (k + 1) - 1 = k, BoundIs
      <4> QED BY <2>2, <2>5, <4>1
    <3> QED BY <3>1, <3>2, <3>3
  <2> QED BY <2>3, <2>4, <2>5
<1> HIDE DEF T
<1>2. T \in SUBSET Nat
  BY DEF T
<1>3. T = Nat
  BY <1>1, <1>2, p \in Nat, Downward
<1> QED BY <1>3 DEF T

-----------------------------------------------------------------------------
(* The jump scan *)

\* The positions the jump scan looks for.
Specials(line, i) == {j \in i..Len(line) : line[j] \in ScanSpecials}
Quotes(line, i, s) == {j \in i..Len(line) : line[j] = Quote[s]}
Closings(line, i) == {j \in i..Len(line) : line[j] = "*" /\ At(line, j + 1) = "/"}

\* The run over a string or comment, with its positions named.
LEMMA RunIs ==
    ASSUME NEW line, Len(line) \in Nat, NEW i \in Nat, NEW s \in ScanStates, s # Code
    PROVE  LET r == ScanInactiveRun(line, i, s)
               p == FirstOf(Quotes(line, i, s))
               q == FirstOf(Closings(line, i))
           IN /\ s = BlockComment => r = IF Closings(line, i) = {}
                                        THEN [state |-> BlockComment, next |-> Len(line) + 1, done |-> TRUE]
                                        ELSE [state |-> Code, next |-> 2 + q, done |-> FALSE]
              /\ s = LineComment => r = [state |-> s, next |-> Len(line) + 1, done |-> TRUE]
              /\ s \in DOMAIN Quote =>
                    r = IF p = 0 THEN [state |-> s, next |-> Len(line) + 1, done |-> TRUE]
                        ELSE [state |-> IF Escapes(s) /\ (p - 1 - Bound(line, i, p)) % 2 = 1 THEN s ELSE Code,
                              next |-> p + 1, done |-> FALSE]
<1>1. s = BlockComment => ScanInactiveRun(line, i, s) = ScanBlockCommentRun(line, i)
  BY StatesAre DEF ScanInactiveRun
<1>2. ScanBlockCommentRun(line, i) = IF Closings(line, i) = {}
                                     THEN [state |-> BlockComment, next |-> Len(line) + 1, done |-> TRUE]
                                     ELSE [state |-> Code, next |-> 2 + FirstOf(Closings(line, i)), done |-> FALSE]
  BY DEF ScanBlockCommentRun, Closings, FirstOf
<1>3. s = LineComment => ScanInactiveRun(line, i, s) = [state |-> s, next |-> Len(line) + 1, done |-> TRUE]
  BY StatesAre DEF ScanInactiveRun
<1>4. s \in DOMAIN Quote => ScanInactiveRun(line, i, s) = ScanQuoteRun(line, i, s)
  BY StatesAre DEF ScanInactiveRun
<1>5. LET p == FirstOf(Quotes(line, i, s)) IN
      ScanQuoteRun(line, i, s) =
        IF p = 0 THEN [state |-> s, next |-> Len(line) + 1, done |-> TRUE]
        ELSE [state |-> IF Escapes(s) /\ (p - 1 - Bound(line, i, p)) % 2 = 1 THEN s ELSE Code,
              next |-> p + 1, done |-> FALSE]
  BY DEF ScanQuoteRun, NextPos, Quotes, FirstOf, Bound
<1> QED BY <1>1, <1>2, <1>3, <1>4, <1>5

\* A run leaves a state of a line, at a position further on.
LEMMA RunTyped ==
    ASSUME NEW line, Len(line) \in Nat, NEW i \in Nat, i <= Len(line), NEW s \in ScanStates, s # Code
    PROVE  LET r == ScanInactiveRun(line, i, s)
           IN r.state \in ScanStates /\ r.next \in Nat /\ r.next > i /\ r.done \in BOOLEAN
<1> DEFINE p == FirstOf(Quotes(line, i, s))
           q == FirstOf(Closings(line, i))
           next == IF Escapes(s) /\ (p - 1 - Bound(line, i, p)) % 2 = 1 THEN s ELSE Code
<1>1. p = 0 \/ p \in i..Len(line)
  <2>1. Quotes(line, i, s) \in SUBSET (i..Len(line))
    BY DEF Quotes
  <2> QED BY <2>1, FirstOfIs
<1>2. Closings(line, i) # {} => q \in i..Len(line)
  <2>1. Closings(line, i) \in SUBSET (i..Len(line))
    BY DEF Closings
  <2> QED BY <2>1, FirstOfIs
<1>3. next \in ScanStates /\ Code \in ScanStates /\ s \in {BlockComment, LineComment} \cup DOMAIN Quote
  BY StatesAre
<1> DEFINE on == [state |-> s, next |-> Len(line) + 1, done |-> TRUE]
<1>4. CASE s = BlockComment
  <2>1. CASE Closings(line, i) = {}
    <3>1. ScanInactiveRun(line, i, s) = on
      BY <1>4, <2>1, RunIs
    <3> QED BY <3>1
  <2>2. CASE Closings(line, i) # {}
    <3>1. ScanInactiveRun(line, i, s) = [state |-> Code, next |-> 2 + q, done |-> FALSE]
      BY <1>4, <2>2, RunIs
    <3> HIDE DEF q
    <3> QED BY <1>2, <1>3, <2>2, <3>1
  <2> QED BY <2>1, <2>2
<1>5. CASE s = LineComment
  <2>1. ScanInactiveRun(line, i, s) = on
    BY <1>5, RunIs
  <2> QED BY <2>1
<1>6. CASE s \in DOMAIN Quote
  <2>1. CASE p = 0
    <3>1. ScanInactiveRun(line, i, s) = on
      BY <1>6, <2>1, RunIs
    <3> QED BY <3>1
  <2>2. CASE p # 0
    <3>1. ScanInactiveRun(line, i, s) = [state |-> next, next |-> p + 1, done |-> FALSE]
      BY <1>6, <2>2, RunIs
    <3> HIDE DEF next, p
    <3> QED BY <1>1, <1>3, <2>2, <3>1
  <2> QED BY <2>1, <2>2
<1> QED BY <1>3, <1>4, <1>5, <1>6

\* A run ends where the walk over the string or comment does.
LEMMA RunIsWalk ==
    ASSUME NEW line, Len(line) \in Nat, NEW w, IsWalk(line, w), NEW i \in Nat \ {0}, i <= Len(line),
           NEW s \in ScanStates, s # Code
    PROVE  LET r == ScanInactiveRun(line, i, s)
           IN w[i][s] = IF r.done THEN EndOfLine(r.state) ELSE w[r.next][r.state]
<1> DEFINE r == ScanInactiveRun(line, i, s)
           p == FirstOf(Quotes(line, i, s))
           q == FirstOf(Closings(line, i))
           next == IF Escapes(s) /\ (p - 1 - Bound(line, i, p)) % 2 = 1 THEN s ELSE Code
           on == [state |-> s, next |-> Len(line) + 1, done |-> TRUE]
<1>1. /\ s \in {BlockComment, LineComment} \cup DOMAIN Quote /\ w[i][s] = WalkFrom(line, w, i, s)
      /\ BlockComment # Code /\ BlockComment # LineComment /\ Code \in ScanStates
  BY StatesAre DEF IsWalk
<1>2. CASE s = LineComment
  <2>1. r = on
    BY <1>2, RunIs
  <2>2. w[i][s] = EndOfLine(s)
    BY <1>1, <1>2, WalkFromIs
  <2> QED BY <2>1, <2>2
<1>3. CASE s = BlockComment
  <2>1. Closings(line, i) \in SUBSET (i..Len(line))
    BY DEF Closings
  <2>2. CASE Closings(line, i) = {}
    <3>1. r = on
      BY <1>3, <2>2, RunIs
    <3>2. \A k \in i..Len(line) : ~(line[k] = "*" /\ At(line, k + 1) = "/")
      BY <2>2 DEF Closings
    <3>3. w[i][s] = w[Len(line) + 1][s]
      BY <1>3, <3>2, Len(line) + 1 \in i..(Len(line) + 1), (Len(line) + 1) - 1 = Len(line), CommentSkips
    <3>4. w[Len(line) + 1][s] = WalkFrom(line, w, Len(line) + 1, s)
      BY DEF IsWalk
    <3>5. w[Len(line) + 1][s] = EndOfLine(s)
      BY <3>4, Len(line) + 1 > Len(line), WalkFromIs
    <3> QED BY <3>1, <3>3, <3>5
  <2>3. CASE Closings(line, i) # {}
    <3>1. r = [state |-> Code, next |-> 2 + q, done |-> FALSE]
      BY <1>3, <2>3, RunIs
    <3>2. q \in Closings(line, i) /\ \A k \in Closings(line, i) : q <= k
      BY <2>1, <2>3, FirstOfIs
    <3> HIDE DEF q
    <3>3. q \in i..Len(line) /\ \A k \in i..(q - 1) : ~(line[k] = "*" /\ At(line, k + 1) = "/")
      BY <3>2 DEF Closings
    <3>4. w[i][s] = w[q][s]
      BY <1>3, <3>3, q \in i..(Len(line) + 1), CommentSkips
    <3>5. w[q][s] = WalkFrom(line, w, q, s) /\ ~(q > Len(line))
      BY <3>3 DEF IsWalk
    <3> DEFINE c == CharAt(line, q, s)
    <3>6. c.state = Code /\ c.last = q + 1
      BY <1>1, <1>3, <3>2 DEF CharAt, ScanBlockCommentChar, Closings
    <3> HIDE DEF c
    <3>7. w[q][s] = w[(q + 1) + 1][Code]
      BY <1>1, <1>3, <3>5, <3>6, WalkFromIs DEF c
    <3> QED BY <3>1, <3>3, <3>4, <3>7, (q + 1) + 1 = 2 + q
  <2> QED BY <2>2, <2>3
<1>4. CASE s \in DOMAIN Quote
  <2>1. Quotes(line, i, s) \in SUBSET (i..Len(line))
    BY DEF Quotes
  <2>2. CASE p = 0
    <3>1. r = on
      BY <1>4, <2>2, RunIs
    <3>2. Quotes(line, i, s) = {}
      <4>1. Quotes(line, i, s) = {} \/ p >= i
        BY <2>1, FirstOfIs
      <4> HIDE DEF p
      <4> QED BY <2>2, <4>1
    <3>3. \A k \in i..Len(line) : line[k] # Quote[s]
      BY <3>2 DEF Quotes
    <3>4. w[i][s] = EndOfLine(s)
      BY <1>4, <3>3, QuoteRunsOn
    <3> QED BY <3>1, <3>4
  <2>3. CASE p # 0
    <3>1. r = [state |-> next, next |-> p + 1, done |-> FALSE]
      BY <1>4, <2>3, RunIs
    <3>2. p \in Quotes(line, i, s) /\ \A k \in Quotes(line, i, s) : p <= k
      BY <2>1, <2>3, FirstOfIs
    <3> HIDE DEF p
    <3>3. p \in i..Len(line) /\ line[p] = Quote[s] /\ \A k \in i..(p - 1) : line[k] # Quote[s]
      BY <3>2 DEF Quotes
    <3>4. w[i][s] = w[p + 1][next]
      BY <1>4, <3>3, QuoteCloses
    <3> QED BY <3>1, <3>4
  <2> QED BY <2>2, <2>3
<1> QED BY <1>1, <1>2, <1>3, <1>4

\* What the jump scan finds, with its positions named.
LEMMA JumpFromIs ==
    ASSUME NEW line, NEW later, NEW i, NEW s, NEW n
    PROVE  LET r == ScanInactiveRun(line, i, s)
               p == FirstOf(Specials(line, i))
               c == ScanCodeChar(line, p)
           IN JumpFrom(line, later, i, s, n) =
                IF i > Len(line) THEN EndOfLine(s)
                ELSE IF s # Code
                THEN IF r.done THEN EndOfLine(r.state) ELSE later[r.next][r.state][n]
                ELSE IF p = 0 THEN EndOfLine(Code)
                ELSE IF n + 1 = JumpScanSample /\ p - 1 < (n + 1) * JumpScanMinGap
                THEN ScanLineDense(line, p, Code)
                ELSE IF c.done THEN EndOfLine(c.state)
                ELSE Plus(c, later[c.last + 1][c.state][n + 1])
<1> QED BY DEF JumpFrom, NextPos, Specials, FirstOf

\* The results of a jump scan, for every position, state and number of jumps.
Jumps == [Nat -> [ScanStates -> [Nat -> Scanned]]]

\* One step of the jump scan says what a scan may say, and looks only further on.
LEMMA JumpFromTyped ==
    ASSUME NEW line, Len(line) \in Nat, NEW f \in Jumps, NEW i \in Nat, NEW s \in ScanStates, NEW n \in Nat
    PROVE  /\ JumpFrom(line, f, i, s, n) \in Scanned
           /\ \A g : (\A j \in Nat : i < j /\ i <= Len(line) => f[j] = g[j])
                        => JumpFrom(line, f, i, s, n) = JumpFrom(line, g, i, s, n)
<1> DEFINE r == ScanInactiveRun(line, i, s)
           p == FirstOf(Specials(line, i))
           c == ScanCodeChar(line, p)
<1>1. CASE i > Len(line)
  BY <1>1, EndOfLineTyped, JumpFromIs
<1>2. CASE i <= Len(line) /\ s # Code
  <2>1. r.state \in ScanStates /\ r.next \in Nat /\ r.next > i
    BY <1>2, RunTyped
  <2>2. EndOfLine(r.state) \in Scanned /\ f[r.next][r.state][n] \in Scanned
    BY <2>1, EndOfLineTyped DEF Jumps
  <2>3. \A h : JumpFrom(line, h, i, s, n) = IF r.done THEN EndOfLine(r.state) ELSE h[r.next][r.state][n]
    BY <1>2, JumpFromIs
  <2> HIDE DEF r
  <2> QED BY <1>2, <2>1, <2>2, <2>3
<1>3. CASE i <= Len(line) /\ s = Code
  <2> DEFINE dense == n + 1 = JumpScanSample /\ p - 1 < (n + 1) * JumpScanMinGap
  <2>1. \A h : JumpFrom(line, h, i, s, n) =
                 IF p = 0 THEN EndOfLine(Code)
                 ELSE IF dense THEN ScanLineDense(line, p, Code)
                 ELSE IF c.done THEN EndOfLine(c.state)
                 ELSE Plus(c, h[c.last + 1][c.state][n + 1])
    BY <1>3, JumpFromIs
  <2>2. p = 0 \/ p \in i..Len(line)
    <3>1. Specials(line, i) \in SUBSET (i..Len(line))
      BY DEF Specials
    <3> QED BY <3>1, FirstOfIs
  <2>3. p \in Nat /\ Code \in ScanStates
    BY <2>2, StatesAre
  <2>4. c.opens \in Nat /\ c.closes \in Nat /\ c.state \in ScanStates /\ c.last \in Nat /\ c.last >= p
    BY <2>3, CodeCharTyped
  <2> HIDE DEF p, c, dense
  <2>5. /\ EndOfLine(Code) \in Scanned /\ EndOfLine(c.state) \in Scanned
        /\ ScanLineDense(line, p, Code) \in Scanned
    BY <2>3, <2>4, EndOfLineTyped, DenseTyped
  <2>6. f[c.last + 1][c.state][n + 1] \in Scanned
    BY <2>4 DEF Jumps
  <2>7. Plus(c, f[c.last + 1][c.state][n + 1]) \in Scanned
    BY <2>4, <2>6, PlusTyped
  <2>8. p # 0 => c.last + 1 > i
    BY <2>2, <2>4
  <2> QED BY <1>3, <2>1, <2>4, <2>5, <2>7, <2>8
<1> QED BY <1>1, <1>2, <1>3

\* One jump scan is the jump scan of the line.
IsJump(line, w) ==
    w \in Jumps /\ \A i \in Nat, s \in ScanStates, n \in Nat : w[i][s][n] = JumpFrom(line, w, i, s, n)

LEMMA JumpExists ==
    ASSUME NEW line, Len(line) \in Nat
    PROVE  \E w : IsJump(line, w) /\ \A s : ScanLine(line, s) = w[1][s][0]
<1> DEFINE again(f) == [i \in Nat |-> [s \in ScanStates |-> [n \in Nat |-> JumpFrom(line, f, i, s, n)]]]
           F == [f \in Jumps |-> again(f)]
           S == [ScanStates -> [Nat -> Scanned]]
           base == [s \in ScanStates |-> [n \in Nat |-> EndOfLine(s)]]
<1>1. \A f \in Jumps : again(f) \in Jumps
  BY JumpFromTyped DEF Jumps
<1>2. base \in S
  BY EndOfLineTyped
<1>3. F \in [[Nat -> S] -> [Nat -> S]]
  BY <1>1 DEF Jumps
<1>4. ASSUME NEW f \in Jumps, NEW g, NEW i \in Nat, \A j \in Nat : i < j /\ i <= Len(line) => f[j] = g[j]
      PROVE  again(f)[i] = again(g)[i]
  <2>1. \A s \in ScanStates, n \in Nat : JumpFrom(line, f, i, s, n) = JumpFrom(line, g, i, s, n)
    BY <1>4, JumpFromTyped
  <2> QED BY <2>1
<1>5. \A f \in Jumps : F[f] = again(f)
  OBVIOUS
<1> HIDE DEF F, base, again
<1>6. \E f \in [Nat -> S] : F[f] = f
  <2>1. [Nat -> S] = Jumps
    BY DEF Jumps
  <2> HIDE DEF S
  <2>2. \A f, g \in [Nat -> S], i \in Nat :
            (\A j \in Nat : i < j /\ i <= Len(line) => f[j] = g[j]) => F[f][i] = F[g][i]
    BY <1>4, <1>5, <2>1
  <2> QED BY <1>2, <1>3, <2>2, FixedPointExists
<1> HIDE DEF S
<1>7. PICK f \in Jumps : again(f) = f
  BY <1>5, <1>6 DEF Jumps, S
<1> DEFINE w == CHOOSE x : x = again(x)
<1>8. w = again(w)
  BY <1>7
<1>9. \A s : ScanLine(line, s) = w[1][s][0]
  BY DEF ScanLine, again
<1> HIDE DEF w
<1>10. \A i \in Nat : f[i] = w[i]
  <2> DEFINE T == {i \in Nat : f[i] = w[i]}
  <2>1. ASSUME NEW i \in Nat, \A j \in Nat : i < j /\ i <= Len(line) => j \in T
        PROVE  i \in T
    BY <1>4, <1>7, <1>8, <2>1
  <2> HIDE DEF T
  <2>2. T \in SUBSET Nat
    BY DEF T
  <2>3. T = Nat
    BY <2>1, <2>2, Downward
  <2> QED BY <2>3 DEF T
<1>11. w = f
  <2>1. w = [i \in Nat |-> w[i]] /\ f = [i \in Nat |-> f[i]]
    BY <1>8 DEF Jumps, again
  <2> QED BY <1>10, <2>1
<1>12. \A i \in Nat, s \in ScanStates, n \in Nat : w[i][s][n] = JumpFrom(line, w, i, s, n)
  <2>1. \A i \in Nat, s \in ScanStates, n \in Nat : again(w)[i][s][n] = JumpFrom(line, w, i, s, n)
    BY DEF again
  <2> QED BY <1>8, <2>1
<1> QED BY <1>9, <1>11, <1>12 DEF IsJump

\* The jump scan of a line is the walk over it: from whatever position, in whatever state and
\* after however many jumps, both count the same braces and leave the same state.
LEMMA JumpIsWalk ==
    ASSUME NEW line, Len(line) \in Nat, NEW w, IsWalk(line, w), NEW h, IsJump(line, h),
           \A from, s : ScanLineDense(line, from, s) = w[from][s],
           NEW i \in Nat \ {0}, NEW s \in ScanStates, NEW n \in Nat
    PROVE  h[i][s][n] = w[i][s]
<1> DEFINE T == {k \in Nat : k > 0 => \A t \in ScanStates, m \in Nat : h[k][t][m] = w[k][t]}
<1>1. ASSUME NEW k \in Nat, \A j \in Nat : k < j /\ k <= Len(line) => j \in T
      PROVE  k \in T
  <2> SUFFICES ASSUME k > 0, NEW t \in ScanStates, NEW m \in Nat PROVE h[k][t][m] = w[k][t]
    OBVIOUS
  <2> DEFINE r == ScanInactiveRun(line, k, t)
             p == FirstOf(Specials(line, k))
             c == ScanCodeChar(line, p)
  <2>1. h[k][t][m] = JumpFrom(line, h, k, t, m) /\ w[k][t] = WalkFrom(line, w, k, t)
    BY DEF IsJump, IsWalk
  <2>2. \A j \in Nat, u \in ScanStates, o \in Nat : k < j /\ k <= Len(line) => h[j][u][o] = w[j][u]
    BY <1>1
  <2> HIDE DEF T
  <2>3. CASE k > Len(line)
    BY <2>1, <2>3, JumpFromIs, WalkFromIs
  <2>4. CASE k <= Len(line) /\ t # Code
    <3>1. h[k][t][m] = IF r.done THEN EndOfLine(r.state) ELSE h[r.next][r.state][m]
      BY <2>1, <2>4, JumpFromIs
    <3>2. r.state \in ScanStates /\ r.next \in Nat /\ r.next > k
      BY <2>4, RunTyped
    <3>3. h[k][t][m] = IF r.done THEN EndOfLine(r.state) ELSE w[r.next][r.state]
      <4> HIDE DEF r
      <4> QED BY <2>2, <2>4, <3>1, <3>2
    <3>4. w[k][t] = IF r.done THEN EndOfLine(r.state) ELSE w[r.next][r.state]
      BY <2>4, RunIsWalk
    <3> QED BY <3>3, <3>4
  <2>5. CASE k <= Len(line) /\ t = Code
    <3>1. h[k][t][m] = IF p = 0 THEN EndOfLine(Code)
                       ELSE IF m + 1 = JumpScanSample /\ p - 1 < (m + 1) * JumpScanMinGap
                       THEN ScanLineDense(line, p, Code)
                       ELSE IF c.done THEN EndOfLine(c.state)
                       ELSE Plus(c, h[c.last + 1][c.state][m + 1])
      BY <2>1, <2>5, JumpFromIs
    <3>2. \/ p = 0 /\ \A j \in k..Len(line) : line[j] \notin ScanSpecials
          \/ p \in k..Len(line) /\ \A j \in k..(p - 1) : line[j] \notin ScanSpecials
      <4>1. Specials(line, k) \in SUBSET (k..Len(line))
        BY DEF Specials
      <4>2. \/ Specials(line, k) = {} /\ p = 0
            \/ p \in Specials(line, k) /\ \A j \in Specials(line, k) : p <= j
        BY <4>1, FirstOfIs
      <4> HIDE DEF p
      <4> QED BY <4>2 DEF Specials
    <3> HIDE DEF p
    <3>3. CASE p = 0
      <4>1. \A j \in k..Len(line) : line[j] \notin ScanSpecials
        BY <3>2, <3>3
      <4>2. Len(line) + 1 \in k..(Len(line) + 1) /\ (Len(line) + 1) - 1 = Len(line)
        BY <2>5
      <4>3. w[k][Code] = w[Len(line) + 1][Code]
        BY <4>1, <4>2, k \in Nat \ {0}, CodeSkips
      <4>4. w[Len(line) + 1][Code] = WalkFrom(line, w, Len(line) + 1, Code)
        BY StatesAre DEF IsWalk
      <4>5. w[Len(line) + 1][Code] = EndOfLine(Code)
        BY <4>4, Len(line) + 1 > Len(line), WalkFromIs
      <4> QED BY <2>5, <3>1, <3>3, <4>3, <4>5
    <3>4. CASE p # 0
      <4>1. p \in k..Len(line) /\ \A j \in k..(p - 1) : line[j] \notin ScanSpecials
        BY <3>2, <3>4
      <4>2. w[k][Code] = w[p][Code]
        BY <4>1, p \in k..(Len(line) + 1), k \in Nat \ {0}, CodeSkips
      <4>3. w[p][Code] = WalkFrom(line, w, p, Code) /\ ~(p > Len(line)) /\ p \in Nat /\ Code # LineComment
        BY <4>1, StatesAre DEF IsWalk
      <4>4. c = CharAt(line, p, Code)
        BY DEF CharAt
      <4>5. c.state \in ScanStates /\ c.last + 1 \in Nat /\ c.last + 1 > k
        BY <4>1, <4>3, CodeCharTyped
      <4> HIDE DEF c
      <4>6. w[p][Code] = Plus(c, IF c.done THEN EndOfLine(c.state) ELSE w[c.last + 1][c.state])
        BY <4>3, <4>4, WalkFromIs
      <4>7. h[c.last + 1][c.state][m + 1] = w[c.last + 1][c.state]
        BY <2>2, <2>5, <4>5
      <4>8. ScanLineDense(line, p, Code) = w[p][Code]
        OBVIOUS
      <4>9. c.done => Plus(c, EndOfLine(c.state)) = EndOfLine(c.state)
        <5>1. c.done => c.opens = 0 /\ c.closes = 0
          BY DEF c, ScanCodeChar
        <5>2. EndOfLine(c.state) \in Scanned
          BY <4>5, EndOfLineTyped
        <5> QED BY <5>1, <5>2 DEF Plus, Scanned
      <4> QED BY <2>5, <3>1, <3>4, <4>2, <4>6, <4>7, <4>8, <4>9
    <3> QED BY <3>3, <3>4
  <2> QED BY <2>3, <2>4, <2>5
<1> HIDE DEF T
<1>2. T \in SUBSET Nat
  BY DEF T
<1>3. T = Nat
  BY <1>1, <1>2, Downward
<1> QED BY <1>3 DEF T

\* The scanner that jumps agrees with the scanner that walks, on every line and whatever state
\* it begins in.
THEOREM JumpScanIsWalk ==
    ASSUME NEW S, NEW line \in Seq(S)
    PROVE  ScansAgree(line)
<1>1. Len(line) \in Nat
  OBVIOUS
<1>2. PICK w : IsWalk(line, w) /\ \A from, s : ScanLineDense(line, from, s) = w[from][s]
  BY <1>1, WalkExists
<1>3. PICK h : IsJump(line, h) /\ \A s : ScanLine(line, s) = h[1][s][0]
  BY <1>1, JumpExists
<1>4. \A s \in ScanStates : h[1][s][0] = w[1][s]
  BY <1>1, <1>2, <1>3, 1 \in Nat \ {0}, 0 \in Nat, JumpIsWalk
<1> QED BY <1>2, <1>3, <1>4 DEF ScansAgree

-----------------------------------------------------------------------------
(* One line of the block scanner *)

LEMMA ScanLineTyped ==
    ASSUME NEW l \in Line, NEW s \in LineStates
    PROVE  /\ ScanLine(l.text, s) = ScanLineDense(l.text, 1, s)
           /\ ScanLine(l.text, s) \in Scanned
<1> DEFINE S == {l.text[k] : k \in DOMAIN l.text}
<1>1. l.text \in Seq(S)
  BY LinesAssumption
<1>2. s \in ScanStates
  BY StatesAre DEF LineStates
<1> HIDE DEF S
<1>3. ScanLine(l.text, s) = ScanLineDense(l.text, 1, s)
  BY <1>1, <1>2, JumpScanIsWalk DEF ScansAgree
<1>4. Len(l.text) \in Nat
  BY <1>1
<1> QED BY <1>2, <1>3, <1>4, DenseTyped

\* The entries of the stack of a file of n lines.
Entry(n) == [startLine : 1..n, bodyDepth : Int, keyword : BOOLEAN]

\* A line leaves the entries there are, at most with a body, and adds at most its own.
LEMMA SignatureIs ==
    ASSUME NEW n \in Nat, stack \in Seq(Entry(n)), depth \in Int, NEW l \in Line, NEW r \in Scanned
    PROVE  LET st == Signature(l, n + 1, r) IN
           /\ st \in Seq(Entry(n + 1))
           /\ Len(st) \in {Len(stack), Len(stack) + 1}
           /\ \A k \in 1..Len(stack) : st[k].startLine = stack[k].startLine
           /\ Len(st) = Len(stack) + 1 => st[Len(st)].startLine = n + 1
<1> DEFINE st == Signature(l, n + 1, r)
           top == Len(stack)
           opened == depth + r.opens - r.closes > depth \/ l.whole
           e == [startLine |-> n + 1, bodyDepth |-> IF opened THEN depth ELSE Pending, keyword |-> l.keyword]
           body == [stack EXCEPT ![top].bodyDepth = depth]
<1>1. stack \in Seq(Entry(n + 1)) /\ top \in Nat
  <2>1. Entry(n) \subseteq Entry(n + 1)
    BY DEF Entry
  <2> QED BY <2>1, SeqMonotonic, LenProperties
<1>2. e \in Entry(n + 1)
  <2>1. l.keyword \in BOOLEAN
    BY LinesAssumption
  <2>2. (IF opened THEN depth ELSE Pending) \in Int
    BY DEF Pending
  <2> HIDE DEF opened
  <2> QED BY <2>1, <2>2 DEF Entry
<1> HIDE DEF e
<1>3. /\ Append(stack, e) \in Seq(Entry(n + 1)) /\ Len(Append(stack, e)) = top + 1
      /\ \A k \in 1..top : Append(stack, e)[k] = stack[k]
      /\ Append(stack, e)[top + 1] = e
  BY <1>1, <1>2
<1>4. ASSUME top > 0
      PROVE  /\ body \in Seq(Entry(n + 1)) /\ Len(body) = top
             /\ \A k \in 1..top : body[k].startLine = stack[k].startLine
  <2> DEFINE f == [stack[top] EXCEPT !.bodyDepth = depth]
  <2>1. stack[top] \in Entry(n + 1)
    BY <1>1, <1>4, ElementOfSeq
  <2>2. f \in Entry(n + 1) /\ f.startLine = stack[top].startLine
    BY <2>1 DEF Entry
  <2>3. body = [stack EXCEPT ![top] = f]
    OBVIOUS
  <2> HIDE DEF f, body
  <2>4. top \in 1..Len(stack)
    BY <1>1, <1>4
  <2>5. /\ body \in Seq(Entry(n + 1)) /\ Len(body) = Len(stack)
        /\ \A k \in 1..Len(stack) : body[k] = IF k = top THEN f ELSE stack[k]
    BY <1>1, <2>2, <2>3, <2>4, ExceptSeq
  <2> QED BY <2>2, <2>5
<1>5. \/ st = Append(stack, e)
      \/ top > 0 /\ st = body
      \/ st = stack
  BY DEF Signature, e
<1> HIDE DEF st, body
<1>6. CASE st = Append(stack, e)
  <2>1. e.startLine = n + 1
    BY DEF e
  <2> QED BY <1>1, <1>3, <1>6, <2>1 DEF st
<1>7. CASE top > 0 /\ st = body
  BY <1>1, <1>4, <1>7 DEF st
<1>8. CASE st = stack
  BY <1>1, <1>8 DEF st
<1> QED BY <1>5, <1>6, <1>7, <1>8

\* The entries that stay are those up to the last whose body did not begin at the depth.
LEMMA KeptIs ==
    ASSUME NEW S, NEW st \in Seq(S), NEW d
    PROVE  /\ Kept(st, d) \in 0..Len(st)
           /\ \A j \in (Kept(st, d) + 1)..Len(st) : st[j].bodyDepth >= 0 /\ st[j].bodyDepth = d
           /\ Kept(st, d) > 0 => ~(st[Kept(st, d)].bodyDepth >= 0 /\ st[Kept(st, d)].bodyDepth = d)
<1> DEFINE K == {k \in 0..Len(st) : \A j \in (k + 1)..Len(st) : st[j].bodyDepth >= 0 /\ st[j].bodyDepth = d}
           m == Kept(st, d)
<1>1. Len(st) \in Nat /\ Len(st) \in K
  OBVIOUS
<1>2. K \in SUBSET Int /\ 0 \in Int /\ \A k \in K : 0 <= k
  OBVIOUS
<1>3. \E k \in K : \A j \in K : k <= j
  <2> HIDE DEF K
  <2> QED BY <1>1, <1>2, LeastExists
<1>4. m \in K /\ \A j \in K : m <= j
  BY <1>3 DEF Kept, Min
<1>5. ASSUME m > 0, st[m].bodyDepth >= 0, st[m].bodyDepth = d PROVE FALSE
  <2> HIDE DEF m
  <2>1. m - 1 \in K
    BY <1>4, <1>5
  <2>2. m \in Int /\ m <= m - 1
    <3> HIDE DEF K
    <3> QED BY <1>2, <1>4, <2>1
  <2> QED BY <2>2
<1> HIDE DEF m
<1> QED BY <1>4, <1>5 DEF m

-----------------------------------------------------------------------------
(* The two tables *)

\* Inside and the innermost block, of any table of ends.
InsideOf(es, s, j) == s \in DOMAIN es /\ es[s] # NoBlock /\ s <= j /\ j <= es[s]
InnermostIs(es, j, m) ==
    (m = NoBlock \/ InsideOf(es, m, j)) /\ \A s \in DOMAIN es : InsideOf(es, s, j) => s <= m

\* The tables of n lines agree.
TablesOK(ss, es, n) ==
    /\ ss \in [1..n -> NoBlock..n] /\ es \in [1..n -> NoBlock..n]
    /\ \A s \in 1..n : es[s] # NoBlock => s <= es[s]
    /\ \A j \in 1..n : InnermostIs(es, j, ss[j])

\* Blocks that are still open: none has an end, and a block that began before has ended before.
OpenOK(es, n, open) ==
    /\ open \subseteq 1..n
    /\ \A s \in open : es[s] = NoBlock
    /\ \A s \in open, t \in 1..n : es[t] # NoBlock /\ t < s => es[t] < s

LEMMA MaxIs ==
    ASSUME NEW S \in SUBSET Int, NEW m \in S, \A k \in S : k <= m
    PROVE  Max(S) = m
<1>1. \A x \in S : (\A y \in S : x >= y) => x = m
  OBVIOUS
<1> QED BY <1>1 DEF Max

\* A table of n cells, and of one more.
LEMMA TableAppend ==
    ASSUME NEW S, NEW n \in Nat, NEW f \in [1..n -> S], NEW e \in S
    PROVE  /\ f \in Seq(S) /\ Len(f) = n
           /\ Append(f, e) \in [1..(n + 1) -> S]
           /\ \A j \in 1..n : Append(f, e)[j] = f[j]
           /\ Append(f, e)[n + 1] = e
<1>1. f \in Seq(S)
  BY SeqDef
<1>2. Len(f) \in Nat /\ DOMAIN f = 1..Len(f)
  BY <1>1, LenProperties
<1>3. Len(f) = n
  BY <1>2
<1>4. Append(f, e) \in Seq(S) /\ Len(Append(f, e)) = n + 1
  BY <1>1, <1>3, AppendProperties
<1>5. Append(f, e) \in [1..(n + 1) -> S]
  BY <1>4, LenProperties
<1>6. (\A j \in 1..n : Append(f, e)[j] = f[j]) /\ Append(f, e)[n + 1] = e
  BY <1>1, <1>3
<1> QED BY <1>1, <1>3, <1>5, <1>6

\* A new line belongs to no block yet, and may begin one.
LEMMA TablesGrow ==
    ASSUME NEW n \in Nat, NEW ss, NEW es, TablesOK(ss, es, n), NEW open, OpenOK(es, n, open)
    PROVE  /\ TablesOK(Append(ss, NoBlock), Append(es, NoBlock), n + 1)
           /\ OpenOK(Append(es, NoBlock), n + 1, open \cup {n + 1})
           /\ \A s \in 1..n : Append(es, NoBlock)[s] = es[s]
           /\ Append(es, NoBlock)[n + 1] = NoBlock
<1> DEFINE sa == Append(ss, NoBlock)
           ea == Append(es, NoBlock)
<1>1. /\ ss \in [1..n -> NoBlock..(n + 1)] /\ es \in [1..n -> NoBlock..(n + 1)]
      /\ NoBlock \in NoBlock..(n + 1)
  BY DEF TablesOK, NoBlock
<1>3. /\ sa \in [1..(n + 1) -> NoBlock..(n + 1)] /\ \A j \in 1..n : sa[j] = ss[j]
      /\ sa[n + 1] = NoBlock
      /\ ea \in [1..(n + 1) -> NoBlock..(n + 1)] /\ \A j \in 1..n : ea[j] = es[j]
      /\ ea[n + 1] = NoBlock
  <2> DEFINE S == NoBlock..(n + 1)
  <2> HIDE DEF S
  <2>1. ss \in [1..n -> S] /\ es \in [1..n -> S] /\ NoBlock \in S
    BY <1>1 DEF S
  <2>2. /\ sa \in [1..(n + 1) -> S] /\ \A j \in 1..n : sa[j] = ss[j]
        /\ sa[n + 1] = NoBlock
    <3>1. sa \in [1..(n + 1) -> S]
      BY <2>1, TableAppend
    <3>2. \A j \in 1..n : sa[j] = ss[j]
      BY <2>1, TableAppend
    <3>3. sa[n + 1] = NoBlock
      BY <2>1, TableAppend
    <3> QED BY <3>1, <3>2, <3>3
  <2>3. /\ ea \in [1..(n + 1) -> S] /\ \A j \in 1..n : ea[j] = es[j]
        /\ ea[n + 1] = NoBlock
    <3>1. ea \in [1..(n + 1) -> S]
      BY <2>1, TableAppend
    <3>2. \A j \in 1..n : ea[j] = es[j]
      BY <2>1, TableAppend
    <3>3. ea[n + 1] = NoBlock
      BY <2>1, TableAppend
    <3> QED BY <3>1, <3>2, <3>3
  <2> HIDE DEF sa, ea
  <2> QED BY <2>2, <2>3 DEF S
<1> HIDE DEF sa, ea
<1>4. DOMAIN es = 1..n /\ DOMAIN ea = 1..(n + 1) /\ \A s \in 1..n : es[s] \in NoBlock..n
  BY <1>3 DEF TablesOK
<1>5. \A s \in 1..(n + 1), j \in 1..(n + 1) : InsideOf(ea, s, j) <=> (s \in 1..n /\ j \in 1..n /\ InsideOf(es, s, j))
  BY <1>3, <1>4 DEF InsideOf, NoBlock
<1>6. \A j \in 1..(n + 1) : InnermostIs(ea, j, sa[j])
  <2> TAKE j \in 1..(n + 1)
  <2>1. CASE j = n + 1
    BY <1>3, <1>4, <1>5, <2>1 DEF InnermostIs, NoBlock
  <2>2. CASE j \in 1..n
    <3>1. InnermostIs(es, j, ss[j]) /\ sa[j] = ss[j] /\ ss[j] \in NoBlock..n
      BY <1>3, <2>2 DEF TablesOK
    <3>2. ss[j] # NoBlock => ss[j] \in 1..n
      BY <3>1 DEF NoBlock
    <3> QED BY <1>4, <1>5, <2>2, <3>1, <3>2 DEF InnermostIs
  <2> QED BY <2>1, <2>2
<1>7. \A s \in 1..(n + 1) : ea[s] # NoBlock => s <= ea[s]
  BY <1>3 DEF TablesOK
<1>8. OpenOK(ea, n + 1, open \cup {n + 1})
  <2>1. open \cup {n + 1} \subseteq 1..(n + 1)
    BY DEF OpenOK
  <2>2. \A s \in open \cup {n + 1} : ea[s] = NoBlock
    BY <1>3 DEF OpenOK
  <2>3. \A s \in open \cup {n + 1}, t \in 1..(n + 1) : ea[t] # NoBlock /\ t < s => ea[t] < s
    <3> TAKE s \in open \cup {n + 1}, t \in 1..(n + 1)
    <3> HAVE ea[t] # NoBlock /\ t < s
    <3>1. t \in 1..n /\ ea[t] = es[t] /\ es[t] \in NoBlock..n
      BY <1>3, <1>4
    <3>2. CASE s = n + 1
      BY <3>1, <3>2 DEF NoBlock
    <3>3. CASE s \in open
      BY <3>1, <3>3 DEF OpenOK
    <3> QED BY <3>2, <3>3
  <2> QED BY <2>1, <2>2, <2>3 DEF OpenOK
<1> QED BY <1>3, <1>6, <1>7, <1>8 DEF TablesOK, sa, ea

\* When the last of the open blocks end, the lines nobody has claimed go to the innermost of
\* them, and the tables still agree.
LEMMA TablesClose ==
    ASSUME NEW n \in Nat, NEW ss, NEW es, TablesOK(ss, es, n), NEW open, OpenOK(es, n, open),
           NEW closed, \A e \in closed : e.startLine \in open,
           NEW left \in SUBSET open, \A s \in left, e \in closed : s < e.startLine
    PROVE  /\ TablesOK(Claim(ss, closed, n), Ends(es, closed, n), n)
           /\ OpenOK(Ends(es, closed, n), n, left)
<1> DEFINE first == {e.startLine : e \in closed}
           around(j) == {e.startLine : e \in {x \in closed : x.startLine <= j}}
           s2 == Claim(ss, closed, n)
           e2 == Ends(es, closed, n)
<1>1. /\ DOMAIN ss = 1..n /\ DOMAIN es = 1..n /\ open \subseteq 1..n /\ first \subseteq open
      /\ \A s \in 1..n : es[s] \in NoBlock..n /\ ss[s] \in NoBlock..n
  BY DEF TablesOK, OpenOK
<1>2. e2 = [j \in 1..n |-> IF j \in first THEN n ELSE es[j]]
  BY <1>1 DEF Ends
<1>3. s2 = [j \in 1..n |-> IF ss[j] = NoBlock /\ around(j) # {} /\ j <= n THEN Max(around(j)) ELSE ss[j]]
  BY <1>1 DEF Claim
<1>4. \A j \in 1..n, s \in 1..n : s \in around(j) <=> s \in first /\ s <= j
  OBVIOUS
<1>5. \A j \in 1..n : around(j) \subseteq 1..n
  BY <1>1
<1> HIDE DEF first, around, s2, e2
<1>6. \A j \in 1..n : around(j) # {} =>
          Max(around(j)) \in around(j) /\ \A s \in around(j) : s <= Max(around(j))
  <2> TAKE j \in 1..n
  <2> HAVE around(j) # {}
  <2>1. around(j) \in SUBSET Int /\ n \in Int /\ \A s \in around(j) : s <= n
    BY <1>5
  <2>2. PICK m \in around(j) : \A s \in around(j) : s <= m
    BY <2>1, GreatestExists
  <2>3. Max(around(j)) = m
    BY <2>1, <2>2, MaxIs
  <2> QED BY <2>2, <2>3
<1>7. e2 \in [1..n -> NoBlock..n] /\ \A s \in 1..n : e2[s] # NoBlock => s <= e2[s]
  BY <1>1, <1>2 DEF NoBlock, TablesOK
<1>8. s2 \in [1..n -> NoBlock..n]
  <2>1. \A j \in 1..n : around(j) # {} => Max(around(j)) \in NoBlock..n
    BY <1>5, <1>6 DEF NoBlock
  <2> QED BY <1>1, <1>3, <2>1
<1>9. \A s \in 1..n, j \in 1..n : InsideOf(e2, s, j) <=> (s \in first /\ s <= j) \/ InsideOf(es, s, j)
  <2> TAKE s \in 1..n, j \in 1..n
  <2>1. s \in first => es[s] = NoBlock
    BY <1>1 DEF OpenOK
  <2>2. DOMAIN e2 = 1..n /\ DOMAIN es = 1..n
    BY <1>1, <1>7
  <2> QED BY <1>2, <2>1, <2>2 DEF InsideOf, NoBlock
<1>10. \A j \in 1..n : InnermostIs(e2, j, s2[j])
  <2> TAKE j \in 1..n
  <2>1. InnermostIs(es, j, ss[j]) /\ ss[j] \in NoBlock..n /\ DOMAIN es = 1..n /\ DOMAIN e2 = 1..n
    BY <1>1, <1>7 DEF TablesOK
  <2>2. CASE ss[j] = NoBlock
    <3>1. \A s \in 1..n : ~InsideOf(es, s, j)
      BY <2>1, <2>2 DEF InnermostIs, NoBlock
    <3>2. CASE around(j) = {}
      <4>1. \A s \in 1..n : ~InsideOf(e2, s, j)
        BY <1>4, <1>9, <3>1, <3>2
      <4>2. s2[j] = NoBlock
        BY <1>3, <2>2, <3>2
      <4> QED BY <2>1, <4>1, <4>2 DEF InnermostIs
    <3>3. CASE around(j) # {}
      <4>1. s2[j] = Max(around(j))
        BY <1>3, <2>2, <3>3
      <4>2. s2[j] \in around(j) /\ \A s \in around(j) : s <= s2[j]
        BY <1>6, <3>3, <4>1
      <4>3. \A s \in 1..n : InsideOf(e2, s, j) <=> s \in around(j)
        BY <1>4, <1>9, <3>1
      <4> QED BY <1>5, <2>1, <4>2, <4>3 DEF InnermostIs
    <3> QED BY <3>2, <3>3
  <2>3. CASE ss[j] # NoBlock
    <3>1. ss[j] \in 1..n /\ InsideOf(es, ss[j], j) /\ s2[j] = ss[j]
      BY <1>3, <2>1, <2>3 DEF InnermostIs, NoBlock
    <3>2. \A s \in 1..n : s \in first /\ s <= j => s <= ss[j]
      <4> TAKE s \in 1..n
      <4> HAVE s \in first /\ s <= j
      <4>1. es[s] = NoBlock
        BY <1>1 DEF OpenOK
      <4>2. ss[j] < s => es[ss[j]] < s
        BY <1>1, <3>1 DEF OpenOK, InsideOf
      <4> QED BY <1>1, <3>1, <4>1, <4>2 DEF InsideOf, NoBlock
    <3> QED BY <1>9, <2>1, <3>1, <3>2 DEF InnermostIs
  <2> QED BY <2>2, <2>3
<1>11. OpenOK(e2, n, left)
  <2>1. \A s \in left : s \in 1..n /\ s \notin first /\ \A f \in first : s < f
    BY <1>1 DEF first
  <2>2. \A s \in left : e2[s] = NoBlock
    BY <1>2, <2>1 DEF OpenOK
  <2>3. \A s \in left, t \in 1..n : e2[t] # NoBlock /\ t < s => e2[t] < s
    BY <1>1, <1>2, <2>1 DEF OpenOK
  <2> QED BY <2>1, <2>2, <2>3 DEF OpenOK
<1> QED BY <1>7, <1>8, <1>10, <1>11 DEF TablesOK, s2, e2

-----------------------------------------------------------------------------
(* Invariant: the tables agree, and the open blocks begin one after the other *)

OpenStarts == {stack[k].startLine : k \in 1..Len(stack)}

BlockInv ==
    /\ BlockTypeOK
    /\ TablesOK(starts, ends, Len(lines))
    /\ ~scanned =>
          /\ OpenOK(ends, Len(lines), OpenStarts)
          /\ \A k, m \in 1..Len(stack) : k < m => stack[k].startLine < stack[m].startLine

\* Before the first line there is nothing to tell.
LEMMA BlockStarts == Init => BlockInv
<1> SUFFICES ASSUME Init PROVE BlockInv
  OBVIOUS
<1>1. starts = <<>> /\ ends = <<>> /\ lines = <<>> /\ Len(lines) = 0 /\ stack = <<>> /\ Len(stack) = 0
  BY DEF Init
<1>2. BlockTypeOK
  <2>1. DOMAIN starts = 1..0 /\ DOMAIN ends = 1..0
    BY <1>1
  <2>2. lines \in Seq(Line) /\ stack \in Seq([startLine : 1..0, bodyDepth : Int, keyword : BOOLEAN])
    BY <1>1, EmptySeq
  <2>3. 0 <= MaxLines
    BY LinesAssumption
  <2>4. state \in {Code, BlockComment, "backtick"}
    BY DEF Init
  <2>5. depth \in Int
    BY DEF Init
  <2>6. scanned \in BOOLEAN
    BY Zenon DEF Init
  <2> QED BY <1>1, <2>1, <2>2, <2>3, <2>4, <2>5, <2>6 DEF BlockTypeOK
<1>3. starts \in [1..0 -> NoBlock..0] /\ ends \in [1..0 -> NoBlock..0]
  BY <1>1
<1>4. TablesOK(starts, ends, Len(lines))
  BY <1>1, <1>3 DEF TablesOK
<1>5. OpenOK(ends, Len(lines), OpenStarts)
  BY <1>1 DEF OpenOK, OpenStarts
<1> QED BY <1>1, <1>2, <1>4, <1>5 DEF BlockInv

\* A line closes the last of the open blocks, and may open one.
LEMMA BlockLine ==
    ASSUME BlockInv, NEW l \in Line, ScanNext(l)
    PROVE  BlockInv'
<1> DEFINE n == Len(lines)
           r == ScanLine(l.text, state)
           d == depth + r.opens - r.closes
           st == Signature(l, n + 1, r)
           kept == Kept(st, d)
           closed == {st[k] : k \in (kept + 1)..Len(st)}
           sa == Append(starts, NoBlock)
           ea == Append(ends, NoBlock)
           open == OpenStarts \cup {n + 1}
           left == {st[k].startLine : k \in 1..kept}
<1>1. /\ n \in Nat /\ ~scanned /\ n + 1 <= MaxLines /\ lines' = Append(lines, l)
      /\ state' = r.state /\ depth' = d /\ stack' = SubSeq(st, 1, kept)
      /\ ends' = Ends(ea, closed, n + 1) /\ starts' = Claim(sa, closed, n + 1) /\ scanned' = FALSE
      /\ lines \in Seq(Line) /\ stack \in Seq(Entry(n)) /\ depth \in Int /\ state \in LineStates
  BY DEF ScanNext, BlockInv, BlockTypeOK, Entry, LineStates, Code, BlockComment
<1>2. lines' \in Seq(Line) /\ Len(lines') = n + 1
  BY <1>1
<1>3. r \in Scanned /\ d \in Int /\ r.state \in LineStates
  <2>1. r \in Scanned
    BY <1>1, ScanLineTyped
  <2> HIDE DEF r
  <2> QED BY <1>1, <2>1 DEF Scanned
<1> HIDE DEF r, d
<1>4. /\ st \in Seq(Entry(n + 1)) /\ Len(st) \in {Len(stack), Len(stack) + 1}
      /\ \A k \in 1..Len(stack) : st[k].startLine = stack[k].startLine
      /\ Len(st) = Len(stack) + 1 => st[Len(st)].startLine = n + 1
  BY <1>1, <1>3, SignatureIs
<1> HIDE DEF st
<1>5. kept \in 0..Len(st) /\ Len(st) \in Nat /\ Len(stack) \in Nat
  BY <1>1, <1>4, KeptIs
<1>6. \A k \in 1..Len(stack) : stack[k].startLine \in 1..n
  <2>1. \A k \in 1..Len(stack) : stack[k] \in Entry(n)
    BY <1>1, ElementOfSeq
  <2> QED BY <2>1 DEF Entry
<1>7. \A k, m \in 1..Len(st) : k < m => st[k].startLine < st[m].startLine
  <2> TAKE k, m \in 1..Len(st)
  <2> HAVE k < m
  <2>1. k \in 1..Len(stack) /\ st[k].startLine = stack[k].startLine /\ stack[k].startLine \in 1..n
    BY <1>4, <1>5, <1>6
  <2>2. CASE m \in 1..Len(stack)
    BY <1>1, <1>4, <2>1, <2>2 DEF BlockInv
  <2>3. CASE m \notin 1..Len(stack)
    <3>1. m = Len(st) /\ Len(st) = Len(stack) + 1
      BY <1>4, <1>5, <2>3
    <3> QED BY <1>1, <1>4, <2>1, <3>1
  <2> QED BY <2>2, <2>3
<1>8. \A k \in 1..Len(st) : st[k].startLine \in open
  <2> TAKE k \in 1..Len(st)
  <2>1. CASE k \in 1..Len(stack)
    BY <1>4, <2>1 DEF OpenStarts
  <2>2. CASE k \notin 1..Len(stack)
    <3>1. k = Len(st) /\ Len(st) = Len(stack) + 1
      BY <1>4, <1>5, <2>2
    <3> QED BY <1>4, <3>1
  <2> QED BY <2>1, <2>2
<1>9. TablesOK(sa, ea, n + 1) /\ OpenOK(ea, n + 1, open)
  BY <1>1, TablesGrow DEF BlockInv
<1>10. \A e \in closed : e.startLine \in open
  BY <1>5, <1>8
<1>11. left \in SUBSET open /\ \A s \in left, e \in closed : s < e.startLine
  <2>1. left \in SUBSET open
    BY <1>5, <1>8
  <2>2. ASSUME NEW k \in 1..kept, NEW m \in (kept + 1)..Len(st) PROVE st[k].startLine < st[m].startLine
    <3> HIDE DEF kept
    <3> QED BY <1>5, <1>7
  <2> QED BY <2>1, <2>2
<1> HIDE DEF closed, left, open, kept, sa, ea
<1>12. TablesOK(starts', ends', n + 1) /\ OpenOK(ends', n + 1, left)
  BY <1>1, <1>9, <1>10, <1>11, n + 1 \in Nat, TablesClose
<1>13. /\ stack' \in Seq(Entry(n + 1)) /\ Len(stack') = kept
       /\ \A k \in 1..kept : stack'[k] = st[k]
  BY <1>1, <1>4, <1>5
<1>14. OpenStarts' = left
  BY <1>13 DEF OpenStarts, left
<1>15. \A k, m \in 1..Len(stack') : k < m => stack'[k].startLine < stack'[m].startLine
  BY <1>5, <1>7, <1>13
<1>16. BlockTypeOK'
  <2>1. stack' \in Seq([startLine : 1..(n + 1), bodyDepth : Int, keyword : BOOLEAN])
    BY <1>13 DEF Entry
  <2>2. state' \in {Code, BlockComment, "backtick"}
    BY <1>1, <1>3 DEF LineStates, Code, BlockComment
  <2>3. /\ DOMAIN starts' = 1..(n + 1) /\ DOMAIN ends' = 1..(n + 1)
        /\ \A j \in 1..(n + 1) : starts'[j] \in NoBlock..(n + 1) /\ ends'[j] \in NoBlock..(n + 1)
    BY <1>12 DEF TablesOK
  <2> QED BY <1>1, <1>2, <1>3, <2>1, <2>2, <2>3 DEF BlockTypeOK
<1> QED BY <1>2, <1>12, <1>14, <1>15, <1>16 DEF BlockInv

\* At the end of the file the bodies that are open end with it.
LEMMA BlockLast ==
    ASSUME BlockInv, CloseUnterminated
    PROVE  BlockInv'
<1> DEFINE n == Len(lines)
           open == {stack[k] : k \in {j \in 1..Len(stack) : stack[j].bodyDepth >= 0}}
<1>1. /\ n \in Nat /\ ~scanned /\ UNCHANGED <<lines, state, depth, stack>> /\ scanned' = TRUE
      /\ ends' = Ends(ends, open, n) /\ starts' = Claim(starts, open, n)
      /\ TablesOK(starts, ends, n) /\ OpenOK(ends, n, OpenStarts)
  BY DEF CloseUnterminated, BlockInv, BlockTypeOK
<1>2. \A e \in open : e.startLine \in OpenStarts
  BY DEF OpenStarts
<1> HIDE DEF open
<1>3. {} \in SUBSET OpenStarts /\ \A s \in {}, e \in open : s < e.startLine
  OBVIOUS
<1>4. TablesOK(starts', ends', n)
  BY <1>1, <1>2, <1>3, TablesClose
<1>5. BlockTypeOK'
  <2>1. /\ DOMAIN starts' = 1..n /\ DOMAIN ends' = 1..n
        /\ \A j \in 1..n : starts'[j] \in NoBlock..n /\ ends'[j] \in NoBlock..n
    BY <1>4 DEF TablesOK
  <2> QED BY <1>1, <2>1 DEF BlockInv, BlockTypeOK
<1> QED BY <1>1, <1>4, <1>5 DEF BlockInv

LEMMA BlockHolds == Spec => []BlockInv
<1>1. Init => BlockInv
  BY BlockStarts
<1>2. BlockInv /\ [Next]_vars => BlockInv'
  <2> SUFFICES ASSUME BlockInv, [Next]_vars PROVE BlockInv'
    OBVIOUS
  <2>1. CASE \E l \in Line : ScanNext(l)
    BY <2>1, BlockLine
  <2>2. CASE CloseUnterminated
    BY <2>2, BlockLast
  <2>3. CASE UNCHANGED vars
    BY <2>3 DEF BlockInv, BlockTypeOK, OpenStarts, vars
  <2> QED BY <2>1, <2>2, <2>3 DEF Next
<1> QED BY <1>1, <1>2, PTL DEF Spec

\* Every variable of the block scanner has its type, and each table a cell for every line.
THEOREM BlocksTypeCorrect == Spec => []BlockTypeOK
<1>1. BlockInv => BlockTypeOK
  BY DEF BlockInv
<1> QED BY <1>1, BlockHolds, PTL

\* What the two tables say of a file agrees: the start recorded for a line is that of the last
\* block around it.
THEOREM InnermostIsRecorded == Spec => []InnermostBlock
<1>1. BlockInv => InnermostBlock
  <2> SUFFICES ASSUME BlockInv, NEW j \in DOMAIN starts
               PROVE  starts[j] = Max({s \in DOMAIN ends : Inside(s, j)} \cup {NoBlock})
    BY DEF InnermostBlock
  <2> DEFINE n == Len(lines)
             S == {s \in DOMAIN ends : Inside(s, j)} \cup {NoBlock}
  <2>1. /\ TablesOK(starts, ends, n) /\ n \in Nat /\ DOMAIN ends = 1..n /\ j \in 1..n
        /\ InnermostIs(ends, j, starts[j])
    BY DEF BlockInv, BlockTypeOK, TablesOK
  <2>2. \A s \in DOMAIN ends : Inside(s, j) <=> InsideOf(ends, s, j)
    BY DEF Inside, Block, InsideOf
  <2>3. S \in SUBSET Int
    BY <2>1 DEF NoBlock
  <2>4. starts[j] \in S
    BY <2>1, <2>2 DEF InnermostIs, InsideOf
  <2>5. \A s \in S : s <= starts[j]
    <3>1. starts[j] \in NoBlock..n
      BY <2>1 DEF TablesOK
    <3> QED BY <2>1, <2>2, <3>1 DEF InnermostIs, NoBlock
  <2> HIDE DEF S
  <2>6. Max(S) = starts[j]
    BY <2>3, <2>4, <2>5, MaxIs
  <2> QED BY <2>6 DEF S
<1> QED BY <1>1, BlockHolds, PTL

-----------------------------------------------------------------------------
(* What the walk says of a file *)

Cell == [state : LineStates, depth : Int]

\* The cell after a line, from the cell before it.
CellAfter(l, b) ==
    LET r == ScanLineDense(l.text, 1, b.state)
    IN [state |-> r.state, depth |-> b.depth + r.opens - r.closes]

LEMMA CellTyped ==
    ASSUME NEW l \in Line, NEW b \in Cell
    PROVE  CellAfter(l, b) \in Cell
<1>1. b.state \in LineStates /\ b.depth \in Int
  BY DEF Cell
<1>2. ScanLineDense(l.text, 1, b.state) \in Scanned
  BY <1>1, ScanLineTyped
<1> QED BY <1>1, <1>2 DEF CellAfter, Cell, Scanned

LEMMA WalkedIs ==
    ASSUME NEW ls \in Seq(Line)
    PROVE  /\ Walked(ls) \in [0..Len(ls) -> Cell]
           /\ Walked(ls)[0] = [state |-> Code, depth |-> 0]
           /\ \A j \in 1..Len(ls) : Walked(ls)[j] = CellAfter(ls[j], Walked(ls)[j - 1])
<1> DEFINE L == Len(ls)
           base == [state |-> Code, depth |-> 0]
           step == [j \in 1..L |-> [b \in Cell |-> CellAfter(ls[j], b)]]
           again(f) == [j \in 0..L |-> IF j = 0 THEN base ELSE CellAfter(ls[j], f[j - 1])]
           w == CHOOSE f : f = again(f)
<1>1. L \in Nat /\ \A j \in 1..L : ls[j] \in Line
  BY ElementOfSeq
<1>2. base \in Cell
  BY DEF Cell, LineStates, Code
<1>3. step \in [1..L -> [Cell -> Cell]]
  BY <1>1, CellTyped
<1>4. Recursion(Cell, L, base, step)
  <2> HIDE DEF L, base, step
  <2> QED BY <1>1, <1>2, <1>3, RecursionExists
<1>5. PICK g \in [0..L -> Cell] : g[0] = base /\ \A j \in 1..L : g[j] = step[j][g[j - 1]]
  BY <1>4 DEF Recursion
<1>6. g = again(g)
  <2>1. \A j \in 0..L : g[j] = again(g)[j]
    <3> TAKE j \in 0..L
    <3>1. CASE j = 0
      BY <1>5, <3>1
    <3>2. CASE j # 0
      <4>1. j \in 1..L /\ j - 1 \in 0..L
        BY <1>1, <3>2
      <4>2. g[j - 1] \in Cell
        BY <1>5, <4>1
      <4> HIDE DEF base
      <4> QED BY <1>5, <3>2, <4>1, <4>2
    <3> QED BY <3>1, <3>2
  <2> HIDE DEF base
  <2> QED BY <1>5, <2>1
<1>7. w = again(w)
  <2> HIDE DEF again
  <2> QED BY <1>6
<1>8. Walked(ls) = w
  BY DEF Walked, CellAfter
<1> HIDE DEF w
<1>9. w[0] = base /\ \A j \in 1..L : w[j] = CellAfter(ls[j], w[j - 1])
  <2> DEFINE a == again(w)
  <2>1. a[0] = base /\ \A j \in 1..L : a[j] = CellAfter(ls[j], w[j - 1])
    <3> HIDE DEF base
    <3> QED BY <1>1
  <2> HIDE DEF a, base
  <2> QED BY <1>7, <2>1 DEF a
<1>10. \A j \in 0..L : w[j] \in Cell
  <2> DEFINE T == {j \in Nat : j <= L => w[j] \in Cell}
  <2>1. 0 \in T
    BY <1>2, <1>9
  <2>2. ASSUME NEW j \in T PROVE j + 1 \in T
    <3> SUFFICES ASSUME j + 1 <= L PROVE w[j + 1] \in Cell
      OBVIOUS
    <3>1. j + 1 \in 1..L /\ (j + 1) - 1 = j /\ w[j] \in Cell
      BY <1>1
    <3> HIDE DEF T, base
    <3>2. w[j + 1] = CellAfter(ls[j + 1], w[j])
      BY <1>9, <3>1
    <3> QED BY <1>1, <3>1, <3>2, CellTyped
  <2>3. T = Nat
    <3> HIDE DEF T
    <3>1. T \in SUBSET Nat
      BY DEF T
    <3> QED BY <2>1, <2>2, <3>1, Inductive
  <2> QED BY <2>3
<1>11. w \in [0..L -> Cell]
  <2> DEFINE a == again(w)
  <2>1. a = [j \in 0..L |-> a[j]]
    OBVIOUS
  <2> HIDE DEF a
  <2>2. w = [j \in 0..L |-> w[j]]
    BY <1>7, <2>1 DEF a
  <2> QED BY <1>10, <2>2
<1> QED BY <1>8, <1>9, <1>11

\* What the walk says of the lines there are is not changed by another.
LEMMA WalkedGrows ==
    ASSUME NEW ls \in Seq(Line), NEW l \in Line
    PROVE  /\ Append(ls, l) \in Seq(Line) /\ Len(Append(ls, l)) = Len(ls) + 1 /\ Len(ls) \in Nat
           /\ \A j \in 1..Len(ls) : Append(ls, l)[j] = ls[j]
           /\ Append(ls, l)[Len(ls) + 1] = l
           /\ \A j \in 0..Len(ls) : Walked(Append(ls, l))[j] = Walked(ls)[j]
           /\ Walked(Append(ls, l))[Len(ls) + 1] = CellAfter(l, Walked(ls)[Len(ls)])
<1> DEFINE la == Append(ls, l)
           L == Len(ls)
           T == {j \in Nat : j <= L => Walked(la)[j] = Walked(ls)[j]}
<1>1. /\ la \in Seq(Line) /\ Len(la) = L + 1 /\ L \in Nat
      /\ \A j \in 1..L : la[j] = ls[j]
      /\ la[L + 1] = l
  OBVIOUS
<1> HIDE DEF la
<1>2. /\ Walked(ls)[0] = [state |-> Code, depth |-> 0] /\ Walked(la)[0] = [state |-> Code, depth |-> 0]
      /\ \A j \in 1..L : Walked(ls)[j] = CellAfter(ls[j], Walked(ls)[j - 1])
      /\ \A j \in 1..(L + 1) : Walked(la)[j] = CellAfter(la[j], Walked(la)[j - 1])
  BY <1>1, WalkedIs
<1> HIDE DEF L
<1>3. 0 \in T
  BY <1>2
<1>4. ASSUME NEW j \in T PROVE j + 1 \in T
  <2> SUFFICES ASSUME j + 1 <= L PROVE Walked(la)[j + 1] = Walked(ls)[j + 1]
    OBVIOUS
  <2>1. j + 1 \in 1..L /\ j + 1 \in 1..(L + 1) /\ (j + 1) - 1 = j /\ Walked(la)[j] = Walked(ls)[j]
    BY <1>1
  <2> QED BY <1>1, <1>2, <2>1
<1>5. T = Nat
  <2> HIDE DEF T
  <2>1. T \in SUBSET Nat
    BY DEF T
  <2> QED BY <1>3, <1>4, <2>1, Inductive
<1>6. \A j \in 0..L : Walked(la)[j] = Walked(ls)[j]
  BY <1>1, <1>5
<1>7. Walked(la)[L + 1] = CellAfter(l, Walked(ls)[L])
  <2>1. L + 1 \in 1..(L + 1) /\ (L + 1) - 1 = L /\ L \in 0..L
    BY <1>1
  <2> QED BY <1>1, <1>2, <1>6, <2>1
<1> QED BY <1>1, <1>6, <1>7 DEF la, L

-----------------------------------------------------------------------------
(* Invariant: in a plain file the open entries are the signatures whose depth has not come back *)

Opens(s) == lines[s].sig /\ InCode(s)

\* An open entry is a signature in code; its body began at the depth before it, and no line
\* since has come back to that; the entries' depths go up.
OpenMatched ==
    \A k \in 1..Len(stack) :
        LET s == stack[k].startLine
            b == stack[k].bodyDepth
        IN /\ Opens(s) /\ b = DepthAfter(s - 1) /\ 0 <= b
           /\ \A j \in s..Len(lines) : DepthAfter(j) > b
           /\ \A m \in 1..Len(stack) : k < m => b < stack[m].bodyDepth

\* A block has ended where the depth came back, for the first time.
EndsMatched(s) ==
    /\ ends[s] \in s..Len(lines) /\ DepthAfter(ends[s]) = DepthAfter(s - 1)
    /\ \A j \in s..(ends[s] - 1) : DepthAfter(j) # DepthAfter(s - 1)

EndedMatched ==
    \A s \in 1..Len(lines) :
        IF Opens(s) THEN s \in OpenStarts \/ EndsMatched(s) ELSE ends[s] = NoBlock

MatchInv ==
    /\ ~scanned => state = Walked(lines)[Len(lines)].state /\ depth = DepthAfter(Len(lines))
    /\ ~scanned /\ Plain => OpenMatched /\ EndedMatched
    /\ BodiesMatched

LEMMA MatchStarts == Init => MatchInv
<1> SUFFICES ASSUME Init PROVE MatchInv
  OBVIOUS
<1>1. lines = <<>> /\ Len(lines) = 0 /\ Len(stack) = 0 /\ state = Code /\ depth = 0 /\ ~scanned
  BY DEF Init
<1>2. lines \in Seq(Line)
  BY <1>1
<1>3. Walked(lines)[0] = [state |-> Code, depth |-> 0]
  BY <1>2, WalkedIs
<1>4. OpenMatched /\ EndedMatched
  BY <1>1 DEF OpenMatched, EndedMatched
<1>5. BodiesMatched
  BY <1>1 DEF BodiesMatched
<1> QED BY <1>1, <1>3, <1>4, <1>5 DEF MatchInv, DepthAfter

\* What it takes for a file to be plain, line by line.
PlainLine(w, ls, j) ==
    /\ w[j].depth >= 0 /\ w[j].depth >= w[j - 1].depth - 1
    /\ (ls[j].sig /\ w[j - 1].state = Code) =>
            w[j].depth > w[j - 1].depth \/ (ls[j].whole /\ w[j].depth = w[j - 1].depth)

LEMMA PlainIs ==
    ASSUME lines \in Seq(Line)
    PROVE  Plain <=> \A j \in 1..Len(lines) : PlainLine(Walked(lines), lines, j)
<1>1. DOMAIN lines = 1..Len(lines) /\ Len(lines) \in Nat
  OBVIOUS
<1>2. \A j \in 0..Len(lines) : DepthAfter(j) \in Int
  BY WalkedIs DEF DepthAfter, Cell
<1>3. ASSUME NEW x \in Int, NEW y \in Int
      PROVE  x >= Max({0, y - 1}) <=> x >= 0 /\ x >= y - 1
  <2>1. CASE y - 1 <= 0
    <3>1. Max({0, y - 1}) = 0
      BY <2>1, {0, y - 1} \in SUBSET Int, MaxIs
    <3> QED BY <2>1, <3>1
  <2>2. CASE y - 1 > 0
    <3>1. Max({0, y - 1}) = y - 1
      BY <2>2, {0, y - 1} \in SUBSET Int, MaxIs
    <3> QED BY <2>2, <3>1
  <2> QED BY <2>1, <2>2
<1>4. \A j \in 1..Len(lines) :
          DepthAfter(j) >= Max({0, DepthAfter(j - 1) - 1}) <=> DepthAfter(j) >= 0 /\ DepthAfter(j) >= DepthAfter(j - 1) - 1
  <2> TAKE j \in 1..Len(lines)
  <2>1. DepthAfter(j) \in Int /\ DepthAfter(j - 1) \in Int
    BY <1>1, <1>2
  <2> QED BY <1>3, <2>1
<1> QED BY <1>1, <1>4 DEF Plain, PlainLine, DepthAfter, InCode

\* The same of the lines after a step.
LEMMA PlainIsNext ==
    (lines \in Seq(Line) => (Plain <=> \A j \in 1..Len(lines) : PlainLine(Walked(lines), lines, j)))'
<1>1. lines \in Seq(Line) => (Plain <=> \A j \in 1..Len(lines) : PlainLine(Walked(lines), lines, j))
  BY PlainIs
<1> QED BY <1>1, PTL

\* What the walk and the counter say when a line is scanned.
LEMMA LineIsWalked ==
    ASSUME BlockInv, MatchInv, NEW l \in Line, ScanNext(l)
    PROVE  /\ Len(lines) \in Nat /\ Len(lines') = Len(lines) + 1
           /\ lines' \in Seq(Line) /\ lines \in Seq(Line)
           /\ \A j \in 1..Len(lines) : lines'[j] = lines[j]
           /\ lines'[Len(lines) + 1] = l
           /\ \A j \in 0..Len(lines) : Walked(lines')[j] = Walked(lines)[j]
           /\ \A j \in 0..(Len(lines) + 1) : Walked(lines')[j] \in Cell
           /\ Walked(lines')[Len(lines)] = [state |-> state, depth |-> depth]
           /\ Walked(lines')[Len(lines) + 1] = [state |-> state', depth |-> depth']
<1> DEFINE n == Len(lines)
           r == ScanLine(l.text, state)
           d == ScanLineDense(l.text, 1, state)
<1>1. /\ lines \in Seq(Line) /\ ~scanned /\ lines' = Append(lines, l)
      /\ state' = r.state /\ depth' = depth + r.opens - r.closes /\ state \in LineStates
      /\ state = Walked(lines)[n].state /\ depth = Walked(lines)[n].depth
  BY DEF ScanNext, BlockInv, BlockTypeOK, MatchInv, DepthAfter, LineStates, Code, BlockComment
<1>2. r = d
  BY <1>1, ScanLineTyped
<1>3. /\ lines' \in Seq(Line) /\ Len(lines') = n + 1 /\ n \in Nat
      /\ \A j \in 1..n : lines'[j] = lines[j]
      /\ lines'[n + 1] = l
      /\ \A j \in 0..n : Walked(lines')[j] = Walked(lines)[j]
      /\ Walked(lines')[n + 1] = CellAfter(l, Walked(lines)[n])
  BY <1>1, WalkedGrows
<1>4. \A j \in 0..(n + 1) : Walked(lines')[j] \in Cell
  BY <1>3, WalkedIs
<1>5. Walked(lines')[n] = [state |-> state, depth |-> depth]
  <2>1. Walked(lines')[n] \in Cell /\ Walked(lines')[n] = Walked(lines)[n]
    BY <1>3, <1>4
  <2> QED BY <1>1, <2>1 DEF Cell
<1>6. Walked(lines')[n + 1] = [state |-> state', depth |-> depth']
  <2>1. CellAfter(l, Walked(lines)[n]) = [state |-> d.state, depth |-> depth + d.opens - d.closes]
    BY <1>1 DEF CellAfter
  <2> HIDE DEF r, d
  <2> QED BY <1>1, <1>2, <1>3, <2>1
<1> QED BY <1>1, <1>3, <1>4, <1>5, <1>6

\* The entries of a plain file when a line has been scanned and nothing is closed yet.
EntriesMatch(st, n, w, ls, d) ==
    \A k \in 1..Len(st) :
        LET s == st[k].startLine
            b == st[k].bodyDepth
        IN /\ s \in 1..(n + 1) /\ ls[s].sig /\ w[s - 1].state = Code
           /\ b \in Int /\ b = w[s - 1].depth /\ 0 <= b /\ b <= d
           /\ \A j \in s..n : w[j].depth > b
           /\ \A m \in 1..Len(st) : k < m => b < st[m].bodyDepth

LEMMA MatchEntries ==
    ASSUME BlockInv, MatchInv, NEW l \in Line, ScanNext(l), Plain'
    PROVE  LET n == Len(lines)
               st == Signature(l, n + 1, ScanLine(l.text, state))
           IN /\ Plain
              /\ EntriesMatch(st, n, Walked(lines'), lines', depth')
              /\ Len(st) >= Len(stack) /\ \A k \in 1..Len(stack) : st[k] = stack[k]
              /\ (l.sig /\ state = Code) => Len(st) > 0 /\ st[Len(st)].startLine = n + 1
<1> DEFINE n == Len(lines)
           w == Walked(lines')
           r == ScanLine(l.text, state)
           st == Signature(l, n + 1, r)
           e == [startLine |-> n + 1, bodyDepth |-> depth, keyword |-> l.keyword]
<1>1. /\ n \in Nat /\ lines' \in Seq(Line) /\ lines \in Seq(Line) /\ Len(lines') = n + 1
      /\ \A j \in 1..n : lines'[j] = lines[j]
      /\ lines'[n + 1] = l
      /\ \A j \in 0..n : w[j] = Walked(lines)[j]
      /\ \A j \in 0..(n + 1) : w[j].depth \in Int
      /\ w[n].state = state /\ w[n].depth = depth /\ w[n + 1].depth = depth'
  BY LineIsWalked DEF Cell
<1> HIDE DEF w
<1>2. \A j \in 1..(n + 1) : PlainLine(w, lines', j)
  BY <1>1, PlainIsNext DEF w
<1>3. Plain
  <2>1. \A j \in 1..n : PlainLine(Walked(lines), lines, j)
    <3> TAKE j \in 1..n
    <3>1. /\ j \in 0..n /\ j - 1 \in 0..n /\ j \in 1..(n + 1)
      BY <1>1
    <3>2. /\ PlainLine(w, lines', j) /\ lines'[j] = lines[j]
          /\ w[j] = Walked(lines)[j] /\ w[j - 1] = Walked(lines)[j - 1]
      BY <1>1, <1>2, <3>1
    <3> QED BY <3>2 DEF PlainLine
  <2> QED BY <1>1, <2>1, PlainIs
<1>4. OpenMatched
  BY <1>3 DEF MatchInv, ScanNext
<1>5. /\ depth \in Int /\ depth' \in Int /\ 0 <= depth /\ depth' >= depth - 1
      /\ (l.sig /\ state = Code) => depth' > depth \/ (l.whole /\ depth' = depth)
  <2>1. PlainLine(w, lines', n + 1) /\ (n + 1) - 1 = n /\ depth \in Int /\ depth' \in Int
    BY <1>1, <1>2
  <2>2. 0 <= depth
    <3>1. CASE n = 0
      <4>1. Walked(lines)[0] = [state |-> Code, depth |-> 0]
        BY <1>1, WalkedIs
      <4> QED BY <1>1, <3>1, <4>1
    <3>2. CASE n # 0
      <4>1. PlainLine(w, lines', n)
        BY <1>1, <1>2, <3>2
      <4> QED BY <1>1, <2>1, <4>1 DEF PlainLine
    <3> QED BY <3>1, <3>2
  <2> QED BY <1>1, <2>1, <2>2 DEF PlainLine
<1>6. /\ stack \in Seq(Entry(n)) /\ Len(stack) \in Nat /\ l.keyword \in BOOLEAN
      /\ \A k \in 1..Len(stack) : stack[k].startLine \in 1..n /\ stack[k].bodyDepth \in Int
  <2>1. stack \in Seq(Entry(n))
    BY DEF BlockInv, BlockTypeOK, Entry
  <2>2. \A k \in 1..Len(stack) : stack[k] \in Entry(n)
    BY <2>1, ElementOfSeq
  <2>3. Len(stack) \in Nat
    BY <2>1
  <2>4. l.keyword \in BOOLEAN
    BY LinesAssumption
  <2>5. \A k \in 1..Len(stack) : stack[k].startLine \in 1..n /\ stack[k].bodyDepth \in Int
    BY <2>2 DEF Entry
  <2> QED BY <2>1, <2>3, <2>4, <2>5
<1>7. \A k \in 1..Len(stack) :
          LET s == stack[k].startLine
              b == stack[k].bodyDepth
          IN /\ s \in 1..n /\ lines'[s].sig /\ w[s - 1].state = Code
             /\ b \in Int /\ b = w[s - 1].depth /\ 0 <= b /\ b < depth
             /\ \A j \in s..n : w[j].depth > b
             /\ \A m \in 1..Len(stack) : k < m => b < stack[m].bodyDepth
  <2> TAKE k \in 1..Len(stack)
  <2> DEFINE s == stack[k].startLine
             b == stack[k].bodyDepth
  <2>1. /\ Opens(s) /\ b = DepthAfter(s - 1) /\ 0 <= b
        /\ \A j \in s..n : DepthAfter(j) > b
        /\ \A m \in 1..Len(stack) : k < m => b < stack[m].bodyDepth
    BY <1>4 DEF OpenMatched
  <2>2. s \in 1..n /\ b \in Int
    BY <1>6
  <2> HIDE DEF s, b
  <2>3. s - 1 \in 0..n /\ \A j \in s..n : j \in 0..n
    BY <1>1, <2>2
  <2>4. lines'[s].sig /\ w[s - 1].state = Code /\ b = w[s - 1].depth /\ \A j \in s..n : w[j].depth > b
    BY <1>1, <2>1, <2>2, <2>3 DEF Opens, InCode, DepthAfter
  <2>5. b < depth
    BY <1>1, <2>2, <2>4, <1>5
  <2> QED BY <2>1, <2>2, <2>4, <2>5 DEF s, b
<1>8. st = IF l.sig /\ state = Code THEN Append(stack, e) ELSE stack
  <2>1. stack # <<>> => ~(stack[Len(stack)].bodyDepth < 0)
    BY <1>6, <1>7
  <2>2. ~AwaitingKeywordSignature /\ ~(Len(stack) > 0 /\ stack[Len(stack)].bodyDepth < 0 /\ r.opens > 0)
    BY <1>6, <2>1 DEF AwaitingKeywordSignature
  <2>3. (l.sig /\ state = Code) => depth + r.opens - r.closes > depth \/ l.whole
    BY <1>5 DEF ScanNext
  <2> HIDE DEF r
  <2> QED BY <2>2, <2>3 DEF Signature
<1> HIDE DEF st
<1>9. CASE l.sig /\ state = Code
  <2>1. /\ Len(st) = Len(stack) + 1
        /\ \A k \in 1..Len(stack) : st[k] = stack[k]
        /\ st[Len(st)] = e
    BY <1>6, <1>8, <1>9
  <2>2. EntriesMatch(st, n, w, lines', depth')
    <3> SUFFICES ASSUME NEW k \in 1..Len(st)
                 PROVE  LET s == st[k].startLine
                            b == st[k].bodyDepth
                        IN /\ s \in 1..(n + 1) /\ lines'[s].sig /\ w[s - 1].state = Code
                           /\ b \in Int /\ b = w[s - 1].depth /\ 0 <= b /\ b <= depth'
                           /\ \A j \in s..n : w[j].depth > b
                           /\ \A m \in 1..Len(st) : k < m => b < st[m].bodyDepth
      BY DEF EntriesMatch
    <3>1. CASE k \in 1..Len(stack)
      <4>1. \A m \in 1..Len(st) : k < m => st[k].bodyDepth < st[m].bodyDepth
        <5> TAKE m \in 1..Len(st)
        <5> HAVE k < m
        <5>1. CASE m \in 1..Len(stack)
          BY <1>7, <2>1, <3>1, <5>1
        <5>2. CASE m = Len(st)
          BY <1>7, <2>1, <3>1, <5>2
        <5> QED BY <1>6, <2>1, <5>1, <5>2
      <4>2. /\ st[k].startLine \in 1..n /\ lines'[st[k].startLine].sig /\ w[st[k].startLine - 1].state = Code
            /\ st[k].bodyDepth \in Int /\ st[k].bodyDepth = w[st[k].startLine - 1].depth
            /\ 0 <= st[k].bodyDepth /\ st[k].bodyDepth < depth
            /\ \A j \in st[k].startLine..n : w[j].depth > st[k].bodyDepth
        BY <1>7, <2>1, <3>1
      <4>3. st[k].startLine \in 1..(n + 1) /\ st[k].bodyDepth <= depth'
        BY <1>1, <1>5, <4>2
      <4> QED BY <4>1, <4>2, <4>3
    <3>2. CASE k = Len(st)
      <4>1. st[k].startLine = n + 1 /\ st[k].bodyDepth = depth
        BY <2>1, <3>2
      <4>2. \A m \in 1..Len(st) : ~(k < m)
        BY <1>6, <2>1, <3>2
      <4>3. (n + 1) - 1 = n /\ (n + 1)..n = {} /\ n + 1 \in 1..(n + 1) /\ depth <= depth'
        BY <1>1, <1>5, <1>9
      <4>4. lines'[n + 1].sig /\ w[n].state = Code /\ w[n].depth = depth
        BY <1>1, <1>9
      <4>5. /\ n + 1 \in 1..(n + 1) /\ lines'[n + 1].sig /\ w[(n + 1) - 1].state = Code
            /\ depth \in Int /\ depth = w[(n + 1) - 1].depth /\ 0 <= depth /\ depth <= depth'
            /\ \A j \in (n + 1)..n : w[j].depth > depth
        BY <1>5, <4>3, <4>4
      <4> QED BY <4>1, <4>2, <4>5
    <3> QED BY <1>6, <2>1, <3>1, <3>2
  <2> QED BY <1>3, <1>6, <2>1, <2>2 DEF st, w
<1>10. CASE ~(l.sig /\ state = Code)
  <2>1. st = stack
    BY <1>8, <1>10
  <2>2. EntriesMatch(st, n, w, lines', depth')
    BY <1>1, <1>5, <1>7, <2>1 DEF EntriesMatch
  <2> QED BY <1>3, <1>6, <1>10, <2>1, <2>2 DEF st, w
<1> QED BY <1>9, <1>10

\* The table of ends after a line or at the end of the file.
LEMMA EndsIs ==
    ASSUME NEW n \in Nat, NEW es, DOMAIN es = 1..n, NEW closed, NEW last
    PROVE  /\ DOMAIN Ends(es, closed, last) = 1..n
           /\ \A e \in closed : e.startLine \in 1..n => Ends(es, closed, last)[e.startLine] = last
           /\ \A s \in 1..n : (\A e \in closed : e.startLine # s) => Ends(es, closed, last)[s] = es[s]
<1> QED BY DEF Ends

LEMMA MatchLine ==
    ASSUME BlockInv, BlockInv', MatchInv, NEW l \in Line, ScanNext(l)
    PROVE  MatchInv'
<1> DEFINE n == Len(lines)
           w == Walked(lines')
           st == Signature(l, n + 1, ScanLine(l.text, state))
           d == depth'
           kept == Kept(st, d)
           closed == {st[k] : k \in (kept + 1)..Len(st)}
           ea == Append(ends, NoBlock)
<1>1. /\ ~scanned /\ scanned' = FALSE /\ stack' = SubSeq(st, 1, kept) /\ ends' = Ends(ea, closed, n + 1)
  BY DEF ScanNext
<1>2. /\ n \in Nat /\ Len(lines') = n + 1 /\ lines' \in Seq(Line)
      /\ \A j \in 1..n : lines'[j] = lines[j]
      /\ lines'[n + 1] = l
      /\ \A j \in 0..n : w[j] = Walked(lines)[j]
      /\ w[n].state = state /\ w[n].depth = depth /\ w[n + 1].state = state' /\ w[n + 1].depth = d
  BY LineIsWalked
<1>3. state' = Walked(lines')[Len(lines')].state /\ depth' = DepthAfter(Len(lines))'
  BY <1>2 DEF DepthAfter
<1>4. BodiesMatched'
  BY <1>1 DEF BodiesMatched
<1>5. ASSUME Plain' PROVE OpenMatched' /\ EndedMatched'
  <2>1. /\ Plain /\ EntriesMatch(st, n, w, lines', d)
        /\ Len(st) >= Len(stack) /\ \A k \in 1..Len(stack) : st[k] = stack[k]
        /\ (l.sig /\ state = Code) => Len(st) > 0 /\ st[Len(st)].startLine = n + 1
    BY <1>5, MatchEntries
  <2>2. st \in Seq(Entry(n + 1)) /\ Len(st) \in Nat
    <3>1. /\ stack \in Seq(Entry(n)) /\ depth \in Int /\ state \in LineStates
      BY DEF BlockInv, BlockTypeOK, Entry, LineStates, Code, BlockComment
    <3>2. ScanLine(l.text, state) \in Scanned
      BY <3>1, ScanLineTyped
    <3>3. st \in Seq(Entry(n + 1))
      BY <1>2, <3>1, <3>2, SignatureIs
    <3> HIDE DEF st
    <3> QED BY <3>3
  <2> HIDE DEF st, w
  <2>3. /\ kept \in 0..Len(st)
        /\ \A j \in (kept + 1)..Len(st) : st[j].bodyDepth = d
        /\ kept > 0 => st[kept].bodyDepth # d
    <3>1. /\ kept \in 0..Len(st)
          /\ \A j \in (kept + 1)..Len(st) : st[j].bodyDepth = d
          /\ kept > 0 => ~(st[kept].bodyDepth >= 0 /\ st[kept].bodyDepth = d)
      BY <2>2, KeptIs
    <3>2. kept > 0 => st[kept].bodyDepth >= 0
      BY <2>1, <2>2, <3>1 DEF EntriesMatch
    <3> QED BY <3>1, <3>2
  <2>4. /\ ends \in Seq(NoBlock..n) /\ Len(ends) = n /\ DOMAIN ends = 1..n
        /\ d \in Int /\ Len(stack) \in Nat
    <3>1. ends \in [1..n -> NoBlock..n]
      BY DEF BlockInv, TablesOK
    <3>2. ends \in Seq(NoBlock..n) /\ Len(ends) = n
      <4>1. NoBlock \in NoBlock..n
        BY <1>2 DEF NoBlock
      <4> QED BY <1>2, <3>1, <4>1, TableAppend
    <3> QED BY <3>1, <3>2 DEF BlockInv, BlockTypeOK
  <2>5. /\ DOMAIN ea = 1..(n + 1) /\ \A s \in 1..n : ea[s] = ends[s]
        /\ ea[n + 1] = NoBlock
    BY <2>4
  <2> HIDE DEF kept, closed, ea
  <2>6. \A k \in 1..kept : st[k].bodyDepth < d
    <3> TAKE k \in 1..kept
    <3>1. k \in 1..Len(st) /\ kept \in 1..Len(st) /\ kept > 0
      BY <2>2, <2>3
    <3>2. st[kept].bodyDepth < d
      BY <2>3, <2>4, <3>1, <2>1 DEF EntriesMatch
    <3>3. k < kept => st[k].bodyDepth < st[kept].bodyDepth
      BY <2>1, <3>1 DEF EntriesMatch
    <3>4. st[k].bodyDepth \in Int /\ st[kept].bodyDepth \in Int
      BY <2>1, <3>1 DEF EntriesMatch
    <3> QED BY <2>4, <3>1, <3>2, <3>3, <3>4
  <2>7. /\ Len(stack') = kept /\ \A k \in 1..kept : stack'[k] = st[k]
    BY <1>1, <2>2, <2>3
  <2>8. \A s \in 1..(n + 1) : Opens(s)' <=> lines'[s].sig /\ w[s - 1].state = Code
    BY DEF Opens, InCode, w
  <2>9. OpenMatched'
    <3> SUFFICES ASSUME NEW k \in 1..kept
                 PROVE  LET s == st[k].startLine
                            b == st[k].bodyDepth
                        IN /\ lines'[s].sig /\ w[s - 1].state = Code /\ b = w[s - 1].depth /\ 0 <= b
                           /\ \A j \in s..(n + 1) : w[j].depth > b
                           /\ \A m \in 1..kept : k < m => b < st[m].bodyDepth
      BY <1>2, <2>7 DEF OpenMatched, Opens, InCode, DepthAfter, w
    <3> DEFINE s == st[k].startLine
               b == st[k].bodyDepth
    <3>1. k \in 1..Len(st) /\ \A m \in 1..kept : m \in 1..Len(st)
      BY <2>2, <2>3
    <3>2. /\ s \in 1..(n + 1) /\ lines'[s].sig /\ w[s - 1].state = Code
          /\ b \in Int /\ b = w[s - 1].depth /\ 0 <= b
          /\ \A j \in s..n : w[j].depth > b
          /\ \A m \in 1..Len(st) : k < m => b < st[m].bodyDepth
      BY <2>1, <3>1 DEF EntriesMatch
    <3>3. b < d
      BY <2>6
    <3> HIDE DEF s, b
    <3>4. \A j \in s..(n + 1) : w[j].depth > b
      <4> TAKE j \in s..(n + 1)
      <4>1. CASE j = n + 1
        BY <1>2, <2>4, <3>2, <3>3, <4>1
      <4>2. CASE j # n + 1
        BY <1>2, <3>2, <4>2
      <4> QED BY <4>1, <4>2
    <3> QED BY <3>1, <3>2, <3>4 DEF s, b
  <2>10. EndedMatched'
    <3> SUFFICES ASSUME NEW s \in 1..(n + 1)
                 PROVE  IF Opens(s)' THEN s \in OpenStarts' \/ EndsMatched(s)' ELSE ends'[s] = NoBlock
      BY <1>2 DEF EndedMatched
    <3> DEFINE matched == /\ ends'[s] \in s..(n + 1) /\ w[ends'[s]].depth = w[s - 1].depth
                          /\ \A j \in s..(ends'[s] - 1) : w[j].depth # w[s - 1].depth
    <3>4. matched => EndsMatched(s)'
      BY <1>2 DEF EndsMatched, DepthAfter, w
    <3>1. /\ \A k \in (kept + 1)..Len(st) : st[k] \in closed
          /\ \A e \in closed : \E k \in 1..Len(st) : k > kept /\ e = st[k]
      BY <2>2, <2>3 DEF closed
    <3>2. CASE \E k \in 1..Len(st) : st[k].startLine = s
      <4>1. PICK k \in 1..Len(st) : st[k].startLine = s
        BY <3>2
      <4> DEFINE b == st[k].bodyDepth
      <4>2. /\ lines'[s].sig /\ w[s - 1].state = Code /\ b \in Int /\ b = w[s - 1].depth
            /\ \A j \in s..n : w[j].depth > b
        BY <2>1, <4>1 DEF EntriesMatch
      <4>3. Opens(s)'
        BY <2>8, <4>2
      <4>4. CASE k <= kept
        <5>1. k \in 1..kept
          BY <2>2, <2>3, <4>4
        <5>2. s = stack'[k].startLine
          BY <2>7, <4>1, <5>1
        <5> QED BY <2>7, <4>3, <5>1, <5>2 DEF OpenStarts
      <4>5. CASE k > kept
        <5>1. k \in (kept + 1)..Len(st) /\ b = d
          BY <2>2, <2>3, <4>5
        <5>2. ends'[s] = n + 1
          <6>1. st[k] \in closed
            BY <3>1, <5>1
          <6>2. Ends(ea, closed, n + 1)[st[k].startLine] = n + 1
            BY <1>2, <2>5, <4>1, <6>1, n + 1 \in Nat, EndsIs
          <6> QED BY <1>1, <4>1, <6>2
        <5>3. w[n + 1].depth = w[s - 1].depth /\ (n + 1) - 1 = n
          BY <1>2, <4>2, <5>1
        <5>4. \A j \in s..n : w[j].depth # w[s - 1].depth
          <6> HIDE DEF b
          <6>1. \A j \in s..n : w[j].depth # b
            BY <4>2
          <6> QED BY <4>2, <6>1
        <5>5. matched
          BY <1>2, <5>2, <5>3, <5>4
        <5> QED BY <3>4, <4>3, <5>5
      <4> QED BY <2>2, <2>3, <4>1, <4>4, <4>5
    <3>3. CASE \A k \in 1..Len(st) : st[k].startLine # s
      <4>1. ends'[s] = ea[s]
        <5>1. \A e \in closed : e.startLine # s
          BY <3>1, <3>3
        <5> QED BY <1>1, <1>2, <2>5, <5>1, n + 1 \in Nat, EndsIs
      <4>2. CASE s = n + 1
        <5>1. ~Opens(s)'
          <6>1. ~(l.sig /\ state = Code)
            BY <2>1, <2>2, <3>3, <4>2
          <6> QED BY <1>2, <2>8, <4>2, <6>1
        <5> QED BY <2>5, <4>1, <4>2, <5>1
      <4>3. CASE s # n + 1
        <5>1. s \in 1..n /\ s - 1 \in 0..n /\ s - 1 \in 0..(n + 1) /\ ends'[s] = ends[s]
          BY <1>2, <2>5, <4>1, <4>3
        <5>2. Opens(s)' <=> Opens(s)
          <6>1. lines'[s] = lines[s] /\ w[s - 1] = Walked(lines)[s - 1]
            BY <1>2, <5>1
          <6> QED BY <2>8, <6>1 DEF Opens, InCode
        <5>3. IF Opens(s) THEN s \in OpenStarts \/ EndsMatched(s) ELSE ends[s] = NoBlock
          BY <1>1, <2>1, <5>1 DEF MatchInv, EndedMatched
        <5>4. s \notin OpenStarts
          BY <2>1, <2>2, <2>4, <3>3 DEF OpenStarts
        <5>5. EndsMatched(s) => matched
          <6> SUFFICES ASSUME EndsMatched(s) PROVE matched
            OBVIOUS
          <6> DEFINE v == Walked(lines)
          <6>1. /\ ends[s] \in s..n /\ v[ends[s]].depth = v[s - 1].depth
                /\ \A j \in s..(ends[s] - 1) : v[j].depth # v[s - 1].depth
            BY DEF EndsMatched, DepthAfter
          <6> HIDE DEF v
          <6>2. ends[s] \in 0..n /\ \A j \in s..(ends[s] - 1) : j \in 0..n
            BY <1>2, <5>1, <6>1
          <6>3. w[ends[s]].depth = w[s - 1].depth /\ ends'[s] \in s..(n + 1)
            BY <1>2, <5>1, <6>1, <6>2 DEF v
          <6>4. \A j \in s..(ends[s] - 1) : w[j].depth # w[s - 1].depth
            BY <1>2, <5>1, <6>1, <6>2 DEF v
          <6> QED BY <5>1, <6>3, <6>4
        <5> QED BY <3>4, <5>1, <5>2, <5>3, <5>4, <5>5
      <4> QED BY <4>2, <4>3
    <3> QED BY <3>2, <3>3
  <2> QED BY <2>9, <2>10
<1> QED BY <1>3, <1>4, <1>5 DEF MatchInv

LEMMA MinIs ==
    ASSUME NEW S \in SUBSET Int, NEW m \in S, \A k \in S : m <= k
    PROVE  Min(S) = m
<1>1. \A x \in S : (\A y \in S : x <= y) => x = m
  OBVIOUS
<1> QED BY <1>1 DEF Min

\* The end of the file ends the bodies that are open, and no other.
LEMMA MatchLast ==
    ASSUME BlockInv, MatchInv, CloseUnterminated
    PROVE  MatchInv'
<1> DEFINE n == Len(lines)
           w == Walked(lines)
           open == {stack[k] : k \in {j \in 1..Len(stack) : stack[j].bodyDepth >= 0}}
           back(s) == {j \in s..n : w[j].depth = w[s - 1].depth}
<1>1. /\ ~scanned /\ scanned' = TRUE /\ ends' = Ends(ends, open, n)
      /\ lines' = lines /\ n \in Nat /\ DOMAIN ends = 1..n
      /\ lines \in Seq(Line) /\ DOMAIN lines = 1..n
  BY DEF CloseUnterminated, BlockInv, BlockTypeOK
<1>2. \A k \in 1..Len(stack) : stack[k].startLine \in 1..n
  <2>1. stack \in Seq(Entry(n))
    BY DEF BlockInv, BlockTypeOK, Entry
  <2>2. \A k \in 1..Len(stack) : stack[k] \in Entry(n)
    BY <2>1, ElementOfSeq
  <2> QED BY <2>2 DEF Entry
<1>3. ASSUME Plain PROVE OpenMatched /\ EndedMatched
  BY <1>1, <1>3 DEF MatchInv
<1>4. Plain' <=> Plain
  BY <1>1 DEF Plain, DepthAfter, InCode
<1>5. ASSUME Plain, NEW s \in 1..n
      PROVE  IF Opens(s) THEN ends'[s] = Min(back(s) \cup {n}) ELSE ends'[s] = NoBlock
  <2>1. OpenMatched /\ EndedMatched
    BY <1>3, <1>5
  <2>2. back(s) \cup {n} \in SUBSET Int
    BY <1>1
  <2>3. CASE \E k \in 1..Len(stack) : stack[k].startLine = s
    <3>1. PICK k \in 1..Len(stack) : stack[k].startLine = s
      BY <2>3
    <3>2. /\ Opens(s) /\ stack[k].bodyDepth = w[s - 1].depth /\ 0 <= stack[k].bodyDepth
          /\ \A j \in s..n : w[j].depth > w[s - 1].depth
      BY <2>1, <3>1 DEF OpenMatched, DepthAfter
    <3>3. stack[k] \in open
      BY <3>2
    <3> HIDE DEF open
    <3>4. ends'[s] = n
      BY <1>1, <3>1, <3>3, EndsIs
    <3>5. \A j \in s..n : w[j].depth # w[s - 1].depth
      <4>1. \A j \in 0..n : w[j].depth \in Int
        BY <1>1, WalkedIs DEF Cell
      <4> HIDE DEF w
      <4> QED BY <1>1, <3>2, <4>1
    <3>6. back(s) \cup {n} = {n}
      BY <3>5
    <3>7. Min({n}) = n
      <4> DEFINE S == {n}
      <4>1. S \in SUBSET Int /\ n \in S /\ \A e \in S : n <= e
        BY <1>1
      <4> HIDE DEF S
      <4>2. Min(S) = n
        BY <4>1, MinIs
      <4> QED BY <4>2 DEF S
    <3> QED BY <3>2, <3>4, <3>6, <3>7
  <2>4. CASE \A k \in 1..Len(stack) : stack[k].startLine # s
    <3>1. \A e \in open : e.startLine # s
      BY <2>4
    <3> HIDE DEF open
    <3>2. ends'[s] = ends[s]
      BY <1>1, <3>1, EndsIs
    <3>3. s \notin OpenStarts
      BY <2>4 DEF OpenStarts
    <3>4. IF Opens(s) THEN EndsMatched(s) ELSE ends[s] = NoBlock
      BY <2>1, <3>3 DEF EndedMatched
    <3>5. ASSUME EndsMatched(s) PROVE Min(back(s) \cup {n}) = ends[s]
      <4>1. /\ ends[s] \in s..n /\ w[ends[s]].depth = w[s - 1].depth
            /\ \A j \in s..(ends[s] - 1) : w[j].depth # w[s - 1].depth
        BY <3>5 DEF EndsMatched, DepthAfter
      <4> HIDE DEF w
      <4>2. ends[s] \in back(s) \cup {n}
        BY <4>1
      <4>3. \A j \in s..n : w[j].depth = w[s - 1].depth => ends[s] <= j
        BY <1>1, <4>1
      <4>4. ends[s] <= n
        BY <1>1, <4>1
      <4>5. \A j \in back(s) : ends[s] <= j
        BY <4>3
      <4> HIDE DEF back
      <4>6. \A j \in back(s) \cup {n} : ends[s] <= j
        BY <4>4, <4>5
      <4> QED BY <2>2, <4>2, <4>6, MinIs
    <3> QED BY <3>2, <3>4, <3>5
  <2> QED BY <2>3, <2>4
<1>6. DOMAIN ends' = 1..n
  BY <1>1, EndsIs
<1> HIDE DEF open
<1>7. BodiesMatched'
  <2> SUFFICES ASSUME Plain', NEW s \in 1..n
               PROVE  IF lines[s].sig /\ w[s - 1].state = Code
                      THEN ends'[s] = Min(back(s) \cup {n})
                      ELSE ~(s \in DOMAIN ends' /\ ends'[s] # NoBlock)
    BY <1>1 DEF BodiesMatched, Block, InCode, DepthAfter
  <2> QED BY <1>4, <1>5 DEF Opens, InCode
<1> QED BY <1>1, <1>7 DEF MatchInv

LEMMA MatchHolds == Spec => [](BlockInv /\ MatchInv)
<1>1. Init => BlockInv /\ MatchInv
  BY BlockStarts, MatchStarts
<1>2. BlockInv /\ MatchInv /\ [Next]_vars => (BlockInv /\ MatchInv)'
  <2> SUFFICES ASSUME BlockInv, MatchInv, [Next]_vars PROVE BlockInv' /\ MatchInv'
    OBVIOUS
  <2>1. CASE \E l \in Line : ScanNext(l)
    BY <2>1, BlockLine, MatchLine
  <2>2. CASE CloseUnterminated
    BY <2>2, BlockLast, MatchLast
  <2>3. CASE UNCHANGED vars
    <3>1. BlockInv'
      BY <2>3 DEF BlockInv, BlockTypeOK, OpenStarts, vars
    <3>2. MatchInv'
      <4>1. /\ lines' = lines /\ state' = state /\ depth' = depth /\ stack' = stack
            /\ starts' = starts /\ ends' = ends /\ scanned' = scanned
        BY <2>3 DEF vars
      <4>2. Plain' <=> Plain
        BY <4>1 DEF Plain, DepthAfter, InCode
      <4>3. OpenMatched' <=> OpenMatched
        BY <4>1 DEF OpenMatched, Opens, InCode, DepthAfter
      <4>4. EndedMatched' <=> EndedMatched
        BY <4>1 DEF EndedMatched, EndsMatched, OpenStarts, Opens, InCode, DepthAfter
      <4>5. BodiesMatched' <=> BodiesMatched
        BY <4>1, <4>2 DEF BodiesMatched, Block, InCode, DepthAfter
      <4> QED BY <4>1, <4>2, <4>3, <4>4, <4>5 DEF MatchInv, DepthAfter
    <3> QED BY <3>1, <3>2
  <2> QED BY <2>1, <2>2, <2>3 DEF Next
<1> QED BY <1>1, <1>2, PTL DEF Spec

\* In a file the brace count can follow, mapBlockBoundaries ends every function or type on the
\* line that brings the depth back to what it was before, or at the end of the file.
THEOREM BodiesAreMatched == Spec => []BodiesMatched
<1>1. MatchInv => BodiesMatched
  BY DEF MatchInv
<1> QED BY <1>1, MatchHolds, PTL

-----------------------------------------------------------------------------
(* The answer of multi_read *)

Files == Nat \X Nat

\* One entry put behind those before it.
FillStep(s, b) == b \o SubSeq(s, 1, Min({Len(s), MaxTotalFiles - Len(b)}))

LEMMA FillTyped ==
    ASSUME NEW s \in Seq(Files), NEW b \in Seq(Files)
    PROVE  /\ FillStep(s, b) \in Seq(Files)
           /\ Len(b) <= MaxTotalFiles =>
                 \E c \in 0..Len(s) :
                    /\ Len(FillStep(s, b)) = Len(b) + c /\ Len(b) + c <= MaxTotalFiles
                    /\ c = Len(s) \/ Len(b) + c = MaxTotalFiles
                    /\ \A k \in 1..Len(b) : FillStep(s, b)[k] = b[k]
                    /\ \A k \in 1..c : FillStep(s, b)[Len(b) + k] = s[k]
<1> DEFINE room == MaxTotalFiles - Len(b)
           c == Min({Len(s), room})
           cut == SubSeq(s, 1, c)
<1>1. Len(s) \in Nat /\ Len(b) \in Nat /\ room \in Int /\ MaxTotalFiles \in Nat
      /\ \A k \in 1..Len(s) : s[k] \in Files
  BY ReadsAssumption, LenProperties, ElementOfSeq
<1>2. c = IF Len(s) <= room THEN Len(s) ELSE room
  <2> DEFINE S == {Len(s), room}
  <2>1. S \in SUBSET Int /\ \A k \in S : k = Len(s) \/ k = room
    BY <1>1
  <2>2. Len(s) \in S /\ room \in S
    OBVIOUS
  <2> HIDE DEF S, room
  <2>3. CASE Len(s) <= room
    <3>1. \A k \in S : Len(s) <= k
      BY <1>1, <2>1, <2>3
    <3> QED BY <2>1, <2>2, <2>3, <3>1, MinIs DEF S
  <2>4. CASE ~(Len(s) <= room)
    <3>1. \A k \in S : room <= k
      BY <1>1, <2>1, <2>4
    <3> QED BY <2>1, <2>2, <2>4, <3>1, MinIs DEF S
  <2> QED BY <2>3, <2>4
<1> HIDE DEF c
<1>3. c \in Int /\ c <= Len(s) /\ c <= room /\ (c = Len(s) \/ c = room)
  BY <1>1, <1>2
<1>4. \A k \in 1..c : s[k] \in Files
  BY <1>1, <1>3
<1>5. /\ cut \in Seq(Files) /\ Len(cut) = IF 1 <= c THEN c ELSE 0
      /\ \A k \in 1..c : cut[k] = s[k]
  <2>1. /\ cut \in Seq(Files) /\ Len(cut) = IF 1 <= c THEN c - 1 + 1 ELSE 0
        /\ \A k \in 1..(c - 1 + 1) : cut[k] = s[1 + k - 1]
    BY <1>3, <1>4, 1 \in Int, SubSeqProperties
  <2> HIDE DEF cut
  <2>2. c - 1 + 1 = c /\ \A k \in 1..c : 1 + k - 1 = k
    BY <1>3
  <2> QED BY <1>3, <2>1, <2>2
<1> HIDE DEF cut
<1>6. /\ b \o cut \in Seq(Files) /\ Len(b \o cut) = Len(b) + Len(cut)
      /\ \A k \in 1..(Len(b) + Len(cut)) : (b \o cut)[k] = IF k <= Len(b) THEN b[k] ELSE cut[k - Len(b)]
  BY <1>5, ConcatProperties
<1>7. FillStep(s, b) = b \o cut
  BY DEF FillStep, c, cut
<1>8. ASSUME Len(b) <= MaxTotalFiles
      PROVE  /\ c \in 0..Len(s) /\ Len(b \o cut) = Len(b) + c /\ Len(b) + c <= MaxTotalFiles
             /\ c = Len(s) \/ Len(b) + c = MaxTotalFiles
             /\ \A k \in 1..Len(b) : (b \o cut)[k] = b[k]
             /\ \A k \in 1..c : (b \o cut)[Len(b) + k] = s[k]
  <2>1. c \in 0..Len(s) /\ Len(cut) = c
    BY <1>1, <1>3, <1>5, <1>8
  <2>2. \A k \in 1..Len(b) : (b \o cut)[k] = b[k]
    BY <1>1, <1>6, <2>1
  <2>3. \A k \in 1..c : (b \o cut)[Len(b) + k] = s[k]
    <3> TAKE k \in 1..c
    <3>1. Len(b) + k \in 1..(Len(b) + Len(cut)) /\ ~(Len(b) + k <= Len(b)) /\ (Len(b) + k) - Len(b) = k
      BY <1>1, <2>1
    <3> QED BY <1>5, <1>6, <3>1
  <2> QED BY <1>1, <1>3, <1>6, <2>1, <2>2, <2>3
<1> QED BY <1>6, <1>7, <1>8

LEMMA FilledIs ==
    ASSUME NEW m \in Nat, NEW ss \in [1..m -> Seq(Files)]
    PROVE  /\ Len(ss) = m
           /\ Filled(ss)[0] = <<>>
           /\ \A j \in 1..m : Filled(ss)[j] = FillStep(ss[j], Filled(ss)[j - 1])
           /\ \A j \in 0..m : Filled(ss)[j] \in Seq(Files)
<1> DEFINE step == [j \in 1..m |-> [b \in Seq(Files) |-> FillStep(ss[j], b)]]
           again(f) == [j \in 0..m |-> IF j = 0 THEN <<>> ELSE FillStep(ss[j], f[j - 1])]
           w == CHOOSE f : f = again(f)
<1>1. Len(ss) = m
  <2>1. ss \in Seq(Seq(Files))
    BY SeqDef
  <2> QED BY <2>1, LenProperties
<1>2. <<>> \in Seq(Files)
  BY EmptySeq
<1>3. step \in [1..m -> [Seq(Files) -> Seq(Files)]]
  BY FillTyped
<1>4. Recursion(Seq(Files), m, <<>>, step)
  <2> HIDE DEF step
  <2> QED BY <1>2, <1>3, RecursionExists
<1>5. PICK g \in [0..m -> Seq(Files)] : g[0] = <<>> /\ \A j \in 1..m : g[j] = step[j][g[j - 1]]
  BY <1>4 DEF Recursion
<1>6. g = again(g)
  <2>1. \A j \in 0..m : g[j] = again(g)[j]
    <3> TAKE j \in 0..m
    <3>1. CASE j = 0
      BY <1>5, <3>1
    <3>2. CASE j # 0
      <4>1. j \in 1..m /\ j - 1 \in 0..m
        BY <3>2
      <4>2. g[j - 1] \in Seq(Files)
        BY <1>5, <4>1
      <4> QED BY <1>5, <3>2, <4>1, <4>2
    <3> QED BY <3>1, <3>2
  <2> QED BY <1>5, <2>1
<1>7. w = again(w)
  <2> HIDE DEF again
  <2> QED BY <1>6
<1>8. Filled(ss) = w
  BY <1>1 DEF Filled, FillStep
<1> HIDE DEF w
<1>9. w[0] = <<>> /\ \A j \in 1..m : w[j] = FillStep(ss[j], w[j - 1])
  <2> DEFINE a == again(w)
  <2>1. a[0] = <<>> /\ \A j \in 1..m : a[j] = FillStep(ss[j], w[j - 1])
    OBVIOUS
  <2> HIDE DEF a
  <2> QED BY <1>7, <2>1 DEF a
<1>10. \A j \in 0..m : w[j] \in Seq(Files)
  <2> DEFINE T == {j \in Nat : j <= m => w[j] \in Seq(Files)}
  <2>1. 0 \in T
    BY <1>2, <1>9
  <2>2. ASSUME NEW j \in T PROVE j + 1 \in T
    <3> SUFFICES ASSUME j + 1 <= m PROVE w[j + 1] \in Seq(Files)
      OBVIOUS
    <3>1. j + 1 \in 1..m /\ (j + 1) - 1 = j /\ w[j] \in Seq(Files)
      OBVIOUS
    <3> HIDE DEF T
    <3>2. w[j + 1] = FillStep(ss[j + 1], w[j])
      BY <1>9, <3>1
    <3>3. ss[j + 1] \in Seq(Files)
      BY <3>1
    <3>4. FillStep(ss[j + 1], w[j]) \in Seq(Files)
      BY <3>1, <3>3, FillTyped
    <3> QED BY <3>2, <3>4
  <2>3. T = Nat
    <3> HIDE DEF T
    <3>1. T \in SUBSET Nat
      BY DEF T
    <3> QED BY <2>1, <2>2, <3>1, Inductive
  <2>4. \A j \in T : j <= m => w[j] \in Seq(Files)
    OBVIOUS
  <2> HIDE DEF T
  <2>5. \A j \in 0..m : j \in T /\ j <= m
    BY <2>3
  <2> QED BY <2>4, <2>5
<1> QED BY <1>1, <1>8, <1>9, <1>10

\* Files are in the order of their entries, and in an entry in that of the walk.
Precedes(f, g) == f[1] < g[1] \/ (f[1] = g[1] /\ f[2] < g[2])

\* The expansions of m entries: the i-th holds the files <<i, 1>>, <<i, 2>>, and so on.
Expansions(ss, m) ==
    ss \in [1..m -> Seq(Files)] /\ \A i \in 1..m, k \in Nat : k \in 1..Len(ss[i]) => ss[i][k] = <<i, k>>

\* The answer b of the first j entries: in order, of their files only, and a file it leaves out
\* comes behind all it has, and it is full.
AnswerOf(b, ss, j) ==
    /\ b \in Seq(Files) /\ Len(b) <= MaxTotalFiles
    /\ \A x, y \in 1..Len(b) : x < y => Precedes(b[x], b[y])
    /\ \A x \in 1..Len(b) : b[x][1] \in 1..j /\ b[x][2] \in 1..Len(ss[b[x][1]])
    /\ \A i \in 1..j : \A k \in 1..Len(ss[i]) :
           \/ \E x \in 1..Len(b) : b[x] = <<i, k>>
           \/ Len(b) = MaxTotalFiles /\ \A x \in 1..Len(b) : Precedes(b[x], <<i, k>>)

LEMMA AnswerGrows ==
    ASSUME NEW m \in Nat, NEW ss, Expansions(ss, m), NEW j \in Nat, j + 1 <= m, NEW b, AnswerOf(b, ss, j)
    PROVE  AnswerOf(FillStep(ss[j + 1], b), ss, j + 1)
<1> DEFINE s == ss[j + 1]
           a == FillStep(s, b)
           n == Len(b)
<1>1. /\ s \in Seq(Files) /\ b \in Seq(Files) /\ n <= MaxTotalFiles
      /\ Len(s) \in Nat /\ n \in Nat /\ MaxTotalFiles \in Nat
      /\ \A k \in 1..Len(s) : s[k] = <<j + 1, k>>
      /\ \A x \in 1..n : b[x] \in Files
  <2>1. s \in Seq(Files) /\ b \in Seq(Files)
    BY DEF Expansions, AnswerOf
  <2>2. Len(s) \in Nat /\ n \in Nat /\ MaxTotalFiles \in Nat
    BY <2>1, ReadsAssumption, LenProperties
  <2>3. \A x \in 1..n : b[x] \in Files
    BY <2>1, ElementOfSeq
  <2> QED BY <2>1, <2>2, <2>3 DEF Expansions, AnswerOf
<1>2. a \in Seq(Files)
  BY <1>1, FillTyped
<1>3. PICK c \in 0..Len(s) :
          /\ Len(a) = n + c /\ n + c <= MaxTotalFiles
          /\ c = Len(s) \/ n + c = MaxTotalFiles
          /\ \A k \in 1..n : a[k] = b[k]
          /\ \A k \in 1..c : a[n + k] = s[k]
  BY <1>1, FillTyped
<1> HIDE DEF a
<1>4. /\ \A x \in 1..n : a[x] = b[x] /\ a[x][1] \in 1..j /\ a[x][2] \in 1..Len(ss[a[x][1]]) /\ a[x] \in Files
      /\ \A x \in (n + 1)..(n + c) : a[x] = <<j + 1, x - n>> /\ x - n \in 1..c
  <2>1. ASSUME NEW x \in 1..n
        PROVE  a[x] = b[x] /\ a[x][1] \in 1..j /\ a[x][2] \in 1..Len(ss[a[x][1]]) /\ a[x] \in Files
    <3>1. a[x] = b[x]
      BY <1>1, <1>3
    <3> QED BY <1>1, <3>1 DEF AnswerOf
  <2>2. ASSUME NEW x \in (n + 1)..(n + c) PROVE a[x] = <<j + 1, x - n>> /\ x - n \in 1..c
    <3>1. x - n \in 1..c /\ n + (x - n) = x /\ x - n \in 1..Len(s)
      BY <1>1, <1>3
    <3>2. a[n + (x - n)] = s[x - n]
      BY <1>3, <3>1
    <3> QED BY <1>1, <3>1, <3>2
  <2> QED BY <2>1, <2>2
<1>5. Len(a) <= MaxTotalFiles /\ \A x \in 1..Len(a) : x \in 1..n \/ x \in (n + 1)..(n + c)
  BY <1>1, <1>3
<1>6. /\ \A u \in 1..j : u < j + 1 /\ u \in 1..(j + 1)
      /\ \A u \in 1..(j + 1) : u \in 1..j \/ u = j + 1
  OBVIOUS
<1> HIDE DEF s, n
<1>7. ASSUME NEW x \in 1..Len(a), NEW y \in 1..Len(a), x < y PROVE Precedes(a[x], a[y])
  <2>1. CASE y \in 1..n
    <3>1. x \in 1..n
      BY <1>1, <1>7, <2>1
    <3>2. Precedes(b[x], b[y])
      BY <1>7, <2>1, <3>1 DEF AnswerOf, n
    <3> QED BY <1>4, <2>1, <3>1, <3>2
  <2>2. CASE x \in 1..n /\ y \in (n + 1)..(n + c)
    <3>1. a[x][1] \in 1..j /\ a[y] = <<j + 1, y - n>>
      BY <1>4, <2>2
    <3>2. a[y][1] = j + 1
      BY <3>1
    <3>3. a[x][1] < a[y][1]
      BY <1>6, <3>1, <3>2
    <3> QED BY <3>3 DEF Precedes
  <2>3. CASE x \in (n + 1)..(n + c) /\ y \in (n + 1)..(n + c)
    <3>1. a[x] = <<j + 1, x - n>> /\ a[y] = <<j + 1, y - n>>
      BY <1>4, <2>3
    <3>2. a[x][1] = a[y][1] /\ a[x][2] = x - n /\ a[y][2] = y - n
      BY <3>1
    <3>3. x - n < y - n
      BY <1>1, <1>3, <1>7, <2>3
    <3> QED BY <3>2, <3>3 DEF Precedes
  <2> QED BY <1>1, <1>3, <1>5, <1>7, <2>1, <2>2, <2>3
<1>8. ASSUME NEW x \in 1..Len(a) PROVE a[x][1] \in 1..(j + 1) /\ a[x][2] \in 1..Len(ss[a[x][1]])
  <2>1. CASE x \in 1..n
    BY <1>4, <1>6, <2>1
  <2>2. CASE x \in (n + 1)..(n + c)
    <3>1. a[x] = <<j + 1, x - n>> /\ x - n \in 1..c
      BY <1>4, <2>2
    <3>2. a[x][1] = j + 1 /\ a[x][2] = x - n
      BY <3>1
    <3>3. x - n \in 1..Len(s)
      BY <1>1, <1>3, <3>1
    <3> QED BY <3>2, <3>3 DEF s
  <2> QED BY <1>5, <2>1, <2>2
<1>9. ASSUME NEW i \in 1..(j + 1), NEW k \in 1..Len(ss[i])
      PROVE  \/ \E x \in 1..Len(a) : a[x] = <<i, k>>
             \/ Len(a) = MaxTotalFiles /\ \A x \in 1..Len(a) : Precedes(a[x], <<i, k>>)
  <2> DEFINE f == <<i, k>>
  <2>1. f[1] = i /\ f[2] = k
    OBVIOUS
  <2> HIDE DEF f
  <2>2. CASE i \in 1..j
    <3>1. \/ \E x \in 1..n : b[x] = f
          \/ n = MaxTotalFiles /\ \A x \in 1..n : Precedes(b[x], f)
      BY <2>2 DEF AnswerOf, n, f
    <3>2. CASE \E x \in 1..n : b[x] = f
      <4>1. PICK x \in 1..n : b[x] = f
        BY <3>2
      <4>2. a[x] = f
        BY <1>4, <4>1
      <4>3. x \in 1..Len(a)
        BY <1>1, <1>3
      <4> QED BY <4>2, <4>3 DEF f
    <3>3. CASE n = MaxTotalFiles /\ \A x \in 1..n : Precedes(b[x], f)
      <4>1. Len(a) = n
        BY <1>1, <1>3, <3>3
      <4>2. \A x \in 1..Len(a) : Precedes(a[x], f)
        BY <1>4, <3>3, <4>1
      <4> QED BY <3>3, <4>1, <4>2 DEF f
    <3> QED BY <3>1, <3>2, <3>3
  <2>3. CASE i = j + 1
    <3>1. k \in 1..Len(s)
      BY <2>3 DEF s
    <3>2. CASE k \in 1..c
      <4>1. n + k \in 1..Len(a) /\ a[n + k] = s[k]
        BY <1>1, <1>3, <3>2
      <4>2. s[k] = <<i, k>>
        BY <1>1, <2>3, <3>1
      <4> QED BY <4>1, <4>2
    <3>3. CASE k \notin 1..c
      <4>1. c < k /\ Len(a) = MaxTotalFiles
        BY <1>1, <1>3, <3>1, <3>3
      <4>2. ASSUME NEW x \in 1..Len(a) PROVE Precedes(a[x], f)
        <5>1. CASE x \in 1..n
          <6>1. a[x][1] \in 1..j
            BY <1>4, <5>1
          <6>2. a[x][1] < f[1]
            BY <1>6, <2>1, <2>3, <6>1
          <6> QED BY <6>2 DEF Precedes
        <5>2. CASE x \in (n + 1)..(n + c)
          <6>1. a[x] = <<j + 1, x - n>> /\ x - n \in 1..c
            BY <1>4, <5>2
          <6>2. a[x][1] = j + 1 /\ a[x][2] = x - n
            BY <6>1
          <6>3. x - n < k
            BY <1>1, <1>3, <4>1, <6>1, <3>1
          <6> QED BY <2>1, <2>3, <6>2, <6>3 DEF Precedes
        <5> QED BY <1>5, <5>1, <5>2
      <4> QED BY <4>1, <4>2 DEF f
    <3> QED BY <3>2, <3>3
  <2> QED BY <1>6, <2>2, <2>3
<1>10. AnswerOf(a, ss, j + 1)
  BY <1>2, <1>5, <1>7, <1>8, <1>9 DEF AnswerOf
<1> QED BY <1>10 DEF a, s

\* flattenSlots of the expansions is the answer to all the entries.
LEMMA FlattenIs ==
    ASSUME NEW m \in Nat, NEW ss, Expansions(ss, m)
    PROVE  AnswerOf(FlattenSlots(ss), ss, m)
<1> DEFINE w == Filled(ss)
           T == {j \in Nat : j <= m => AnswerOf(w[j], ss, j)}
<1>1. /\ Len(ss) = m /\ w[0] = <<>>
      /\ \A j \in 1..m : w[j] = FillStep(ss[j], w[j - 1])
  BY FilledIs DEF Expansions
<1>2. FlattenSlots(ss) = w[m]
  BY <1>1 DEF FlattenSlots
<1> HIDE DEF w
<1>3. 0 \in T
  <2>1. <<>> \in Seq(Files) /\ Len(<<>>) = 0 /\ 0 <= MaxTotalFiles
    BY ReadsAssumption, EmptySeq
  <2>2. AnswerOf(<<>>, ss, 0)
    BY <2>1 DEF AnswerOf
  <2> QED BY <1>1, <2>2
<1>4. ASSUME NEW j \in T PROVE j + 1 \in T
  <2> SUFFICES ASSUME j + 1 <= m PROVE AnswerOf(w[j + 1], ss, j + 1)
    OBVIOUS
  <2>1. j \in Nat /\ AnswerOf(w[j], ss, j) /\ j + 1 \in 1..m /\ (j + 1) - 1 = j
    OBVIOUS
  <2> HIDE DEF T
  <2>2. w[j + 1] = FillStep(ss[j + 1], w[j])
    BY <1>1, <2>1
  <2>3. AnswerOf(FillStep(ss[j + 1], w[j]), ss, j + 1)
    BY <2>1, AnswerGrows
  <2> QED BY <2>2, <2>3
<1>5. T = Nat
  <2> HIDE DEF T
  <2>1. T \in SUBSET Nat
    BY DEF T
  <2> QED BY <1>3, <1>4, <2>1, Inductive
<1>6. \A j \in T : j <= m => AnswerOf(w[j], ss, j)
  OBVIOUS
<1> HIDE DEF T
<1> QED BY <1>2, <1>5, <1>6

\* Invariant: an entry is open or expanded, and the answer is put together when none is open.
SlotsOK(ss, m) ==
    /\ DOMAIN ss = 1..m /\ ss = [i \in 1..m |-> ss[i]]
    /\ \A i \in 1..m : ss[i] = Open \/ \E n \in Nat : ss[i] = [k \in 1..n |-> <<i, k>>]

ReadInv ==
    /\ \E m \in Nat : SlotsOK(slots, m)
    /\ rendered => (\A i \in DOMAIN slots : slots[i] # Open) /\ expanded = FlattenSlots(slots)

LEMMA LesserTyped ==
    ASSUME NEW a \in Nat, NEW b \in Nat
    PROVE  Min({a, b}) \in Nat
<1> DEFINE S == {a, b}
<1>1. S \in SUBSET Int /\ S \subseteq Nat /\ a \in S /\ \A k \in S : 0 <= k
  OBVIOUS
<1> HIDE DEF S
<1>2. \E k \in S : \A j \in S : k <= j
  BY <1>1, 0 \in Int, LeastExists
<1>3. Min(S) \in S
  BY <1>1, <1>2, MinIs
<1> QED BY <1>1, <1>3 DEF S

LEMMA ReadStarts == ReadInit => ReadInv
<1> SUFFICES ASSUME ReadInit PROVE ReadInv
  OBVIOUS
<1>1. PICK n \in 1..MaxReads : reads \in [1..n -> BOOLEAN]
  BY DEF ReadInit
<1>2. n \in Nat /\ MaxEntries \in Nat
  BY ReadsAssumption
<1>3. Len(reads) = n
  <2>1. reads \in Seq(BOOLEAN)
    BY <1>1, <1>2, SeqDef
  <2> QED BY <1>1, <1>2, <2>1, LenProperties
<1> DEFINE m == Min({n, MaxEntries})
<1>4. m \in Nat
  BY <1>2, LesserTyped
<1>5. slots = [i \in 1..m |-> Open] /\ ~rendered
  BY <1>3 DEF ReadInit
<1> HIDE DEF m
<1>6. SlotsOK(slots, m)
  BY <1>5 DEF SlotsOK
<1> QED BY <1>4, <1>5, <1>6 DEF ReadInv

LEMMA ReadStep ==
    ASSUME ReadInv, [ReadNext]_readVars
    PROVE  ReadInv'
<1>1. PICK m \in Nat : SlotsOK(slots, m)
  BY DEF ReadInv
<1>2. CASE Render
  BY <1>1, <1>2 DEF Render, ReadInv
<1>3. CASE \E i \in DOMAIN slots : Expand(i)
  <2>1. PICK i \in DOMAIN slots : Expand(i)
    BY <1>3
  <2>2. PICK n \in WalkGlob(reads[i]) : slots' = [slots EXCEPT ![i] = [k \in 1..n |-> <<i, k>>]]
    BY <2>1 DEF Expand
  <2>3. n \in Nat
    <3>1. WalkGlob(reads[i]) = {1} \/ WalkGlob(reads[i]) = 0..Min({MaxMatches, MaxTotalFiles})
      BY DEF WalkGlob
    <3>2. Min({MaxMatches, MaxTotalFiles}) \in Nat
      <4>1. MaxMatches \in Nat /\ MaxTotalFiles \in Nat
        BY ReadsAssumption
      <4> QED BY <4>1, LesserTyped
    <3> QED BY <2>2, <3>1, <3>2
  <2> DEFINE e == [k \in 1..n |-> <<i, k>>]
  <2>4. i \in 1..m /\ slots' = [slots EXCEPT ![i] = e]
    BY <1>1, <2>2 DEF SlotsOK
  <2> HIDE DEF e
  <2>5. /\ DOMAIN slots' = 1..m /\ slots' = [j \in 1..m |-> slots'[j]]
        /\ slots'[i] = e /\ \A j \in 1..m : j # i => slots'[j] = slots[j]
    BY <1>1, <2>4 DEF SlotsOK
  <2>6. SlotsOK(slots', m)
    BY <1>1, <2>3, <2>5 DEF SlotsOK, e
  <2>7. ~rendered'
    BY <2>1 DEF Expand, ReadInv
  <2> QED BY <2>6, <2>7 DEF ReadInv
<1>4. CASE UNCHANGED readVars
  BY <1>4 DEF ReadInv, readVars
<1> QED BY <1>2, <1>3, <1>4 DEF ReadNext

LEMMA ExpansionsAre ==
    ASSUME NEW m \in Nat, NEW ss, SlotsOK(ss, m), \A i \in 1..m : ss[i] # Open
    PROVE  Expansions(ss, m)
<1>1. ASSUME NEW i \in 1..m
      PROVE  ss[i] \in Seq(Files) /\ \A k \in Nat : k \in 1..Len(ss[i]) => ss[i][k] = <<i, k>>
  <2>1. PICK n \in Nat : ss[i] = [k \in 1..n |-> <<i, k>>]
    BY <1>1 DEF SlotsOK
  <2> DEFINE s == ss[i]
  <2>2. s \in [1..n -> Files] /\ \A k \in 1..n : s[k] = <<i, k>>
    BY <2>1 DEF Files
  <2> HIDE DEF s
  <2>3. s \in Seq(Files)
    BY <2>2, SeqDef
  <2>4. Len(s) = n
    BY <2>2, <2>3, LenProperties
  <2> QED BY <2>2, <2>3, <2>4 DEF s
<1>2. ss \in [1..m -> Seq(Files)]
  BY <1>1 DEF SlotsOK
<1> QED BY <1>1, <1>2 DEF Expansions

\* The answer of multi_read follows the call, whatever order the goroutines of its globs end in:
\* no file is left out below the cap of maxTotalFiles, and none that comes before one shown.
THEOREM ReadsFollowTheCall == ReadInit /\ [][ReadNext]_readVars => []ReadsInOrder
<1>1. ReadInv /\ [ReadNext]_readVars => ReadInv'
  BY ReadStep
<1>2. ReadInv => ReadsInOrder
  <2> SUFFICES ASSUME ReadInv, rendered
               PROVE  LET all == UNION {ToSet(slots[i]) : i \in DOMAIN slots}
                      IN /\ \A x, y \in 1..Len(expanded) : x < y => Precedes(expanded[x], expanded[y])
                         /\ Len(expanded) <= MaxTotalFiles
                         /\ Len(expanded) < MaxTotalFiles => ToSet(expanded) = all
                         /\ \A f \in ToSet(expanded), g \in all : Precedes(g, f) => g \in ToSet(expanded)
    BY DEF ReadsInOrder, IsSorted, Precedes
  <2> DEFINE all == UNION {ToSet(slots[i]) : i \in DOMAIN slots}
             n == Len(expanded)
             shown == ToSet(expanded)
  <2>1. PICK m \in Nat : SlotsOK(slots, m)
    BY DEF ReadInv
  <2>2. \A i \in 1..m : slots[i] # Open
    BY <2>1 DEF ReadInv, SlotsOK
  <2>3. Expansions(slots, m)
    BY <2>1, <2>2, ExpansionsAre
  <2>4. AnswerOf(expanded, slots, m)
    BY <2>3, FlattenIs DEF ReadInv
  <2>5. /\ expanded \in Seq(Files) /\ n \in Nat /\ n <= MaxTotalFiles /\ DOMAIN expanded = 1..n
        /\ \A x \in 1..n : expanded[x] \in Files
    <3>1. expanded \in Seq(Files) /\ n <= MaxTotalFiles
      BY <2>4 DEF AnswerOf
    <3>2. n \in Nat /\ DOMAIN expanded = 1..n
      BY <3>1, LenProperties
    <3>3. \A x \in 1..n : expanded[x] \in Files
      BY <3>1, ElementOfSeq
    <3> QED BY <3>1, <3>2, <3>3
  <2>6. \A f : f \in shown <=> \E x \in 1..n : expanded[x] = f
    BY <2>5 DEF ToSet
  <2>7. \A f : f \in all <=> \E i \in 1..m : \E k \in 1..Len(slots[i]) : f = <<i, k>>
    <3>1. DOMAIN slots = 1..m
      BY <2>1 DEF SlotsOK
    <3>2. ASSUME NEW i \in 1..m
          PROVE  \A f : f \in ToSet(slots[i]) <=> \E k \in 1..Len(slots[i]) : f = <<i, k>>
      <4>1. slots[i] \in Seq(Files)
        BY <2>3 DEF Expansions
      <4>2. DOMAIN slots[i] = 1..Len(slots[i]) /\ Len(slots[i]) \in Nat
        BY <4>1, LenProperties
      <4>3. \A k \in 1..Len(slots[i]) : slots[i][k] = <<i, k>>
        BY <2>3, <4>2 DEF Expansions
      <4> QED BY <4>2, <4>3 DEF ToSet
    <3> QED BY <3>1, <3>2
  <2> HIDE DEF all, shown, n
  <2>8. shown \subseteq all
    <3> SUFFICES ASSUME NEW x \in 1..n PROVE expanded[x] \in all
      BY <2>6
    <3>1. /\ expanded[x] \in Files /\ expanded[x][1] \in 1..m
          /\ expanded[x][2] \in 1..Len(slots[expanded[x][1]])
      BY <2>4, <2>5 DEF AnswerOf, n
    <3>2. expanded[x] = <<expanded[x][1], expanded[x][2]>>
      BY <3>1 DEF Files
    <3> QED BY <2>7, <3>1, <3>2
  <2>9. ASSUME NEW g \in all, g \notin shown
        PROVE  n = MaxTotalFiles /\ \A f \in shown : Precedes(f, g)
    <3>1. PICK i \in 1..m : \E k \in 1..Len(slots[i]) : g = <<i, k>>
      BY <2>7
    <3>2. PICK k \in 1..Len(slots[i]) : g = <<i, k>>
      BY <3>1
    <3>3. \/ \E x \in 1..n : expanded[x] = g
          \/ n = MaxTotalFiles /\ \A x \in 1..n : Precedes(expanded[x], g)
      BY <2>4, <3>2 DEF AnswerOf, n
    <3> QED BY <2>6, <2>9, <3>3
  <2>10. all \subseteq Files
    <3>1. \A i \in 1..m : slots[i] \in Seq(Files)
      BY <2>3 DEF Expansions
    <3>2. \A i \in 1..m : Len(slots[i]) \in Nat
      BY <3>1, LenProperties
    <3> QED BY <2>7, <3>2 DEF Files
  <2>11. \A f \in shown, g \in all : Precedes(g, f) => g \in shown
    <3> SUFFICES ASSUME NEW f \in shown, NEW g \in all, Precedes(g, f), Precedes(f, g) PROVE FALSE
      BY <2>9
    <3>1. f \in Files /\ g \in Files
      BY <2>8, <2>10
    <3>2. f[1] \in Nat /\ f[2] \in Nat /\ g[1] \in Nat /\ g[2] \in Nat
      BY <3>1 DEF Files
    <3> QED BY <3>2 DEF Precedes
  <2>12. \A x, y \in 1..n : x < y => Precedes(expanded[x], expanded[y])
    BY <2>4 DEF AnswerOf, n
  <2>13. n < MaxTotalFiles => shown = all
    <3> SUFFICES ASSUME n < MaxTotalFiles, NEW g \in all, g \notin shown PROVE FALSE
      BY <2>8
    <3>1. n = MaxTotalFiles
      BY <2>9
    <3> QED BY <2>5, <3>1
  <2> QED BY <2>5, <2>11, <2>12, <2>13 DEF all, shown, n
<1> QED BY <1>1, <1>2, ReadStarts, PTL

-----------------------------------------------------------------------------
(* Blocks by indentation *)

\* A file of such lines.
IsIndented(ls) == Len(ls) \in Nat /\ \A i \in 1..Len(ls) : IsIndentedLine(ls[i])

\* A block ends at or behind its first line, at the last of the file or before a line of code that
\* is indented no deeper, and there is none before that.
LEMMA IndentEndIs ==
    ASSUME NEW ls, IsIndented(ls), NEW i \in 1..Len(ls)
    PROVE  LET end == FindIndentBlockEnd(ls, i) IN
              /\ end \in i..Len(ls)
              /\ \A j \in (i + 1)..end : ls[j].kind = "code" => ls[j].indent > ls[i].indent
              /\ end < Len(ls) => ls[end + 1].kind = "code" /\ ls[end + 1].indent <= ls[i].indent
<1> DEFINE n == Len(ls)
           stops == {j \in (i + 1)..n : ls[j].kind = "code" /\ ls[j].indent <= ls[i].indent}
           S == stops \cup {n + 1}
<1>1. n \in Nat /\ i \in 1..n /\ \A j \in 1..n : ls[j].indent \in Int
  BY DEF IsIndented, IsIndentedLine
<1>2. FindIndentBlockEnd(ls, i) = Min(S) - 1
  BY DEF FindIndentBlockEnd
<1> HIDE DEF n
<1>3. PICK m \in S : \A k \in S : m <= k
  <2>1. S \in SUBSET Int /\ S # {} /\ 0 \in Int /\ \A k \in S : 0 <= k
    BY <1>1
  <2> HIDE DEF S
  <2> QED BY <2>1, LeastExists
<1>4. Min(S) = m
  <2>1. S \in SUBSET Int
    BY <1>1
  <2> HIDE DEF S
  <2> QED BY <1>3, <2>1, MinIs
<1>5. m \in (i + 1)..(n + 1)
  BY <1>1, <1>3
<1>6. \A j \in (i + 1)..(m - 1) : ls[j].kind = "code" => ls[j].indent > ls[i].indent
  <2> SUFFICES ASSUME NEW j \in (i + 1)..(m - 1), ls[j].kind = "code", ~(ls[j].indent > ls[i].indent) PROVE FALSE
    OBVIOUS
  <2>1. j \in (i + 1)..n /\ j < m /\ j \in 1..n
    BY <1>1, <1>5
  <2>2. j \in stops
    BY <1>1, <2>1
  <2> QED BY <1>3, <2>1, <2>2
<1>7. m - 1 < n => m \in stops
  BY <1>1, <1>3
<1>8. m - 1 \in i..n /\ (m - 1) + 1 = m
  BY <1>1, <1>5
<1> QED BY <1>2, <1>4, <1>6, <1>7, <1>8 DEF n

\* The blocks reported for an indented file form a tree, whatever the limit: of two of them one
\* lies inside the other, indented deeper, or they share no line (scanner.go:1741-1858).
THEOREM IndentedBlocksNest ==
    ASSUME NEW ls, IsIndented(ls), NEW limit \in Nat
    PROVE  BlocksNest(ls, limit)
<1> DEFINE n == Len(ls)
           found == {i \in 1..n : /\ DocBefore(ls)[i] = "" /\ DocOpen(ls[i]) = "" /\ ls[i].sig
                                  /\ BlockMatchesPattern(ls, i, FindIndentBlockEnd(ls, i))}
           places == [i \in 1..n |-> i]
           order == InTurn(n, found)
           end(i) == FindIndentBlockEnd(ls, i)
           blocks == ExtractBlocksIndent(ls, limit)
<1>1. found \in SUBSET (1..n) /\ \A i \in found : ls[i].sig
  OBVIOUS
<1>2. blocks = [k \in 1..Min({limit, Len(order)}) |-> [line |-> order[k], endLine |-> end(order[k])]]
  BY Zenon DEF ExtractBlocksIndent
<1> HIDE DEF found
<1>3. n \in Nat
  BY DEF IsIndented, IsIndentedLine
<1>4. Len(order) \in Nat /\ \A k \in 1..Len(order) : order[k] \in found
  <2>1. places \in Seq(1..n) /\ Len(places) = n
    BY <1>3
  <2>2. Places(places, order, found, 0, n) /\ order \in Seq(1..n)
    <3>1. order = Those(places, found)
      BY DEF InTurn
    <3> HIDE DEF places, order
    <3> QED BY <2>1, <3>1, ThosePlaces, ThoseTyped
  <2> HIDE DEF order
  <2> QED BY <2>2, LenProperties DEF Places
<1>5. \A k \in 1..Min({limit, Len(order)}) : k \in 1..Len(order)
  <2> HIDE DEF order
  <2>1. {limit, Len(order)} \in SUBSET Int /\ \E m \in {limit, Len(order)} : \A k \in {limit, Len(order)} : m <= k
    BY <1>4
  <2>2. \A m \in {limit, Len(order)} : (\A k \in {limit, Len(order)} : m <= k) => Min({limit, Len(order)}) = m
    BY <2>1, MinIs
  <2> QED BY <1>4, <2>1, <2>2
<1>6. \A b \in ToSet(blocks) : b.line \in found /\ b.endLine = end(b.line)
  <2> SUFFICES ASSUME NEW b \in ToSet(blocks) PROVE b.line \in found /\ b.endLine = end(b.line)
    OBVIOUS
  <2> HIDE DEF order, end, blocks
  <2>1. PICK k \in 1..Min({limit, Len(order)}) : b = [line |-> order[k], endLine |-> end(order[k])]
    BY <1>2 DEF ToSet
  <2> QED BY <1>4, <1>5, <2>1
<1>7. SUFFICES ASSUME NEW i \in found, NEW j \in found, i < j
               PROVE  IF j <= end(i) THEN end(j) <= end(i) /\ ls[j].indent > ls[i].indent ELSE end(i) < j
  <2> HIDE DEF found, end, blocks
  <2>1. \A a, b \in ToSet(blocks) : a.line < b.line =>
           IF b.line <= a.endLine
           THEN b.endLine <= a.endLine /\ ls[b.line].indent > ls[a.line].indent
           ELSE a.endLine < b.line
    BY <1>6, <1>7
  <2> QED BY <2>1 DEF BlocksNest, blocks
<1>8. /\ i \in 1..n /\ j \in 1..n /\ ls[j].kind = "code" /\ ls[i].indent \in Int /\ ls[j].indent \in Int
  BY <1>1 DEF IsIndented, IsIndentedLine
<1>9. /\ end(i) \in i..n
      /\ \A k \in (i + 1)..end(i) : ls[k].kind = "code" => ls[k].indent > ls[i].indent
      /\ end(i) < n => ls[end(i) + 1].kind = "code" /\ ls[end(i) + 1].indent <= ls[i].indent
  BY <1>8, IndentEndIs
<1>10. /\ end(j) \in j..n
       /\ \A k \in (j + 1)..end(j) : ls[k].kind = "code" => ls[k].indent > ls[j].indent
  BY <1>8, IndentEndIs
<1>11. \A k \in 1..n : ls[k].indent \in Int
  BY DEF IsIndented, IsIndentedLine
<1> HIDE DEF end, n
<1>12. CASE j <= end(i)
  <2>1. ls[j].indent > ls[i].indent
    BY <1>3, <1>7, <1>8, <1>9, <1>12
  <2>2. ASSUME end(i) < end(j) PROVE FALSE
    <3>1. end(i) < n /\ end(i) + 1 \in (j + 1)..end(j) /\ end(i) + 1 \in 1..n
      BY <1>3, <1>8, <1>9, <1>10, <1>12, <2>2
    <3>2. ls[end(i) + 1].indent <= ls[i].indent /\ ls[end(i) + 1].indent > ls[j].indent
      BY <1>9, <1>10, <3>1
    <3> QED BY <1>8, <1>11, <2>1, <3>1, <3>2
  <2>3. end(j) <= end(i)
    BY <1>3, <1>8, <1>9, <1>10, <2>2
  <2> QED BY <1>12, <2>1, <2>3
<1>13. CASE ~(j <= end(i))
  BY <1>3, <1>8, <1>9, <1>13
<1> QED BY <1>12, <1>13

-----------------------------------------------------------------------------
(* The tools together *)

\* What a text of each tool is made of, and that it is made of nothing else.
Letters(t) == UNION {{p[k] : k \in DOMAIN p} : p \in Pieces[t]}
TextInv ==
    /\ tool \in DOMAIN Pieces \cup {"blocks", "reads"}
    /\ tool \in DOMAIN Pieces => text \in Seq(Letters(tool))
    /\ query \in IF tool \in DOMAIN Asked THEN Asked[tool] ELSE {<<>>}
    /\ tool = "match" => WellFormed(text) /\ WellFormed(query)

\* Texts in UTF-8 are joined to a text in UTF-8.
LEMMA WellFormedJoins ==
    ASSUME NEW D, NEW s \in Seq(D), NEW t \in Seq(D), WellFormed(s), WellFormed(t)
    PROVE  WellFormed(s \o t)
<1> DEFINE u == s \o t
           m == Len(s)
           n == Len(t)
<1>1. m \in Nat /\ n \in Nat /\ Len(u) = m + n
      /\ \A i \in 1..(m + n) : u[i] = IF i <= m THEN s[i] ELSE t[i - m]
  BY ConcatProperties, LenProperties
<1>2. /\ \A i \in 1..m : Continues(s[i]) <=> i > 1 /\ s[i - 1] = "L"
      /\ m # 0 => s[m] # "L"
  BY DEF WellFormed
<1>3. /\ \A i \in 1..n : Continues(t[i]) <=> i > 1 /\ t[i - 1] = "L"
      /\ n # 0 => t[n] # "L"
  BY DEF WellFormed
<1> HIDE DEF u, m, n
<1>4. ASSUME NEW i \in 1..(m + n) PROVE Continues(u[i]) <=> i > 1 /\ u[i - 1] = "L"
  <2>1. CASE i <= m
    <3>1. i \in 1..m /\ u[i] = s[i] /\ (i > 1 => i - 1 \in 1..(m + n) /\ u[i - 1] = s[i - 1])
      BY <1>1, <2>1
    <3> QED BY <1>2, <3>1
  <2>2. CASE i = m + 1
    <3>1. 1 \in 1..n /\ u[i] = t[1] /\ (i > 1 => i - 1 \in 1..(m + n) /\ m # 0 /\ u[i - 1] = s[m])
      BY <1>1, <2>2
    <3> QED BY <1>2, <1>3, <3>1
  <2>3. CASE i > m + 1
    <3>1. i - m \in 1..n /\ i - m > 1 /\ i > 1 /\ u[i] = t[i - m] /\ u[i - 1] = t[(i - m) - 1]
      BY <1>1, <2>3
    <3> QED BY <1>3, <3>1
  <2> QED BY <1>1, <2>1, <2>2, <2>3
<1>5. ASSUME m + n # 0 PROVE u[m + n] # "L"
  <2>1. CASE n = 0
    BY <1>1, <1>2, <1>5, <2>1
  <2>2. CASE n # 0
    BY <1>1, <1>3, <2>2
  <2> QED BY <2>1, <2>2
<1>6. u = <<>> => m + n = 0
  BY <1>1
<1> QED BY <1>1, <1>4, <1>5, <1>6 DEF WellFormed, u

LEMMA NothingIsWellFormed == WellFormed(<<>>)
<1> QED BY DEF WellFormed

LEMMA PieceTyped ==
    ASSUME NEW t \in DOMAIN Pieces, NEW p \in Pieces[t]
    PROVE  p \in Seq(Letters(t))
<1> DEFINE mine == {p[k] : k \in DOMAIN p}
<1>1. p \in Seq(mine)
  BY TextAssumption
<1>2. mine \subseteq Letters(t)
  BY DEF Letters
<1> HIDE DEF mine
<1> QED BY <1>1, <1>2

LEMMA TextStarts == TextInit => TextInv
<1> SUFFICES ASSUME TextInit PROVE TextInv
  OBVIOUS
<1>1. tool = "match" => WellFormed(text) /\ WellFormed(query)
  <2> SUFFICES ASSUME tool = "match" PROVE WellFormed(text) /\ WellFormed(query)
    OBVIOUS
  <2>1. text = <<>>
    BY DEF TextInit
  <2>2. CASE tool \in DOMAIN Asked
    <3>1. query \in Asked["match"]
      BY <2>2 DEF TextInit
    <3> QED BY <2>1, <2>2, <3>1, NothingIsWellFormed, TextAssumption
  <2>3. CASE tool \notin DOMAIN Asked
    <3>1. query = <<>>
      BY <2>3 DEF TextInit
    <3> QED BY Zenon, <2>1, <3>1, NothingIsWellFormed
  <2> QED BY <2>2, <2>3
<1> QED BY <1>1 DEF TextInit, TextInv

LEMMA TextStep == TextInv /\ [TextNext]_allVars => TextInv'
<1> SUFFICES ASSUME TextInv, [TextNext]_allVars PROVE TextInv'
  OBVIOUS
<1>1. CASE TypeText
  <2>1. PICK p \in Pieces[tool] : text' = text \o p
    BY <1>1 DEF TypeText
  <2>2. tool \in DOMAIN Pieces /\ tool' = tool /\ query' = query
    BY <1>1 DEF TypeText
  <2>3. text \in Seq(Letters(tool)) /\ p \in Seq(Letters(tool))
    BY <2>2, PieceTyped DEF TextInv
  <2>4. ASSUME tool = "match" PROVE WellFormed(text \o p)
    <3>1. p \in Pieces["match"] /\ "match" \in DOMAIN Pieces
      BY <1>1, <2>1, <2>2, <2>4 DEF TypeText
    <3>2. WellFormed(p)
      BY <3>1, TextAssumption
    <3>3. WellFormed(text)
      BY <2>4 DEF TextInv
    <3> QED BY <2>3, <3>2, <3>3, WellFormedJoins
  <2>5. text' \in Seq(Letters(tool))
    BY <2>1, <2>3
  <2> QED BY Zenon, <2>1, <2>2, <2>4, <2>5 DEF TextInv, Letters
<1>2. CASE UNCHANGED textVars
  BY <1>2 DEF TextInv, textVars
<1> QED BY <1>1, <1>2 DEF TextNext, ScanBlocks, ReadEntries, allVars

LEMMA TextHolds == TextSpec => []TextInv
<1> QED BY TextStarts, TextStep, PTL DEF TextSpec

\* Whatever tool runs, the scan of blocks and multi_read take their own steps or none.
LEMMA ScanRuns == TextSpec => Spec
<1>1. TextInit => Init
  BY DEF TextInit
<1>2. [TextNext]_allVars => [Next]_vars
  BY DEF TextNext, TypeText, ScanBlocks, ReadEntries, allVars, vars
<1> QED BY <1>1, <1>2, PTL DEF TextSpec, Spec

LEMMA ReadsRun == TextSpec => ReadInit /\ [][ReadNext]_readVars
<1>1. TextInit => ReadInit
  BY DEF TextInit
<1>2. [TextNext]_allVars => [ReadNext]_readVars
  BY DEF TextNext, TypeText, ScanBlocks, ReadEntries, allVars, readVars
<1> QED BY <1>1, <1>2, PTL DEF TextSpec

\* What is proved of each of them holds of the composition: the blocks of every file and the
\* reads of every call (scanner.go:974-1029, tools/multiread/tool.go).
THEOREM ToolsKeepTheirPromises == TextSpec => [](BlockTypeOK /\ InnermostBlock /\ BodiesMatched /\ ReadsInOrder)
<1> QED BY ScanRuns, ReadsRun, BlocksTypeCorrect, InnermostIsRecorded, BodiesAreMatched, ReadsFollowTheCall, PTL

\* The jump scan of every line counts what the walk counts (scanner.go:1173-1233, 1295-1320).
THEOREM ScansAgreeOnLines == TextSpec => []ScansAlwaysAgree
<1>1. TextInv => ScansAlwaysAgree
  BY JumpScanIsWalk DEF TextInv, ScansAlwaysAgree
<1> QED BY <1>1, TextHolds, PTL

\* The blocks of every indented file form a tree (scanner.go:1741-1858).
THEOREM IndentedFilesAreTrees == TextSpec => []IndentTree
<1>1. TextInv => IndentTree
  <2> SUFFICES ASSUME TextInv, tool = "indent", NEW n \in 1..BlockLimit PROVE BlocksNest(text, n)
    BY DEF IndentTree
  <2>0. "indent" \in DOMAIN Pieces
    BY DEF TextInv
  <2>1. text \in Seq(Letters("indent"))
    BY <2>0 DEF TextInv
  <2>2. Len(text) \in Nat /\ \A i \in 1..Len(text) : text[i] \in Letters("indent")
    BY <2>1
  <2>3. \A l \in Letters("indent") : IsIndentedLine(l)
    BY <2>0, TextAssumption DEF Letters
  <2>4. n \in Nat
    BY TextAssumption
  <2> QED BY <2>2, <2>3, <2>4, IndentedBlocksNest DEF IsIndented
<1> QED BY <1>1, TextHolds, PTL

-----------------------------------------------------------------------------
(* Globs *)

\* Where a cover can stand: at an element of the pattern, or behind the last, and so in the text.
Cells(p, n) == (1..(p + 1)) \X (1..(n + 1))
IsCover(f, p, n, spans, takes) ==
    /\ f \in [Cells(p, n) -> BOOLEAN]
    /\ \A i \in 1..(p + 1), j \in 1..(n + 1) :
          f[<<i, j>>] <=> \/ i = p + 1 /\ j = n + 1
                          \/ i \in spans /\ \E m \in j..(n + 1) : f[<<i + 1, m>>]
                          \/ i \notin spans /\ <<i, j>> \in takes /\ f[<<i + 1, j + 1>>]

LEMMA CoversIs ==
    ASSUME NEW p \in Nat, NEW n \in Nat, NEW spans \in SUBSET (1..p), NEW takes \in SUBSET ((1..p) \X (1..n))
    PROVE  \E f : IsCover(f, p, n, spans, takes) /\ Covers(p, n, spans, takes) = f[<<1, 1>>]
<1> DEFINE B == BOOLEAN
           S == (1..(p + 1)) \X (1..(n + 1))
           body(f, at) == \/ at = <<p + 1, n + 1>>
                          \/ at[1] \in spans /\ \E m \in at[2]..(n + 1) : f[<<at[1] + 1, m>>]
                          \/ at[1] \notin spans /\ at \in takes /\ f[<<at[1] + 1, at[2] + 1>>]
           again(f) == [at \in S |-> body(f, at)]
           F == [f \in [S -> B] |-> again(f)]
           rank == [at \in S |-> p + 1 - at[1]]
<1>1. \A f : again(f) \in [S -> B]
  <2>1. \A f, at : body(f, at) \in B
    OBVIOUS
  <2> HIDE DEF body, S, B
  <2> QED BY <2>1
<1>2. rank \in [S -> 0..p] /\ \A at \in S : at[1] \in 1..(p + 1) /\ at[2] \in 1..(n + 1) /\ at = <<at[1], at[2]>>
  OBVIOUS
<1>3. ASSUME NEW f \in [S -> B], NEW g \in [S -> B], NEW at \in S,
             \A b \in S : rank[b] < rank[at] => f[b] = g[b]
      PROVE  body(f, at) = body(g, at)
  <2>1. at[1] \in 1..(p + 1) /\ at[2] \in 1..(n + 1)
    BY <1>2
  <2>2. at[1] <= p => \A m \in at[2]..(n + 1) : f[<<at[1] + 1, m>>] = g[<<at[1] + 1, m>>]
    <3> SUFFICES ASSUME at[1] <= p, NEW m \in at[2]..(n + 1) PROVE f[<<at[1] + 1, m>>] = g[<<at[1] + 1, m>>]
      OBVIOUS
    <3>1. <<at[1] + 1, m>> \in S /\ rank[<<at[1] + 1, m>>] = p - at[1] /\ rank[at] = p + 1 - at[1]
      BY <2>1
    <3> HIDE DEF S, rank
    <3> QED BY <1>3, <2>1, <3>1
  <2>3. at \in takes => at[1] <= p /\ at[2] + 1 \in at[2]..(n + 1)
    BY <2>1
  <2>4. at[1] \in spans => at[1] <= p
    OBVIOUS
  <2>5. body(f, at) <=> body(g, at)
    <3> HIDE DEF S, rank, B
    <3> QED BY <2>1, <2>2, <2>3, <2>4
  <2> HIDE DEF body
  <2> QED BY <1>1, <2>5
<1>4. \E f \in [S -> B] : F[f] = f
  <2>1. F \in [[S -> B] -> [S -> B]]
    BY <1>1
  <2>2. \A f, g \in [S -> B], at \in S :
           (\A b \in S : rank[b] < rank[at] => f[b] = g[b]) => F[f][at] = F[g][at]
    <3> TAKE f, g \in [S -> B], at \in S
    <3> HAVE \A b \in S : rank[b] < rank[at] => f[b] = g[b]
    <3>1. body(f, at) = body(g, at)
      BY <1>3
    <3> HIDE DEF body, S, B, rank
    <3> QED BY <3>1
  <2>3. B # {}
    OBVIOUS
  <2>4. IsRanked(S, B, p, rank, F)
    <3> HIDE DEF S, F, rank, B
    <3> QED BY <1>2, <2>1, <2>2, <2>3 DEF IsRanked
  <2> HIDE DEF S, F, rank, B
  <2> QED BY <2>4, RankedExists
<1> DEFINE w == CHOOSE f : f = again(f)
<1>5. w = again(w)
  <2> HIDE DEF again, S, B
  <2> QED BY <1>4
<1>6. Covers(p, n, spans, takes) = w[<<1, 1>>]
  BY Zenon DEF Covers
<1> HIDE DEF w
<1>7. w \in [S -> BOOLEAN]
  <2>1. again(w) \in [S -> B]
    BY <1>1
  <2> HIDE DEF again, S
  <2> QED BY <1>5, <2>1
<1>8. ASSUME NEW i \in 1..(p + 1), NEW j \in 1..(n + 1)
      PROVE  w[<<i, j>>] <=> \/ i = p + 1 /\ j = n + 1
                             \/ i \in spans /\ \E m \in j..(n + 1) : w[<<i + 1, m>>]
                             \/ i \notin spans /\ <<i, j>> \in takes /\ w[<<i + 1, j + 1>>]
  <2>1. <<i, j>> \in S /\ <<i, j>>[1] = i /\ <<i, j>>[2] = j /\ (<<i, j>> = <<p + 1, n + 1>> <=> i = p + 1 /\ j = n + 1)
    OBVIOUS
  <2>2. w[<<i, j>>] = body(w, <<i, j>>)
    <3> HIDE DEF S, body
    <3> QED BY <1>5, <2>1
  <2>3. w[<<i, j>>] <=> body(w, <<i, j>>)
    BY <2>2
  <2> QED BY <2>1, <2>3
<1> QED BY <1>6, <1>7, <1>8 DEF IsCover, Cells

\* What is left of a scan of the greedy matcher: characters for the last star to take, then
\* elements of the pattern and characters of the name.
Left(P, N) == [s \in Scans(P, N) |-> (N + 1 - s.mark) * (P + N + 3) + (P + 1 - s.p) + (N + 1 - s.n)]

LEMMA Multiples ==
    ASSUME NEW K \in Nat
    PROVE  \A x, y \in Nat : x * K \in Nat /\ (x < y => x * K + K <= y * K)
<1> SUFFICES ASSUME NEW x \in Nat, NEW y \in Nat PROVE x * K \in Nat /\ (x < y => x * K + K <= y * K)
  OBVIOUS
<1>1. x * K \in Nat
  OBVIOUS
<1>2. ASSUME x < y PROVE x * K + K <= y * K
  <2> DEFINE d == y - x - 1
  <2>1. d \in Nat /\ y = x + 1 + d /\ d * K \in Nat
    BY <1>2
  <2> HIDE DEF d
  <2>2. (x + 1 + d) * K = x * K + K + d * K
    BY <2>1
  <2> QED BY <1>1, <2>1, <2>2
<1> QED BY <1>1, <1>2

LEMMA ScanTyped ==
    ASSUME NEW P \in Nat, NEW N \in Nat, NEW s \in Scans(P, N)
    PROVE  /\ s.p \in 1..(P + 1) /\ s.n \in 1..(N + 1) /\ s.star \in 0..P /\ s.mark \in 1..(N + 1) /\ s.mark <= s.n
           /\ s = Scan(s.p, s.n, s.star, s.mark)
<1> QED BY DEF Scans, Scan

LEMMA LeftTyped ==
    ASSUME NEW P \in Nat, NEW N \in Nat
    PROVE  /\ (N + 1) * (P + N + 3) + P + N + 2 \in Nat
           /\ Left(P, N) \in [Scans(P, N) -> 0..((N + 1) * (P + N + 3) + P + N + 2)]
<1> DEFINE K == P + N + 3
           y == (N + 1) * K
           most == y + P + N + 2
<1>1. K \in Nat /\ y \in Nat /\ N + 1 \in Nat
  <2>1. K \in Nat /\ N + 1 \in Nat
    OBVIOUS
  <2> HIDE DEF K
  <2> QED BY <2>1, Multiples
<1>2. ASSUME NEW s \in Scans(P, N)
      PROVE  (N + 1 - s.mark) * K + (P + 1 - s.p) + (N + 1 - s.n) \in 0..most
  <2> DEFINE x == (N + 1 - s.mark) * K
             u == P + 1 - s.p
             v == N + 1 - s.n
  <2>1. s.p \in 1..(P + 1) /\ s.n \in 1..(N + 1) /\ s.mark \in 1..(N + 1)
    BY ScanTyped
  <2>2. N + 1 - s.mark \in Nat /\ N + 1 - s.mark < N + 1 /\ u \in 0..P /\ v \in 0..N
    BY <2>1
  <2>3. x \in Nat /\ x + K <= y
    <3> HIDE DEF K
    <3> QED BY <1>1, <2>2, Multiples
  <2>4. x + P + N + 3 <= y
    <3> HIDE DEF x, y
    <3> QED BY <2>3
  <2> HIDE DEF x, y, u, v
  <2>5. x + u + v \in 0..most
    BY <1>1, <2>2, <2>3, <2>4
  <2> QED BY <2>5 DEF x, u, v
<1> DEFINE r(s) == (N + 1 - s.mark) * K + (P + 1 - s.p) + (N + 1 - s.n)
<1>3. Left(P, N) = [s \in Scans(P, N) |-> r(s)]
  BY DEF Left
<1>4. \A s \in Scans(P, N) : r(s) \in 0..most
  <2> HIDE DEF most, K
  <2> QED BY <1>2
<1>5. Left(P, N) \in [Scans(P, N) -> 0..most]
  <2> HIDE DEF r, most
  <2> QED BY <1>3, <1>4
<1>6. most \in Nat
  <2> HIDE DEF y
  <2> QED BY <1>1
<1> QED BY <1>5, <1>6

\* Every step of the matcher leaves less.
LEMMA ScanSteps ==
    ASSUME NEW P \in Nat, NEW N \in Nat, NEW s \in Scans(P, N), s.n <= N
    PROVE  LET Less(t) == t \in Scans(P, N) /\ Left(P, N)[t] < Left(P, N)[s] IN
           /\ s.p <= P => Less(Scan(s.p + 1, s.n + 1, s.star, s.mark)) /\ Less(Scan(s.p + 1, s.n, s.p, s.n))
           /\ Less(Scan(s.star + 1, s.mark + 1, s.star, s.mark + 1))
<1> DEFINE K == P + N + 3
           Less(t) == t \in Scans(P, N) /\ Left(P, N)[t] < Left(P, N)[s]
<1>1. s.p \in 1..(P + 1) /\ s.n \in 1..N /\ s.star \in 0..P /\ s.mark \in 1..N /\ s.mark <= s.n
  BY ScanTyped
<1>2. \A p \in 1..(P + 1), n \in 1..(N + 1), star \in 0..P, mark \in 1..(N + 1) :
         mark <= n => /\ Scan(p, n, star, mark) \in Scans(P, N)
                      /\ Left(P, N)[Scan(p, n, star, mark)] = (N + 1 - mark) * K + (P + 1 - p) + (N + 1 - n)
  BY DEF Scans, Scan, Left
<1>3. Left(P, N)[s] = (N + 1 - s.mark) * K + (P + 1 - s.p) + (N + 1 - s.n)
  BY DEF Left
<1>4. \A x, y \in Nat : x * K \in Nat /\ (x < y => x * K + K <= y * K)
  <2>1. K \in Nat
    OBVIOUS
  <2> HIDE DEF K
  <2> QED BY <2>1, Multiples
<1> DEFINE before == (N + 1 - s.mark) * K
           taken == (N + 1 - s.n) * K
           next == (N + 1 - (s.mark + 1)) * K
<1>5. before \in Nat /\ taken \in Nat /\ taken <= before /\ next \in Nat /\ next + K <= before
  <2>1. /\ N + 1 - s.mark \in Nat /\ N + 1 - s.n \in Nat /\ N + 1 - (s.mark + 1) \in Nat
        /\ N + 1 - (s.mark + 1) < N + 1 - s.mark /\ N + 1 - s.n <= N + 1 - s.mark
    BY <1>1
  <2>2. K \in Nat
    OBVIOUS
  <2>3. taken = before \/ taken + K <= before
    <3>1. CASE s.n = s.mark
      BY <3>1
    <3>2. CASE s.n # s.mark
      <4>1. N + 1 - s.n < N + 1 - s.mark
        BY <1>1, <3>2
      <4> HIDE DEF K
      <4> QED BY <1>4, <2>1, <4>1
    <3> QED BY <3>1, <3>2
  <2>4. before \in Nat /\ taken \in Nat /\ next \in Nat /\ next + K <= before
    <3> HIDE DEF K
    <3> QED BY <1>4, <2>1
  <2> HIDE DEF K, before, taken, next
  <2> QED BY <2>2, <2>3, <2>4
<1>6. s.p <= P => Less(Scan(s.p + 1, s.n + 1, s.star, s.mark))
  <2> SUFFICES ASSUME s.p <= P PROVE Less(Scan(s.p + 1, s.n + 1, s.star, s.mark))
    OBVIOUS
  <2>1. s.p + 1 \in 1..(P + 1) /\ s.n + 1 \in 1..(N + 1) /\ s.mark <= s.n + 1 /\ s.mark \in 1..(N + 1)
    BY <1>1
  <2>2. /\ Scan(s.p + 1, s.n + 1, s.star, s.mark) \in Scans(P, N)
        /\ Left(P, N)[Scan(s.p + 1, s.n + 1, s.star, s.mark)] = before + (P + 1 - (s.p + 1)) + (N + 1 - (s.n + 1))
    <3> HIDE DEF K
    <3> QED BY <1>1, <1>2, <2>1
  <2> HIDE DEF before
  <2> QED BY <1>1, <1>3, <1>5, <2>2 DEF before
<1>7. s.p <= P => Less(Scan(s.p + 1, s.n, s.p, s.n))
  <2> SUFFICES ASSUME s.p <= P PROVE Less(Scan(s.p + 1, s.n, s.p, s.n))
    OBVIOUS
  <2>1. s.p + 1 \in 1..(P + 1) /\ s.n \in 1..(N + 1) /\ s.p \in 0..P
    BY <1>1
  <2>2. /\ Scan(s.p + 1, s.n, s.p, s.n) \in Scans(P, N)
        /\ Left(P, N)[Scan(s.p + 1, s.n, s.p, s.n)] = taken + (P + 1 - (s.p + 1)) + (N + 1 - s.n)
    <3> HIDE DEF K
    <3> QED BY <1>1, <1>2, <2>1
  <2> HIDE DEF taken
  <2> QED BY <1>1, <1>3, <1>5, <2>2
<1>8. Less(Scan(s.star + 1, s.mark + 1, s.star, s.mark + 1))
  <2>1. s.star + 1 \in 1..(P + 1) /\ s.mark + 1 \in 1..(N + 1)
    BY <1>1
  <2>2. /\ Scan(s.star + 1, s.mark + 1, s.star, s.mark + 1) \in Scans(P, N)
        /\ Left(P, N)[Scan(s.star + 1, s.mark + 1, s.star, s.mark + 1)]
              = next + (P + 1 - (s.star + 1)) + (N + 1 - (s.mark + 1))
    <3> HIDE DEF K
    <3> QED BY <1>1, <1>2, <2>1
  <2> HIDE DEF next, before
  <2> QED BY <1>1, <1>3, <1>5, <2>2 DEF before
<1> HIDE DEF K
<1> QED BY <1>6, <1>7, <1>8

\* One step of the matcher, given what it finds `later`.
ScanStep(later, pattern, name, s) ==
    LET P == Len(pattern)  N == Len(name) IN
    IF s.n > N THEN \A k \in s.p..P : pattern[k] = "*"
    ELSE IF s.p <= P /\ pattern[s.p] \in {"?", name[s.n]} THEN later[Scan(s.p + 1, s.n + 1, s.star, s.mark)]
    ELSE IF s.p <= P /\ pattern[s.p] = "*" THEN later[Scan(s.p + 1, s.n, s.p, s.n)]
    ELSE s.star > 0 /\ later[Scan(s.star + 1, s.mark + 1, s.star, s.mark + 1)]
IsScan(h, pattern, name) ==
    /\ h \in [Scans(Len(pattern), Len(name)) -> BOOLEAN]
    /\ \A s \in Scans(Len(pattern), Len(name)) : h[s] <=> ScanStep(h, pattern, name, s)

LEMMA MatchSimpleIs ==
    ASSUME NEW pattern, NEW name, Len(pattern) \in Nat, Len(name) \in Nat
    PROVE  \E h : IsScan(h, pattern, name) /\ MatchSimple(pattern, name) = h[Scan(1, 1, 0, 1)]
<1> DEFINE P == Len(pattern)
           N == Len(name)
           S == Scans(P, N)
           B == BOOLEAN
           step(f, s) == IF s.n > N THEN \A k \in s.p..P : pattern[k] = "*"
                         ELSE IF s.p <= P /\ pattern[s.p] \in {"?", name[s.n]}
                         THEN f[Scan(s.p + 1, s.n + 1, s.star, s.mark)]
                         ELSE IF s.p <= P /\ pattern[s.p] = "*"
                         THEN f[Scan(s.p + 1, s.n, s.p, s.n)]
                         ELSE s.star > 0 /\ f[Scan(s.star + 1, s.mark + 1, s.star, s.mark + 1)]
           again(f) == [s \in S |-> step(f, s)]
           F == [f \in [S -> B] |-> again(f)]
           rank == Left(P, N)
           most == (N + 1) * (P + N + 3) + P + N + 2
<1>1. P \in Nat /\ N \in Nat
  OBVIOUS
<1>2. ASSUME NEW f, NEW s \in S PROVE step(f, s) = ScanStep(f, pattern, name, s)
  BY Zenon DEF ScanStep
<1> HIDE DEF step
<1>3. ASSUME NEW f \in [S -> B], NEW s \in S PROVE ScanStep(f, pattern, name, s) \in B
  <2>1. \A t \in S : f[t] \in BOOLEAN
    OBVIOUS
  <2>2. CASE s.n > N
    BY <2>2 DEF ScanStep
  <2>3. CASE s.n <= N
    <3>1. /\ s.p <= P => Scan(s.p + 1, s.n + 1, s.star, s.mark) \in S /\ Scan(s.p + 1, s.n, s.p, s.n) \in S
      BY <1>1, <2>3, ScanSteps
    <3> HIDE DEF S
    <3>2. ~(s.n > N)
      BY <2>3, ScanTyped, <1>1 DEF S
    <3> QED BY <2>1, <3>1, <3>2 DEF ScanStep
  <2> QED BY <1>1, <2>2, <2>3, ScanTyped
<1>4. ASSUME NEW f, NEW g, NEW s \in S, \A t \in S : rank[t] < rank[s] => f[t] = g[t]
      PROVE  ScanStep(f, pattern, name, s) = ScanStep(g, pattern, name, s)
  <2>1. CASE s.n > N
    BY <2>1 DEF ScanStep
  <2>2. CASE s.n <= N
    <3>1. /\ s.p <= P => /\ f[Scan(s.p + 1, s.n + 1, s.star, s.mark)] = g[Scan(s.p + 1, s.n + 1, s.star, s.mark)]
                         /\ f[Scan(s.p + 1, s.n, s.p, s.n)] = g[Scan(s.p + 1, s.n, s.p, s.n)]
          /\ f[Scan(s.star + 1, s.mark + 1, s.star, s.mark + 1)] = g[Scan(s.star + 1, s.mark + 1, s.star, s.mark + 1)]
      BY <1>1, <1>4, <2>2, ScanSteps
    <3>2. ~(s.n > N)
      BY <2>2, ScanTyped, <1>1 DEF S
    <3> HIDE DEF S, rank
    <3> QED BY <3>1, <3>2 DEF ScanStep
  <2> QED BY <1>1, <2>1, <2>2, ScanTyped
<1>5. rank \in [S -> 0..most] /\ most \in Nat
  BY <1>1, LeftTyped
<1>6. \E f \in [S -> B] : F[f] = f
  <2>1. IsRanked(S, B, most, rank, F)
    <3>1. F \in [[S -> B] -> [S -> B]]
      <4> HIDE DEF S, B
      <4> QED BY <1>2, <1>3
    <3>2. B # {}
      OBVIOUS
    <3>3. \A f, g \in [S -> B], s \in S :
             (\A t \in S : rank[t] < rank[s] => f[t] = g[t]) => F[f][s] = F[g][s]
      <4> HIDE DEF S, B, rank
      <4> QED BY <1>2, <1>4
    <3> HIDE DEF S, B, most, rank, F
    <3> QED BY <1>5, <3>1, <3>2, <3>3 DEF IsRanked
  <2> HIDE DEF S, B, most, rank, F
  <2> QED BY <2>1, RankedExists
<1> DEFINE w == CHOOSE f : f = again(f)
<1>7. w = again(w)
  <2> HIDE DEF again, S, B
  <2> QED BY <1>6
<1>8. MatchSimple(pattern, name) = w[Scan(1, 1, 0, 1)]
  BY Zenon DEF MatchSimple, step
<1> HIDE DEF w
<1>9. w \in [S -> B]
  <2>1. PICK f \in [S -> B] : F[f] = f
    BY <1>6
  <2> DEFINE U == {s \in S : w[s] = f[s]}
  <2>2. ASSUME NEW s \in S, \A t \in S : rank[t] < rank[s] => t \in U PROVE s \in U
    <3>1. ScanStep(w, pattern, name, s) = ScanStep(f, pattern, name, s)
      <4> HIDE DEF S, B, rank, F
      <4> QED BY <1>4, <2>2
    <3>2. again(f) = f
      BY <2>1
    <3> HIDE DEF S, B, rank, F
    <3> QED BY <1>2, <1>7, <3>1, <3>2
  <2>3. rank \in [S -> Nat]
    <3> HIDE DEF S, rank, most
    <3> QED BY <1>5
  <2>4. S \subseteq U
    <3> HIDE DEF S, B, rank, F, U
    <3> QED BY <2>2, <2>3, RankedInduction
  <2>5. w = [s \in S |-> w[s]] /\ f = [s \in S |-> f[s]]
    <3> HIDE DEF S, B
    <3> QED BY <1>7
  <2> HIDE DEF S, B
  <2> QED BY <2>4, <2>5
<1>10. \A s \in S : w[s] <=> ScanStep(w, pattern, name, s)
  <2> HIDE DEF S
  <2> QED BY <1>2, <1>7
<1> QED BY <1>8, <1>9, <1>10 DEF IsScan

\* How a pattern covers a name that holds no star, when it has no class.
IsMatch(c, pattern, name) ==
    LET P == Len(pattern)  N == Len(name) IN
    /\ \A j \in 1..(N + 1) : c[<<P + 1, j>>] <=> j = N + 1
    /\ \A i \in 1..P, j \in 1..(N + 1) : pattern[i] = "*" =>
          (c[<<i, j>>] <=> \E m \in j..(N + 1) : c[<<i + 1, m>>])
    /\ \A i \in 1..P, j \in 1..(N + 1) : pattern[i] # "*" =>
          (c[<<i, j>>] <=> j <= N /\ pattern[i] \in {"?", name[j]} /\ c[<<i + 1, j + 1>>])

LEMMA FilepathMatchIs ==
    ASSUME NEW pattern, NEW name, Len(pattern) \in Nat, Len(name) \in Nat,
           \A i \in 1..Len(pattern) : pattern[i] # "["
    PROVE  \E c : IsMatch(c, pattern, name) /\ FilepathMatch(pattern, name) = c[<<1, 1>>]
<1> DEFINE P == Len(pattern)
           N == Len(name)
           spans == {i \in 1..P : pattern[i] = "*"}
           takes == {at \in (1..P) \X (1..N) : pattern[at[1]] \in {"?", name[at[2]]} /\ pattern[at[1]] # "["}
<1>1. FilepathMatch(pattern, name) = Covers(P, N, spans, takes)
  BY Zenon DEF FilepathMatch
<1>2. PICK c : IsCover(c, P, N, spans, takes) /\ Covers(P, N, spans, takes) = c[<<1, 1>>]
  <2>1. P \in Nat /\ N \in Nat /\ spans \in SUBSET (1..P) /\ takes \in SUBSET ((1..P) \X (1..N))
    OBVIOUS
  <2> HIDE DEF P, N, spans, takes
  <2> QED BY <2>1, CoversIs
<1>3. \A i \in 1..P : i \in spans <=> pattern[i] = "*"
  OBVIOUS
<1>4. \A i \in 1..P, j \in 1..(N + 1) : <<i, j>> \in takes <=> j <= N /\ pattern[i] \in {"?", name[j]}
  OBVIOUS
<1>5. P + 1 \notin spans /\ \A j : <<P + 1, j>> \notin takes
  OBVIOUS
<1>6. P \in Nat /\ N \in Nat
  OBVIOUS
<1> HIDE DEF P, N, spans, takes
<1>7. \A i \in 1..(P + 1), j \in 1..(N + 1) :
         c[<<i, j>>] <=> \/ i = P + 1 /\ j = N + 1
                         \/ i \in spans /\ \E m \in j..(N + 1) : c[<<i + 1, m>>]
                         \/ i \notin spans /\ <<i, j>> \in takes /\ c[<<i + 1, j + 1>>]
  BY <1>2 DEF IsCover
<1>8. \A j \in 1..(N + 1) : c[<<P + 1, j>>] <=> j = N + 1
  <2> TAKE j \in 1..(N + 1)
  <2>1. P + 1 \in 1..(P + 1)
    BY <1>6
  <2>2. c[<<P + 1, j>>] <=> \/ P + 1 = P + 1 /\ j = N + 1
                            \/ P + 1 \in spans /\ \E m \in j..(N + 1) : c[<<P + 1 + 1, m>>]
                            \/ P + 1 \notin spans /\ <<P + 1, j>> \in takes /\ c[<<P + 1 + 1, j + 1>>]
    BY <1>7, <2>1
  <2> QED BY <1>5, <2>2
<1>9. ASSUME NEW i \in 1..P, NEW j \in 1..(N + 1), pattern[i] = "*"
      PROVE  c[<<i, j>>] <=> \E m \in j..(N + 1) : c[<<i + 1, m>>]
  <2>1. i \in 1..(P + 1) /\ i # P + 1 /\ i \in spans
    BY <1>3, <1>6, <1>9
  <2> QED BY <1>7, <2>1
<1>10. ASSUME NEW i \in 1..P, NEW j \in 1..(N + 1), pattern[i] # "*"
       PROVE  c[<<i, j>>] <=> j <= N /\ pattern[i] \in {"?", name[j]} /\ c[<<i + 1, j + 1>>]
  <2>1. i \in 1..(P + 1) /\ i # P + 1 /\ i \notin spans
    BY <1>3, <1>6, <1>10
  <2>2. <<i, j>> \in takes <=> j <= N /\ pattern[i] \in {"?", name[j]}
    BY <1>4
  <2> QED BY <1>7, <2>1, <2>2
<1>11. IsMatch(c, pattern, name)
  BY <1>8, <1>9, <1>10 DEF IsMatch, P, N
<1> QED BY <1>1, <1>2, <1>11

\* At the end of the name only stars can be left.
LEMMA StarsAreLeft ==
    ASSUME NEW pattern, NEW name, NEW c, IsMatch(c, pattern, name), Len(pattern) \in Nat, Len(name) \in Nat
    PROVE  \A p \in 1..(Len(pattern) + 1) :
              c[<<p, Len(name) + 1>>] <=> \A k \in p..Len(pattern) : pattern[k] = "*"
<1> DEFINE P == Len(pattern)
           N == Len(name)
           S == 1..(P + 1)
           rank == [p \in S |-> P + 1 - p]
           U == {p \in S : c[<<p, N + 1>>] <=> \A k \in p..P : pattern[k] = "*"}
<1>1. P \in Nat /\ N \in Nat /\ rank \in [S -> Nat]
  OBVIOUS
<1>2. ASSUME NEW p \in S, \A q \in S : rank[q] < rank[p] => q \in U PROVE p \in U
  <2>1. CASE p = P + 1
    <3>1. c[<<P + 1, N + 1>>]
      BY <1>1 DEF IsMatch
    <3> QED BY <1>1, <2>1, <3>1
  <2>2. CASE p # P + 1
    <3>1. p \in 1..P /\ p + 1 \in S /\ rank[p + 1] < rank[p] /\ N + 1 \in 1..(N + 1) /\ ~(N + 1 <= N)
      BY <1>1, <2>2
    <3>2. c[<<p + 1, N + 1>>] <=> \A k \in (p + 1)..P : pattern[k] = "*"
      <4>1. p + 1 \in U
        BY <1>2, <3>1
      <4> QED BY <4>1
    <3>3. c[<<p, N + 1>>] <=> pattern[p] = "*" /\ c[<<p + 1, N + 1>>]
      <4>1. (N + 1)..(N + 1) = {N + 1}
        BY <1>1
      <4>2. pattern[p] = "*" => (c[<<p, N + 1>>] <=> \E m \in (N + 1)..(N + 1) : c[<<p + 1, m>>])
        <5>1. \A i \in 1..P, j \in 1..(N + 1) : pattern[i] = "*" =>
                 (c[<<i, j>>] <=> \E m \in j..(N + 1) : c[<<i + 1, m>>])
          BY DEF IsMatch
        <5> HIDE DEF P, N, rank, S
        <5> QED BY <3>1, <5>1
      <4>3. pattern[p] # "*" => ~c[<<p, N + 1>>]
        <5>1. \A i \in 1..P, j \in 1..(N + 1) : pattern[i] # "*" =>
                 (c[<<i, j>>] <=> j <= N /\ pattern[i] \in {"?", name[j]} /\ c[<<i + 1, j + 1>>])
          BY DEF IsMatch
        <5> HIDE DEF P, N, rank, S
        <5> QED BY <3>1, <5>1
      <4> HIDE DEF P, N
      <4> QED BY <4>1, <4>2, <4>3
    <3>4. \A k : k \in p..P <=> k = p \/ k \in (p + 1)..P
      BY <1>1, <3>1
    <3> QED BY <3>2, <3>3, <3>4
  <2> QED BY <2>1, <2>2
<1>3. S \subseteq U
  <2> HIDE DEF S, U, rank
  <2> QED BY <1>1, <1>2, RankedInduction
<1> QED BY <1>3

\* Where the scan stands, the name is matched, or the last star can take more.
Reaches(c, N, s) ==
    \/ c[<<s.p, s.n>>]
    \/ s.star > 0 /\ \E m \in (s.mark + 1)..(N + 1) : c[<<s.star + 1, m>>]

\* What stands behind the last star takes one character for each element.
Behind(c, pattern, N, s) ==
    s.star > 0 => /\ s.star < s.p /\ pattern[s.star] = "*"
                  /\ \A m \in 1..(N + 1) : c[<<s.star + 1, m>>] =>
                        m + (s.n - s.mark) <= N + 1 /\ c[<<s.p, m + (s.n - s.mark)>>]

(* Going back to the last star alone misses no way to match: the greedy        *)
(* matcher of `matchSimple` answers as the standard one.                       *)
LEMMA GreedyMatches ==
    ASSUME NEW pattern, NEW name, Len(pattern) \in Nat, Len(name) \in Nat,
           \A i \in 1..Len(pattern) : pattern[i] # "[", \A j \in 1..Len(name) : name[j] # "*"
    PROVE  MatchSimple(pattern, name) <=> FilepathMatch(pattern, name)
<1> DEFINE P == Len(pattern)
           N == Len(name)
           S == Scans(P, N)
<1>1. PICK c : IsMatch(c, pattern, name) /\ FilepathMatch(pattern, name) = c[<<1, 1>>]
  BY FilepathMatchIs
<1>2. PICK h : IsScan(h, pattern, name) /\ MatchSimple(pattern, name) = h[Scan(1, 1, 0, 1)]
  BY MatchSimpleIs
<1>3. P \in Nat /\ N \in Nat
  OBVIOUS
<1>4. \A s \in S : h[s] <=> ScanStep(h, pattern, name, s)
  BY <1>2 DEF IsScan
<1>5. \A p \in 1..(P + 1) : c[<<p, N + 1>>] <=> \A k \in p..P : pattern[k] = "*"
  BY <1>1, StarsAreLeft
<1>6. /\ \A j \in 1..(N + 1) : c[<<P + 1, j>>] <=> j = N + 1
      /\ \A i \in 1..P, j \in 1..(N + 1) : pattern[i] = "*" =>
            (c[<<i, j>>] <=> \E m \in j..(N + 1) : c[<<i + 1, m>>])
      /\ \A i \in 1..P, j \in 1..(N + 1) : pattern[i] # "*" =>
            (c[<<i, j>>] <=> j <= N /\ pattern[i] \in {"?", name[j]} /\ c[<<i + 1, j + 1>>])
  BY <1>1 DEF IsMatch
<1>7. \A p, n, star, mark : LET t == Scan(p, n, star, mark) IN t.p = p /\ t.n = n /\ t.star = star /\ t.mark = mark
  BY DEF Scan
<1> DEFINE Held(p, n, star, mark) ==
               star > 0 => /\ star < p /\ pattern[star] = "*"
                           /\ \A m \in 1..(N + 1) : c[<<star + 1, m>>] =>
                                 m + (n - mark) <= N + 1 /\ c[<<p, m + (n - mark)>>]
<1>12. \A t : Behind(c, pattern, N, t) <=> Held(t.p, t.n, t.star, t.mark)
  <2> HIDE DEF N
  <2> QED BY DEF Behind
<1> DEFINE U == {s \in S : Behind(c, pattern, N, s) => (h[s] <=> Reaches(c, N, s))}
           rank == Left(P, N)
<1>8. ASSUME NEW s \in S, \A t \in S : rank[t] < rank[s] => t \in U PROVE s \in U
  <2> SUFFICES ASSUME Behind(c, pattern, N, s) PROVE h[s] <=> Reaches(c, N, s)
    OBVIOUS
  <2>1. s.p \in 1..(P + 1) /\ s.n \in 1..(N + 1) /\ s.star \in 0..P /\ s.mark \in 1..(N + 1) /\ s.mark <= s.n
    BY <1>3, ScanTyped
  <2> DEFINE onward == Scan(s.p + 1, s.n + 1, s.star, s.mark)
             starred == Scan(s.p + 1, s.n, s.p, s.n)
             again == Scan(s.star + 1, s.mark + 1, s.star, s.mark + 1)
  <2>2. s.n <= N => /\ s.p <= P => onward \in U /\ starred \in U
                    /\ again \in U
    <3> HIDE DEF U, rank, P, N, S
    <3>1. s.n <= N => /\ s.p <= P => onward \in S /\ rank[onward] < rank[s] /\ starred \in S /\ rank[starred] < rank[s]
                      /\ again \in S /\ rank[again] < rank[s]
      BY <1>3, ScanSteps DEF S, rank
    <3> HIDE DEF onward, starred, again
    <3> QED BY <1>8, <3>1
  <2>3. h[s] <=> IF s.n > N THEN \A k \in s.p..P : pattern[k] = "*"
                 ELSE IF s.p <= P /\ pattern[s.p] \in {"?", name[s.n]} THEN h[onward]
                 ELSE IF s.p <= P /\ pattern[s.p] = "*" THEN h[starred]
                 ELSE s.star > 0 /\ h[again]
    <3> HIDE DEF S, P, N
    <3> QED BY Zenon, <1>4 DEF ScanStep, P, N
  <2>4. \A t \in U : Behind(c, pattern, N, t) => (h[t] <=> Reaches(c, N, t))
    OBVIOUS
  <2>5. \A j \in 1..N : name[j] # "*" /\ "?" # "*"
    OBVIOUS
  <2> HIDE DEF U, S, P, N, rank
  <2>6. CASE s.n > N
    <3>1. s.n = N + 1 /\ (h[s] <=> c[<<s.p, N + 1>>])
      BY <1>3, <1>5, <2>1, <2>3, <2>6
    <3>2. ASSUME s.star > 0, NEW m \in (s.mark + 1)..(N + 1), c[<<s.star + 1, m>>] PROVE FALSE
      <4>1. m \in 1..(N + 1) /\ m + (N + 1 - s.mark) > N + 1
        BY <1>3, <2>1
      <4>2. m + (s.n - s.mark) <= N + 1
        BY <3>2, <4>1 DEF Behind
      <4> QED BY <1>3, <2>1, <3>1, <4>1, <4>2
    <3> QED BY <3>1, <3>2 DEF Reaches
  <2>7. CASE s.n <= N /\ s.p <= P /\ pattern[s.p] \in {"?", name[s.n]}
    <3>1. s.n \in 1..N /\ s.p \in 1..P /\ pattern[s.p] # "*" /\ ~(s.n > N)
      BY <1>3, <2>1, <2>5, <2>7
    <3>2. c[<<s.p, s.n>>] <=> c[<<s.p + 1, s.n + 1>>]
      BY <1>3, <1>6, <2>1, <2>7, <3>1
    <3>3. onward.p = s.p + 1 /\ onward.n = s.n + 1 /\ onward.star = s.star /\ onward.mark = s.mark
      BY <1>7
    <3> HIDE DEF onward
    <3>4. Reaches(c, N, s) <=> Reaches(c, N, onward)
      BY <3>2, <3>3 DEF Reaches
    <3>5. Behind(c, pattern, N, onward)
      <4> SUFFICES Held(s.p + 1, s.n + 1, s.star, s.mark)
        <5> HIDE DEF Held
        <5> QED BY <1>12, <3>3
      <4> SUFFICES ASSUME s.star > 0
                   PROVE  /\ s.star < s.p + 1 /\ pattern[s.star] = "*"
                          /\ \A m \in 1..(N + 1) : c[<<s.star + 1, m>>] =>
                                m + ((s.n + 1) - s.mark) <= N + 1 /\ c[<<s.p + 1, m + ((s.n + 1) - s.mark)>>]
        BY Zenon
      <4>1. s.star < s.p + 1 /\ pattern[s.star] = "*"
        BY <2>1, <1>3 DEF Behind
      <4>2. ASSUME NEW m \in 1..(N + 1), c[<<s.star + 1, m>>]
            PROVE  m + ((s.n + 1) - s.mark) <= N + 1 /\ c[<<s.p + 1, m + ((s.n + 1) - s.mark)>>]
        <5> DEFINE j == m + (s.n - s.mark)
        <5>1. j <= N + 1 /\ c[<<s.p, j>>]
          BY <4>2 DEF Behind
        <5>2. j \in 1..(N + 1) /\ j + 1 = m + ((s.n + 1) - s.mark)
          <6>1. m \in Int /\ s.n \in Int /\ s.mark \in Int /\ s.mark <= s.n /\ m >= 1
            BY <1>3, <2>1
          <6> QED BY <1>3, <5>1, <6>1
        <5> HIDE DEF j
        <5>3. j <= N /\ c[<<s.p + 1, j + 1>>]
          BY <1>6, <3>1, <5>1, <5>2
        <5>4. j + 1 <= N + 1
          BY <1>3, <5>2, <5>3
        <5> QED BY Zenon, <5>2, <5>3, <5>4
      <4> QED BY <4>1, <4>2
    <3>6. h[s] <=> h[onward]
      BY <2>3, <2>7, <3>1
    <3> QED BY <2>2, <2>4, <2>7, <3>4, <3>5, <3>6
  <2>8. CASE s.n <= N /\ s.p <= P /\ pattern[s.p] \notin {"?", name[s.n]} /\ pattern[s.p] = "*"
    <3>1. s.n \in 1..N /\ s.p \in 1..P /\ ~(s.n > N)
      BY <1>3, <2>1, <2>8
    <3>2. c[<<s.p, s.n>>] <=> \E m \in s.n..(N + 1) : c[<<s.p + 1, m>>]
      BY <1>6, <2>1, <2>8, <3>1
    <3>3. starred.p = s.p + 1 /\ starred.n = s.n /\ starred.star = s.p /\ starred.mark = s.n
      BY <1>7
    <3> HIDE DEF starred
    <3>4. Reaches(c, N, starred) <=> c[<<s.p, s.n>>]
      <4>1. \A m : m \in s.n..(N + 1) <=> m = s.n \/ m \in (s.n + 1)..(N + 1)
        BY <1>3, <3>1
      <4>2. s.p > 0
        BY <1>3, <3>1
      <4> QED BY <3>2, <3>3, <4>1, <4>2 DEF Reaches
    <3>5. Reaches(c, N, s) <=> c[<<s.p, s.n>>]
      <4> SUFFICES ASSUME s.star > 0, NEW m \in (s.mark + 1)..(N + 1), c[<<s.star + 1, m>>]
                   PROVE  c[<<s.p, s.n>>]
        BY DEF Reaches
      <4> DEFINE j == m + (s.n - s.mark)
      <4>1. m \in 1..(N + 1)
        BY <1>3, <2>1
      <4>2. j <= N + 1 /\ c[<<s.p, j>>]
        BY <4>1 DEF Behind
      <4>3. j \in 1..(N + 1) /\ j \in s.n..(N + 1)
        BY <1>3, <2>1, <4>1, <4>2
      <4> HIDE DEF j
      <4>4. PICK k \in j..(N + 1) : c[<<s.p + 1, k>>]
        BY <1>6, <2>8, <3>1, <4>2, <4>3
      <4>5. k \in s.n..(N + 1)
        BY <1>3, <3>1, <4>3, <4>4
      <4> QED BY <3>2, <4>4, <4>5
    <3>6. Behind(c, pattern, N, starred)
      <4>1. s.p < s.p + 1 /\ s.n - s.n = 0 /\ \A m \in 1..(N + 1) : m + 0 <= N + 1 /\ m + 0 = m
        BY <1>3, <3>1
      <4> QED BY <2>8, <3>3, <4>1 DEF Behind
    <3>7. h[s] <=> h[starred]
      BY <2>3, <2>8, <3>1
    <3> QED BY <2>2, <2>4, <2>8, <3>4, <3>5, <3>6, <3>7
  <2>9. CASE s.n <= N /\ ~(s.p <= P /\ (pattern[s.p] \in {"?", name[s.n]} \/ pattern[s.p] = "*"))
    <3>1. ~(s.n > N) /\ ~c[<<s.p, s.n>>]
      <4>1. s.n \in 1..(N + 1) /\ s.n # N + 1 /\ ~(s.n > N)
        BY <1>3, <2>1, <2>9
      <4>2. CASE s.p = P + 1
        BY <1>6, <4>1, <4>2
      <4>3. CASE s.p # P + 1
        <5>1. s.p \in 1..P /\ pattern[s.p] # "*" /\ pattern[s.p] \notin {"?", name[s.n]}
          BY <1>3, <2>1, <2>9, <4>3
        <5> QED BY <1>6, <4>1, <5>1
      <4> QED BY <4>1, <4>2, <4>3
    <3>2. h[s] <=> s.star > 0 /\ h[again]
      BY <2>3, <2>9, <3>1
    <3>3. again.p = s.star + 1 /\ again.n = s.mark + 1 /\ again.star = s.star /\ again.mark = s.mark + 1
      BY <1>7
    <3> HIDE DEF again
    <3>4. Behind(c, pattern, N, again)
      <4>1. s.star < s.star + 1 /\ (s.mark + 1) - (s.mark + 1) = 0 /\ \A m \in 1..(N + 1) : m + 0 <= N + 1 /\ m + 0 = m
        BY <1>3, <2>1
      <4>2. s.star > 0 => pattern[s.star] = "*"
        BY DEF Behind
      <4> QED BY <3>3, <4>1, <4>2 DEF Behind
    <3>5. s.star > 0 => (Reaches(c, N, again) <=> Reaches(c, N, s))
      <4>1. \A m : m \in (s.mark + 1)..(N + 1) <=> m = s.mark + 1 \/ m \in (s.mark + 1 + 1)..(N + 1)
        BY <1>3, <2>1, <2>9
      <4> QED BY <3>1, <3>3, <4>1 DEF Reaches
    <3>6. Reaches(c, N, s) => s.star > 0
      BY <3>1 DEF Reaches
    <3> QED BY <2>2, <2>4, <2>9, <3>2, <3>4, <3>5, <3>6
  <2> QED BY <1>3, <2>1, <2>6, <2>7, <2>8, <2>9
<1>9. S \subseteq U
  <2>1. rank \in [S -> Nat]
    <3> DEFINE most == (N + 1) * (P + N + 3) + P + N + 2
    <3> HIDE DEF most, rank, S
    <3> QED BY <1>3, LeftTyped DEF most, rank, S
  <2> HIDE DEF S, U, rank
  <2> QED BY <1>8, <2>1, RankedInduction
<1> DEFINE start == Scan(1, 1, 0, 1)
<1>10. start \in S /\ start.p = 1 /\ start.n = 1 /\ start.star = 0
  BY <1>3 DEF Scans, Scan
<1>11. Behind(c, pattern, N, start) /\ (Reaches(c, N, start) <=> c[<<1, 1>>])
  <2> HIDE DEF start
  <2> QED BY <1>10 DEF Behind, Reaches
<1> HIDE DEF start, S
<1> QED BY <1>1, <1>2, <1>9, <1>10, <1>11 DEF start

-----------------------------------------------------------------------------
(* Paths and their components *)

LEMMA InTurnIs ==
    ASSUME NEW n \in Nat, NEW S
    PROVE  LET at == InTurn(n, S) IN
           /\ at \in Seq(1..n)
           /\ \A i, j \in 1..Len(at) : i < j => at[i] < at[j]
           /\ \A i \in 1..Len(at) : at[i] \in S /\ at[i] \in 1..n
           /\ \A o \in 1..n : o \in S => \E i \in 1..Len(at) : at[i] = o
<1> DEFINE s == [i \in 1..n |-> i]
           at == Those(s, S)
<1>1. s \in Seq(1..n) /\ Len(s) = n
  OBVIOUS
<1>2. at \in Seq(1..n) /\ Places(s, at, S, 0, n)
  <2> HIDE DEF s
  <2> QED BY <1>1, ThoseTyped, ThosePlaces
<1> HIDE DEF at
<1>3. PICK place \in [1..Len(at) -> (0 + 1)..n] :
         /\ \A i, j \in 1..Len(at) : i < j => place[i] < place[j]
         /\ \A i \in 1..Len(at) : at[i] = s[place[i]] /\ at[i] \in S
         /\ \A o \in (0 + 1)..n : s[o] \in S => \E i \in 1..Len(at) : place[i] = o
  <2> HIDE DEF s
  <2> QED BY <1>2 DEF Places
<1>4. \A i \in 1..Len(at) : at[i] = place[i]
  <2>1. \A o \in (0 + 1)..n : s[o] = o
    OBVIOUS
  <2> HIDE DEF s
  <2> QED BY <1>3, <2>1
<1>5. \A o \in 1..n : o \in (0 + 1)..n /\ s[o] = o
  OBVIOUS
<1>6. \A i \in 1..Len(at) : at[i] \in 1..n
  BY <1>3, <1>4
<1> HIDE DEF s
<1> QED BY <1>2, <1>3, <1>4, <1>5, <1>6 DEF InTurn, at, s

\* The pieces a text is cut to at a set of places, with the ends as cuts of their own.
IsSplit(r, s, S, n, cut) ==
    /\ n \in Nat /\ cut \in [1..(n + 2) -> 0..(Len(s) + 1)] /\ cut[1] = 0 /\ cut[n + 2] = Len(s) + 1
    /\ \A i, j \in 1..(n + 2) : i < j => cut[i] < cut[j]
    /\ \A k \in 2..(n + 1) : cut[k] \in S /\ cut[k] \in 1..Len(s)
    /\ \A o \in 1..Len(s) : o \in S => \E k \in 2..(n + 1) : cut[k] = o
    /\ Len(r) = n + 1 /\ r = [k \in 1..(n + 1) |-> SubSeq(s, cut[k] + 1, cut[k + 1] - 1)]

LEMMA SplitIs ==
    ASSUME NEW s, Len(s) \in Nat, NEW S
    PROVE  \E n, cut : IsSplit(Split(s, S), s, S, n, cut)
<1> DEFINE L == Len(s)
           at == InTurn(L, S)
           n == Len(at)
           cut == <<0>> \o at \o <<L + 1>>
<1>1. /\ L \in Nat /\ at \in Seq(1..L)
      /\ \A i, j \in 1..n : i < j => at[i] < at[j]
      /\ \A i \in 1..n : at[i] \in S /\ at[i] \in 1..L
      /\ \A o \in 1..L : o \in S => \E i \in 1..n : at[i] = o
  <2> HIDE DEF L
  <2> QED BY InTurnIs DEF L
<1> HIDE DEF at, L
<1>2. n \in Nat
  BY <1>1
<1>3. /\ Len(cut) = n + 2 /\ cut[1] = 0 /\ cut[n + 2] = L + 1
      /\ \A k \in 2..(n + 1) : cut[k] = at[k - 1]
      /\ cut \in Seq(Int)
  <2>1. at \in Seq(Int)
    BY <1>1
  <2> QED BY <1>1, <2>1
<1> HIDE DEF n, cut
<1>4. \A k \in 1..(n + 2) : k = 1 \/ k = n + 2 \/ (k \in 2..(n + 1) /\ k - 1 \in 1..n)
  BY <1>2
<1>5. \A k \in 2..(n + 1) : cut[k] \in S /\ cut[k] \in 1..L
  <2> TAKE k \in 2..(n + 1)
  <2>1. k - 1 \in 1..n
    BY <1>2
  <2> QED BY <1>1, <1>3, <2>1
<1>6. \A o \in 1..L : o \in S => \E k \in 2..(n + 1) : cut[k] = o
  <2> SUFFICES ASSUME NEW o \in 1..L, o \in S PROVE \E k \in 2..(n + 1) : cut[k] = o
    OBVIOUS
  <2>1. PICK i \in 1..n : at[i] = o
    BY <1>1
  <2>2. i + 1 \in 2..(n + 1) /\ (i + 1) - 1 = i
    BY <1>2
  <2> QED BY <1>3, <2>1, <2>2
<1>7. \A i, j \in 1..(n + 2) : i < j => cut[i] < cut[j]
  <2> SUFFICES ASSUME NEW i \in 1..(n + 2), NEW j \in 1..(n + 2), i < j PROVE cut[i] < cut[j]
    OBVIOUS
  <2>1. CASE i \in 2..(n + 1) /\ j \in 2..(n + 1)
    <3>1. i - 1 \in 1..n /\ j - 1 \in 1..n /\ i - 1 < j - 1
      BY <1>2, <2>1
    <3> QED BY <1>1, <1>3, <2>1, <3>1
  <2>2. CASE i = 1
    BY <1>1, <1>2, <1>3, <1>4, <1>5, <2>2
  <2>3. CASE j = n + 2
    BY <1>1, <1>2, <1>3, <1>4, <1>5, <2>3
  <2> QED BY <1>2, <2>1, <2>2, <2>3
<1>8. \A k \in 1..(n + 2) : cut[k] \in 0..(L + 1)
  BY <1>1, <1>2, <1>3, <1>4, <1>5
<1>9. cut \in [1..(n + 2) -> 0..(L + 1)]
  <2>1. DOMAIN cut = 1..(n + 2) /\ cut = [k \in DOMAIN cut |-> cut[k]]
    BY <1>2, <1>3
  <2> QED BY <1>8, <2>1
<1> DEFINE r == [k \in 1..(n + 1) |-> SubSeq(s, cut[k] + 1, cut[k + 1] - 1)]
<1>10. Split(s, S) = r
  <2>1. Len(cut) - 1 = n + 1
    BY <1>2, <1>3
  <2>2. Split(s, S) = [k \in 1..(Len(cut) - 1) |-> SubSeq(s, cut[k] + 1, cut[k + 1] - 1)]
    BY Zenon DEF Split, cut, at, L
  <2> QED BY <2>1, <2>2
<1>11. Len(r) = n + 1
  BY <1>2
<1>12. IsSplit(Split(s, S), s, S, n, cut)
  BY Zenon, <1>2, <1>3, <1>5, <1>6, <1>7, <1>9, <1>10, <1>11 DEF IsSplit, L, r
<1> QED BY Zenon, <1>12

\* Where the components of a path begin, and behind the last of them its end.
IsRoute(path, N, off) ==
    /\ N \in Nat /\ N >= 1 /\ off \in [1..(N + 1) -> 0..Len(path)] /\ off[1] = 0 /\ off[N + 1] = Len(path)
    /\ Len(SplitPath(path)) = N
    /\ \A j \in 1..N : /\ off[j] < Len(path)
                       /\ SplitPath(path)[j] = SubSeq(path, off[j] + 1, ComponentEnd(path, off[j]))
                       /\ NextComponent(path, off[j]) = off[j + 1]

LEMMA RouteIs ==
    ASSUME NEW D, NEW path \in Seq(D), Relative(path)
    PROVE  \E N, off : IsRoute(path, N, off)
<1> DEFINE L == Len(path)
           S == {i \in 1..L : path[i] = "/"}
           parts == SplitPath(path)
<1>1. L \in Nat
  BY LenProperties
<1>2. parts = Split(path, S) /\ \A k \in 1..Len(parts) : parts[k] # <<>>
  BY DEF Relative, SplitPath
<1> HIDE DEF S, L, parts
<1>3. PICK n, cut : IsSplit(Split(path, S), path, S, n, cut)
  BY <1>1, SplitIs DEF L
<1> DEFINE N == n + 1
           off == [j \in 1..(N + 1) |-> IF j = N + 1 THEN L ELSE cut[j]]
<1>4. /\ n \in Nat /\ cut \in [1..(N + 1) -> 0..(L + 1)] /\ cut[1] = 0 /\ cut[N + 1] = L + 1
      /\ \A i, j \in 1..(N + 1) : i < j => cut[i] < cut[j]
      /\ \A k \in 2..N : cut[k] \in S /\ cut[k] \in 1..L
      /\ \A o \in 1..L : o \in S => \E k \in 2..N : cut[k] = o
      /\ Len(parts) = N /\ parts = [k \in 1..N |-> SubSeq(path, cut[k] + 1, cut[k + 1] - 1)]
  <2>1. n \in Nat
    BY <1>3 DEF IsSplit
  <2>2. n + 2 = N + 1
    BY <2>1
  <2> QED BY <1>2, <1>3, <2>1, <2>2 DEF IsSplit, L
<1>5. N \in Nat /\ N >= 1
  BY <1>4
<1> HIDE DEF N
<1>6. ASSUME NEW j \in 1..N
      PROVE  /\ cut[j] \in 0..(L + 1) /\ cut[j + 1] \in 0..(L + 1) /\ cut[j] + 1 <= cut[j + 1] - 1
             /\ parts[j] = SubSeq(path, cut[j] + 1, cut[j + 1] - 1)
  <2>1. j \in 1..(N + 1) /\ j + 1 \in 1..(N + 1)
    BY <1>5
  <2>2. cut[j] \in 0..(L + 1) /\ cut[j + 1] \in 0..(L + 1)
    BY <1>4, <2>1
  <2>3. parts[j] = SubSeq(path, cut[j] + 1, cut[j + 1] - 1)
    BY <1>4
  <2>4. SubSeq(path, cut[j] + 1, cut[j + 1] - 1) # <<>>
    BY <1>2, <1>4, <2>3
  <2> QED BY <1>1, <2>2, <2>3, <2>4
<1>7. ASSUME NEW j \in 1..N PROVE ComponentEnd(path, cut[j]) = cut[j + 1] - 1
  <2> DEFINE T == {i \in (cut[j] + 1)..L : path[i] = "/"} \cup {L + 1}
             m == cut[j + 1]
  <2>1. j \in 1..(N + 1) /\ j + 1 \in 1..(N + 1) /\ j < j + 1
    BY <1>5
  <2>2. m \in T
    <3>1. CASE j = N
      BY <1>4, <3>1
    <3>2. CASE j # N
      <4>1. j + 1 \in 2..N
        BY <1>5, <3>2
      <4>2. m \in S /\ m \in 1..L /\ m >= cut[j] + 1
        BY <1>1, <1>4, <1>6, <4>1
      <4>3. m \in (cut[j] + 1)..L
        BY <1>1, <1>6, <4>2
      <4> QED BY <4>2, <4>3 DEF S
    <3> QED BY <3>1, <3>2
  <2>3. ASSUME NEW i \in T PROVE m <= i
    <3>1. CASE i = L + 1
      BY <1>1, <1>6, <3>1
    <3>2. CASE i # L + 1
      <4>1. i \in 1..L /\ i \in S /\ i >= cut[j] + 1
        BY <1>1, <1>6, <2>3, <3>2 DEF S
      <4>2. PICK k \in 2..N : cut[k] = i
        BY <1>4, <4>1
      <4>3. k \in 1..(N + 1) /\ k \in Int /\ j \in Int
        BY <1>5, <4>2
      <4>4. k > j
        <5> SUFFICES ASSUME k <= j PROVE FALSE
          BY <4>3
        <5>1. cut[k] <= cut[j]
          <6>1. k = j \/ k < j
            BY <4>3
          <6>2. k < j => cut[k] < cut[j]
            BY <1>4, <2>1, <4>3
          <6> QED BY <1>6, <4>1, <4>2, <6>1, <6>2
        <5> QED BY <1>6, <4>1, <4>2, <5>1
      <4>5. k = j + 1 \/ j + 1 < k
        BY <4>3, <4>4
      <4>6. j + 1 < k => cut[j + 1] < cut[k]
        BY <1>4, <2>1, <4>3
      <4> QED BY <1>6, <4>1, <4>2, <4>5, <4>6
    <3> QED BY <3>1, <3>2
  <2>4. T \in SUBSET Int
    BY <1>1, <1>6
  <2>5. Min(T) = m
    <3> HIDE DEF T, m
    <3> QED BY <2>2, <2>3, <2>4, MinIs
  <2> QED BY <2>5 DEF ComponentEnd, L
<1>8. \A j \in 1..N : off[j] = cut[j]
  BY <1>5
<1>9. off[N + 1] = L /\ \A j \in 1..(N + 1) : j = N + 1 \/ j \in 1..N
  BY <1>5
<1>10. off \in [1..(N + 1) -> 0..L]
  <2>1. \A j \in 1..N : cut[j] \in 0..L
    BY <1>1, <1>6
  <2> QED BY <1>1, <1>9, <2>1
<1>11. off[1] = 0
  BY <1>4, <1>5, <1>8
<1> HIDE DEF off
<1>12. ASSUME NEW j \in 1..N
       PROVE  /\ off[j] < L /\ parts[j] = SubSeq(path, off[j] + 1, ComponentEnd(path, off[j]))
              /\ NextComponent(path, off[j]) = off[j + 1]
  <2>1. off[j] = cut[j] /\ ComponentEnd(path, off[j]) = cut[j + 1] - 1
    BY <1>7, <1>8
  <2>2. cut[j] < L /\ cut[j + 1] \in Int
    BY <1>1, <1>6
  <2>3. NextComponent(path, off[j]) = off[j + 1]
    <3>1. CASE j = N
      <4>1. cut[j + 1] - 1 = L
        BY <1>1, <1>4, <3>1
      <4> QED BY <1>9, <2>1, <3>1, <4>1 DEF NextComponent, L
    <3>2. CASE j # N
      <4>1. j + 1 \in 1..N /\ j + 1 \in 2..N
        BY <1>5, <3>2
      <4>2. cut[j + 1] \in 1..L /\ off[j + 1] = cut[j + 1]
        BY <1>4, <1>8, <4>1
      <4>3. cut[j + 1] - 1 # L /\ (cut[j + 1] - 1) + 1 = cut[j + 1]
        BY <1>1, <4>2
      <4> QED BY <2>1, <4>2, <4>3 DEF NextComponent, L
    <3> QED BY <3>1, <3>2
  <2> QED BY <1>6, <2>1, <2>2, <2>3
<1>13. IsRoute(path, N, off)
  BY <1>4, <1>5, <1>9, <1>10, <1>11, <1>12 DEF IsRoute, L, parts
<1> QED BY <1>13

LEMMA NextIs ==
    ASSUME NEW D, NEW path \in Seq(D), NEW ofs \in 0..Len(path), ofs < Len(path)
    PROVE  NextComponent(path, ofs) \in 0..Len(path) /\ ofs < NextComponent(path, ofs)
<1> DEFINE L == Len(path)
           T == {i \in (ofs + 1)..L : path[i] = "/"} \cup {L + 1}
<1>1. L \in Nat
  BY LenProperties
<1>2. PICK m \in T : \A k \in T : m <= k
  <2>1. T \in SUBSET Int /\ T # {} /\ 0 \in Int /\ \A k \in T : 0 <= k
    BY <1>1
  <2> HIDE DEF T
  <2> QED BY <2>1, LeastExists
<1>3. Min(T) = m
  <2>1. T \in SUBSET Int
    BY <1>1
  <2> HIDE DEF T
  <2> QED BY <1>2, <2>1, MinIs
<1>4. ComponentEnd(path, ofs) = m - 1 /\ m \in (ofs + 1)..(L + 1)
  <2>1. m \in (ofs + 1)..(L + 1)
    BY <1>1
  <2> QED BY <1>3, <2>1 DEF ComponentEnd
<1> HIDE DEF T, L
<1> QED BY <1>1, <1>4 DEF NextComponent, L

\* One step of the compiled matcher at a part and an offset, given what it finds `later`.
WalkStep(later, parts, path, k, ofs) ==
    IF k > Len(parts) THEN ofs >= Len(path)
    ELSE IF parts[k] = StarStar
    THEN later[<<k + 1, ofs>>] \/ (ofs < Len(path) /\ later[<<k, NextComponent(path, ofs)>>])
    ELSE /\ ofs < Len(path)
         /\ MatchComponent(parts[k], SubSeq(path, ofs + 1, ComponentEnd(path, ofs)))
         /\ later[<<k + 1, NextComponent(path, ofs)>>]
IsPathWalk(f, parts, path) ==
    \A k \in 1..(Len(parts) + 1), ofs \in 0..Len(path) :
       f[<<k, ofs>>] \in BOOLEAN /\ (f[<<k, ofs>>] <=> WalkStep(f, parts, path, k, ofs))

LEMMA MatchPartsFromIs ==
    ASSUME NEW D, NEW path \in Seq(D), NEW parts, Len(parts) \in Nat
    PROVE  \E f : IsPathWalk(f, parts, path) /\ MatchPartsFrom(parts, path) = f[<<1, 0>>]
<1> DEFINE P == Len(parts)
           L == Len(path)
           S == (1..(P + 1)) \X (0..L)
           B == BOOLEAN
           step(f, at) == LET k == at[1]  ofs == at[2]
                          IN IF k > Len(parts) THEN ofs >= Len(path)
                             ELSE IF parts[k] = StarStar
                             THEN f[<<k + 1, ofs>>] \/ (ofs < Len(path) /\ f[<<k, NextComponent(path, ofs)>>])
                             ELSE /\ ofs < Len(path)
                                  /\ MatchComponent(parts[k], SubSeq(path, ofs + 1, ComponentEnd(path, ofs)))
                                  /\ f[<<k + 1, NextComponent(path, ofs)>>]
           again(f) == [at \in S |-> step(f, at)]
           F == [f \in [S -> B] |-> again(f)]
           rank == [at \in S |-> (P + 1 - at[1]) + (L - at[2])]
<1>1. P \in Nat /\ L \in Nat
  BY LenProperties
<1>2. \A f, at : step(f, at) = WalkStep(f, parts, path, at[1], at[2])
  BY Zenon DEF WalkStep
<1> HIDE DEF step
<1>3. \A at \in S : at[1] \in 1..(P + 1) /\ at[2] \in 0..L /\ at = <<at[1], at[2]>>
  OBVIOUS
<1>4. ASSUME NEW f \in [S -> B], NEW at \in S PROVE WalkStep(f, parts, path, at[1], at[2]) \in B
  <2> DEFINE k == at[1]
             ofs == at[2]
             M == MatchComponent(parts[k], SubSeq(path, ofs + 1, ComponentEnd(path, ofs)))
  <2>1. (ofs >= L) \in BOOLEAN
    OBVIOUS
  <2> HIDE DEF k, ofs, L, P, S, M
  <2>2. WalkStep(f, parts, path, k, ofs) =
           IF k > P THEN ofs >= L
           ELSE IF parts[k] = StarStar THEN f[<<k + 1, ofs>>] \/ (ofs < L /\ f[<<k, NextComponent(path, ofs)>>])
           ELSE ofs < L /\ M /\ f[<<k + 1, NextComponent(path, ofs)>>]
    BY Zenon DEF WalkStep, M, L, P
  <2>3. (f[<<k + 1, ofs>>] \/ (ofs < L /\ f[<<k, NextComponent(path, ofs)>>])) \in BOOLEAN
    OBVIOUS
  <2>4. (ofs < L /\ M /\ f[<<k + 1, NextComponent(path, ofs)>>]) \in BOOLEAN
    OBVIOUS
  <2> QED BY Zenon, <2>1, <2>2, <2>3, <2>4 DEF k, ofs
<1>5. ASSUME NEW f, NEW g, NEW at \in S, \A b \in S : rank[b] < rank[at] => f[b] = g[b]
      PROVE  WalkStep(f, parts, path, at[1], at[2]) = WalkStep(g, parts, path, at[1], at[2])
  <2> DEFINE k == at[1]
             ofs == at[2]
             next == NextComponent(path, ofs)
  <2>1. k \in 1..(P + 1) /\ ofs \in 0..L /\ at = <<k, ofs>>
    BY <1>3
  <2>2. ofs < L => next \in 0..L /\ ofs < next
    BY <2>1, NextIs
  <2>3. \A i \in 1..(P + 1), o \in 0..L :
           (P + 1 - i) + (L - o) < (P + 1 - k) + (L - ofs) => f[<<i, o>>] = g[<<i, o>>]
    <3> TAKE i \in 1..(P + 1), o \in 0..L
    <3>1. <<i, o>> \in S /\ rank[<<i, o>>] = (P + 1 - i) + (L - o) /\ rank[at] = (P + 1 - k) + (L - ofs)
      OBVIOUS
    <3> HIDE DEF S, rank
    <3> QED BY <1>5, <3>1
  <2> HIDE DEF next, P, L, S, rank, k, ofs
  <2>4. k <= P => f[<<k + 1, ofs>>] = g[<<k + 1, ofs>>]
    <3> HAVE k <= P
    <3>1. k + 1 \in 1..(P + 1) /\ (P + 1 - (k + 1)) + (L - ofs) < (P + 1 - k) + (L - ofs)
      BY <1>1, <2>1
    <3> QED BY <2>1, <2>3, <3>1
  <2>5. ofs < L => f[<<k, next>>] = g[<<k, next>>]
    <3> HAVE ofs < L
    <3>1. next \in 0..L /\ (P + 1 - k) + (L - next) < (P + 1 - k) + (L - ofs)
      BY <1>1, <2>1, <2>2
    <3> QED BY <2>1, <2>3, <3>1
  <2>6. k <= P /\ ofs < L => f[<<k + 1, next>>] = g[<<k + 1, next>>]
    <3> HAVE k <= P /\ ofs < L
    <3>1. k + 1 \in 1..(P + 1) /\ next \in 0..L
      BY <1>1, <2>1, <2>2
    <3>2. P + 1 - (k + 1) < P + 1 - k /\ L - next < L - ofs /\ P + 1 - k \in Int /\ L - ofs \in Int
          /\ P + 1 - (k + 1) \in Int /\ L - next \in Int
      BY <1>1, <2>1, <2>2
    <3>3. (P + 1 - (k + 1)) + (L - next) < (P + 1 - k) + (L - ofs)
      BY <3>2
    <3> QED BY <2>1, <2>3, <3>1, <3>3
  <2>7. ~(k > P) => k <= P
    BY <1>1, <2>1
  <2>8. WalkStep(f, parts, path, k, ofs) = WalkStep(g, parts, path, k, ofs)
    <3>1. CASE k > P
      BY Zenon, <3>1 DEF WalkStep, P, L, next
    <3>2. CASE ~(k > P) /\ parts[k] = StarStar
      <4>1. (f[<<k + 1, ofs>>] \/ (ofs < L /\ f[<<k, next>>])) = (g[<<k + 1, ofs>>] \/ (ofs < L /\ g[<<k, next>>]))
        <5>1. CASE ofs < L
          BY Zenon, <2>4, <2>5, <2>7, <3>2, <5>1
        <5>2. CASE ~(ofs < L)
          BY Zenon, <2>4, <2>7, <3>2, <5>2
        <5> QED BY <5>1, <5>2
      <4> QED BY Zenon, <3>2, <4>1 DEF WalkStep, P, L, next
    <3>3. CASE ~(k > P) /\ parts[k] # StarStar
      <4> DEFINE M == MatchComponent(parts[k], SubSeq(path, ofs + 1, ComponentEnd(path, ofs)))
      <4> HIDE DEF M
      <4>1. (ofs < L /\ M /\ f[<<k + 1, next>>]) = (ofs < L /\ M /\ g[<<k + 1, next>>])
        <5>1. CASE ofs < L
          BY Zenon, <2>6, <2>7, <3>3, <5>1
        <5>2. CASE ~(ofs < L)
          BY Zenon, <5>2
        <5> QED BY <5>1, <5>2
      <4> QED BY Zenon, <3>3, <4>1 DEF WalkStep, P, L, next, M
    <3> QED BY <3>1, <3>2, <3>3
  <2> QED BY <2>8 DEF k, ofs
<1>6. rank \in [S -> 0..(P + L)]
  BY <1>1
<1>7. \E f \in [S -> B] : F[f] = f
  <2>1. F \in [[S -> B] -> [S -> B]]
    <3> HIDE DEF S, B
    <3> QED BY <1>2, <1>4
  <2>2. B # {}
    OBVIOUS
  <2>5. P + L \in Nat
    BY <1>1
  <2>3. \A f, g \in [S -> B], s \in S : (\A t \in S : rank[t] < rank[s] => f[t] = g[t]) => F[f][s] = F[g][s]
    <3> HIDE DEF S, B, rank
    <3> QED BY <1>2, <1>5
  <2>4. IsRanked(S, B, P + L, rank, F)
    <3> HIDE DEF S, B, rank, F
    <3> QED BY <1>6, <2>1, <2>2, <2>3, <2>5 DEF IsRanked
  <2> HIDE DEF S, B, rank, F
  <2> QED BY <2>4, RankedExists
<1> DEFINE w == CHOOSE f : f = again(f)
<1>8. w = again(w)
  <2> HIDE DEF again, S, B
  <2> QED BY <1>7
<1>9. MatchPartsFrom(parts, path) = w[<<1, 0>>]
  BY Zenon DEF MatchPartsFrom, step
<1> HIDE DEF w
<1>10. w \in [S -> B]
  <2>1. PICK f \in [S -> B] : F[f] = f
    BY <1>7
  <2> DEFINE U == {s \in S : w[s] = f[s]}
  <2>2. ASSUME NEW s \in S, \A t \in S : rank[t] < rank[s] => t \in U PROVE s \in U
    <3>1. WalkStep(w, parts, path, s[1], s[2]) = WalkStep(f, parts, path, s[1], s[2])
      <4> HIDE DEF S, B, rank, F
      <4> QED BY <1>5, <2>2
    <3>2. again(f) = f
      BY <2>1
    <3> HIDE DEF S, B, rank, F
    <3> QED BY <1>2, <1>8, <3>1, <3>2
  <2>3. rank \in [S -> Nat]
    BY <1>1
  <2>4. S \subseteq U
    <3> HIDE DEF S, B, rank, F, U
    <3> QED BY <2>2, <2>3, RankedInduction
  <2>5. w = [s \in S |-> w[s]] /\ f = [s \in S |-> f[s]]
    <3> HIDE DEF S, B
    <3> QED BY <1>8
  <2> HIDE DEF S, B
  <2> QED BY <2>4, <2>5
<1>11. \A k \in 1..(P + 1), ofs \in 0..L : w[<<k, ofs>>] \in BOOLEAN /\ (w[<<k, ofs>>] <=> WalkStep(w, parts, path, k, ofs))
  <2> TAKE k \in 1..(P + 1), ofs \in 0..L
  <2>1. <<k, ofs>> \in S /\ <<k, ofs>>[1] = k /\ <<k, ofs>>[2] = ofs
    OBVIOUS
  <2> HIDE DEF S
  <2> QED BY <1>2, <1>8, <1>10, <2>1
<1> QED BY <1>9, <1>11 DEF IsPathWalk

\* One component is matched alike, whichever matcher takes it.
LEMMA ComponentMatches ==
    ASSUME NEW part, NEW comp, Len(part) \in Nat, Len(comp) \in Nat, \A j \in 1..Len(comp) : comp[j] # "*"
    PROVE  MatchComponent(part, comp) <=> FilepathMatch(part, comp)
<1>1. CASE Contains(part, "[")
  BY <1>1 DEF MatchComponent
<1>2. CASE ~Contains(part, "[")
  <2>1. \A i \in 1..Len(part) : part[i] # "["
    BY <1>2 DEF Contains
  <2> QED BY <1>2, <2>1, GreedyMatches DEF MatchComponent
<1> QED BY <1>1, <1>2

LEMMA NoStarIn ==
    ASSUME NEW D, NEW path \in Seq(D), ~Contains(path, "*"), NEW a \in 1..(Len(path) + 1), NEW b \in 0..Len(path)
    PROVE  Len(SubSeq(path, a, b)) \in Nat /\ \A j \in 1..Len(SubSeq(path, a, b)) : SubSeq(path, a, b)[j] # "*"
<1>1. \A i \in 1..Len(path) : path[i] # "*"
  BY DEF Contains
<1>2. CASE a <= b
  <2>1. Len(SubSeq(path, a, b)) = b - a + 1 /\ \A j \in 1..(b - a + 1) : SubSeq(path, a, b)[j] = path[a + j - 1]
    BY <1>2
  <2>2. \A j \in 1..(b - a + 1) : a + j - 1 \in 1..Len(path)
    BY <1>2
  <2>3. b - a + 1 \in Nat
    BY <1>2
  <2> QED BY <1>1, <2>1, <2>2, <2>3
<1>3. CASE ~(a <= b)
  <2>1. Len(SubSeq(path, a, b)) = 0
    BY <1>3
  <2> QED BY <2>1
<1> QED BY <1>2, <1>3

\* Walking a path by offset and splitting it first come to the same.
LEMMA PartsMatch ==
    ASSUME NEW D, NEW path \in Seq(D), Relative(path), NEW parts, Len(parts) \in Nat,
           \A k \in 1..Len(parts) : Len(parts[k]) \in Nat
    PROVE  MatchPartsFrom(parts, path) <=> MatchParts(parts, SplitPath(path))
<1> DEFINE P == Len(parts)
           L == Len(path)
           comps == SplitPath(path)
           spans == {i \in 1..P : parts[i] = StarStar}
           takes == {at \in (1..P) \X (1..Len(comps)) : FilepathMatch(parts[at[1]], comps[at[2]])}
<1>1. PICK N, off : IsRoute(path, N, off)
  BY RouteIs
<1>2. PICK w : IsPathWalk(w, parts, path) /\ MatchPartsFrom(parts, path) = w[<<1, 0>>]
  BY MatchPartsFromIs
<1>3. Len(comps) = N /\ N \in Nat /\ N >= 1 /\ off \in [1..(N + 1) -> 0..L] /\ off[1] = 0 /\ off[N + 1] = L
  BY <1>1 DEF IsRoute
<1>4. MatchParts(parts, comps) = Covers(P, N, spans, takes)
  BY Zenon, <1>3 DEF MatchParts
<1>5. PICK c : IsCover(c, P, N, spans, takes) /\ Covers(P, N, spans, takes) = c[<<1, 1>>]
  <2>1. spans \in SUBSET (1..P) /\ takes \in SUBSET ((1..P) \X (1..N))
    BY <1>3
  <2> HIDE DEF spans, takes
  <2> QED BY <1>3, <2>1, CoversIs
<1>6. P \in Nat /\ L \in Nat
  BY LenProperties
<1>7. \A k \in 1..P : k \in spans <=> parts[k] = StarStar
  OBVIOUS
<1>8. \A k \in 1..P, j \in 1..N : <<k, j>> \in takes <=> FilepathMatch(parts[k], comps[j])
  BY <1>3
<1>9. \A k, j : <<k, j>> \in takes => k \in 1..P /\ j \in 1..N
  BY <1>3
<1>10. \A k : k \in spans => k \in 1..P
  OBVIOUS
<1>11. ASSUME NEW k \in 1..P, NEW j \in 1..N
       PROVE  MatchComponent(parts[k], SubSeq(path, off[j] + 1, ComponentEnd(path, off[j]))) <=> <<k, j>> \in takes
  <2> DEFINE end == ComponentEnd(path, off[j])
             comp == SubSeq(path, off[j] + 1, end)
  <2>1. comps[j] = comp /\ off[j] < L /\ NextComponent(path, off[j]) = off[j + 1]
    BY <1>1 DEF IsRoute
  <2>2. off[j] \in 0..L /\ off[j + 1] \in 0..L
    BY <1>3
  <2>3. end \in 0..L
    <3>1. end = L \/ end + 1 = off[j + 1]
      <4> HIDE DEF end
      <4> QED BY Zenon, <2>1 DEF NextComponent, end
    <3>2. NextComponent(path, off[j]) > off[j]
      BY <2>1, <2>2, NextIs
    <3>3. end \in Int
      <4> DEFINE T == {i \in (off[j] + 1)..L : path[i] = "/"} \cup {L + 1}
      <4>1. T \in SUBSET Int /\ T # {} /\ 0 \in Int /\ \A i \in T : 0 <= i
        BY <1>6, <2>2
      <4>2. PICK m \in T : \A i \in T : m <= i
        <5> HIDE DEF T
        <5> QED BY <4>1, LeastExists
      <4>3. Min(T) = m
        <5> HIDE DEF T
        <5> QED BY <4>1, <4>2, MinIs
      <4>4. end = m - 1 /\ m \in Int
        <5>1. m \in Int
          BY <4>1
        <5> QED BY <4>3, <5>1 DEF ComponentEnd
      <4> HIDE DEF end
      <4> QED BY <4>4
    <3> HIDE DEF end, L
    <3> QED BY <1>6, <2>1, <2>2, <3>1, <3>2, <3>3
  <2>4. ~Contains(path, "*")
    BY DEF Relative
  <2>5. Len(comp) \in Nat /\ \A i \in 1..Len(comp) : comp[i] # "*"
    <3>1. off[j] + 1 \in 1..(L + 1)
      BY <1>6, <2>2
    <3> HIDE DEF end
    <3> QED BY <2>3, <2>4, <3>1, NoStarIn
  <2> HIDE DEF comp, takes, comps
  <2>6. MatchComponent(parts[k], comp) <=> FilepathMatch(parts[k], comp)
    BY <2>5, ComponentMatches
  <2> QED BY <1>8, <2>1, <2>6 DEF comp
<1>12. \A j \in 1..N : off[j] < L /\ NextComponent(path, off[j]) = off[j + 1]
  BY <1>1 DEF IsRoute
<1>13. \A k \in 1..(P + 1), j \in 1..(N + 1) :
          c[<<k, j>>] <=> \/ k = P + 1 /\ j = N + 1
                          \/ k \in spans /\ \E m \in j..(N + 1) : c[<<k + 1, m>>]
                          \/ k \notin spans /\ <<k, j>> \in takes /\ c[<<k + 1, j + 1>>]
  <2> HIDE DEF spans, takes
  <2> QED BY <1>5 DEF IsCover
<1> HIDE DEF spans, takes, comps
<1>14. ASSUME NEW k \in 1..P, NEW j \in 1..N, k \in spans
       PROVE  c[<<k, j>>] <=> c[<<k + 1, j>>] \/ c[<<k, j + 1>>]
  <2>1. k \in 1..(P + 1) /\ k # P + 1 /\ j \in 1..(N + 1) /\ j + 1 \in 1..(N + 1)
    BY <1>3, <1>6
  <2>2. \A m : m \in j..(N + 1) <=> m = j \/ m \in (j + 1)..(N + 1)
    BY <1>3
  <2>3. c[<<k, j>>] <=> \E m \in j..(N + 1) : c[<<k + 1, m>>]
    BY <1>13, <1>14, <2>1
  <2>4. c[<<k, j + 1>>] <=> \E m \in (j + 1)..(N + 1) : c[<<k + 1, m>>]
    BY <1>13, <1>14, <2>1
  <2> QED BY <2>2, <2>3, <2>4
<1> DEFINE S == (1..(P + 1)) \X (1..(N + 1))
           rank == [at \in S |-> (P + 1 - at[1]) + (N + 1 - at[2])]
           U == {at \in S : w[<<at[1], off[at[2]]>>] <=> c[at]}
<1>15. ASSUME NEW at \in S, \A b \in S : rank[b] < rank[at] => b \in U PROVE at \in U
  <2> DEFINE k == at[1]
             j == at[2]
  <2>1. k \in 1..(P + 1) /\ j \in 1..(N + 1) /\ at = <<k, j>>
    OBVIOUS
  <2>2. \A i \in 1..(P + 1), o \in 1..(N + 1) :
           (P + 1 - i) + (N + 1 - o) < (P + 1 - k) + (N + 1 - j) => (w[<<i, off[o]>>] <=> c[<<i, o>>])
    <3> TAKE i \in 1..(P + 1), o \in 1..(N + 1)
    <3>1. <<i, o>> \in S /\ rank[<<i, o>>] = (P + 1 - i) + (N + 1 - o) /\ rank[at] = (P + 1 - k) + (N + 1 - j)
      OBVIOUS
    <3> HAVE (P + 1 - i) + (N + 1 - o) < (P + 1 - k) + (N + 1 - j)
    <3>2. <<i, o>> \in U
      <4> HIDE DEF S, rank, U
      <4> QED BY <1>15, <3>1
    <3> QED BY <3>2
  <2> SUFFICES w[<<k, off[j]>>] <=> c[<<k, j>>]
    BY <2>1
  <2> HIDE DEF k, j, S, rank, U, P, L
  <2>3. off[j] \in 0..L
    BY <1>3, <2>1
  <2>4. w[<<k, off[j]>>] <=> WalkStep(w, parts, path, k, off[j])
    BY <1>2, <2>1, <2>3 DEF IsPathWalk, P, L
  <2>5. CASE k = P + 1
    <3>1. k > P /\ k \notin spans /\ <<k, j>> \notin takes
      BY <1>6, <1>9, <1>10, <2>5
    <3>2. off[j] >= L <=> j = N + 1
      <4>1. j = N + 1 \/ j \in 1..N
        BY <1>3, <2>1
      <4> QED BY <1>3, <1>6, <1>12, <2>3, <4>1
    <3>3. WalkStep(w, parts, path, k, off[j]) <=> off[j] >= L
      BY Zenon, <3>1 DEF WalkStep, P, L
    <3>4. c[<<k, j>>] <=> j = N + 1
      BY Zenon, <1>13, <2>1, <2>5, <3>1
    <3> QED BY Zenon, <2>4, <3>2, <3>3, <3>4
  <2>6. CASE k # P + 1 /\ k \in spans
    <3>1. k \in 1..P /\ ~(k > P) /\ k + 1 \in 1..(P + 1) /\ parts[k] = StarStar
      BY <1>6, <1>7, <2>1, <2>6
    <3>2. w[<<k + 1, off[j]>>] <=> c[<<k + 1, j>>]
      <4>1. (P + 1 - (k + 1)) + (N + 1 - j) < (P + 1 - k) + (N + 1 - j)
        BY <1>3, <1>6, <2>1
      <4> QED BY <2>1, <2>2, <3>1, <4>1
    <3>3. WalkStep(w, parts, path, k, off[j]) <=>
             w[<<k + 1, off[j]>>] \/ (off[j] < L /\ w[<<k, NextComponent(path, off[j])>>])
      BY Zenon, <3>1 DEF WalkStep, P, L
    <3>4. CASE j \in 1..N
      <4>1. w[<<k, off[j + 1]>>] <=> c[<<k, j + 1>>]
        <5>1. j + 1 \in 1..(N + 1) /\ (P + 1 - k) + (N + 1 - (j + 1)) < (P + 1 - k) + (N + 1 - j)
          BY <1>3, <1>6, <2>1, <3>4
        <5> QED BY <2>1, <2>2, <5>1
      <4>2. off[j] < L /\ NextComponent(path, off[j]) = off[j + 1]
        BY <1>12, <3>4
      <4>3. c[<<k, j>>] <=> c[<<k + 1, j>>] \/ c[<<k, j + 1>>]
        BY <1>14, <2>6, <3>1, <3>4
      <4> QED BY Zenon, <2>4, <3>2, <3>3, <4>1, <4>2, <4>3
    <3>5. CASE j = N + 1
      <4>1. ~(off[j] < L)
        BY <1>3, <1>6, <3>5
      <4>2. c[<<k, j>>] <=> c[<<k + 1, j>>]
        <5>1. (N + 1)..(N + 1) = {N + 1}
          BY <1>3
        <5>2. c[<<k, j>>] <=> \E m \in j..(N + 1) : c[<<k + 1, m>>]
          BY <1>13, <2>1, <2>6
        <5> QED BY Zenon, <3>5, <5>1, <5>2
      <4> QED BY Zenon, <2>4, <3>2, <3>3, <4>1, <4>2
    <3>6. j \in 1..N \/ j = N + 1
      BY <1>3, <2>1
    <3> QED BY <3>4, <3>5, <3>6
  <2>7. CASE k # P + 1 /\ k \notin spans
    <3>1. k \in 1..P /\ ~(k > P) /\ k + 1 \in 1..(P + 1) /\ parts[k] # StarStar
      BY <1>6, <1>7, <2>1, <2>7
    <3> DEFINE M == MatchComponent(parts[k], SubSeq(path, off[j] + 1, ComponentEnd(path, off[j])))
    <3>2. WalkStep(w, parts, path, k, off[j]) <=> off[j] < L /\ M /\ w[<<k + 1, NextComponent(path, off[j])>>]
      BY Zenon, <3>1 DEF WalkStep, P, L
    <3>3. c[<<k, j>>] <=> <<k, j>> \in takes /\ c[<<k + 1, j + 1>>]
      BY Zenon, <1>13, <2>1, <2>7
    <3>4. CASE j \in 1..N
      <4>1. w[<<k + 1, off[j + 1]>>] <=> c[<<k + 1, j + 1>>]
        <5>1. j + 1 \in 1..(N + 1)
          BY <1>3, <3>4
        <5>2. (P + 1 - (k + 1)) + (N + 1 - (j + 1)) < (P + 1 - k) + (N + 1 - j)
          BY <1>3, <1>6, <2>1
        <5> QED BY <2>2, <3>1, <5>1, <5>2
      <4>2. off[j] < L /\ NextComponent(path, off[j]) = off[j + 1]
        BY <1>12, <3>4
      <4>3. M <=> <<k, j>> \in takes
        BY <1>11, <3>1, <3>4 DEF P
      <4> HIDE DEF M
      <4> QED BY Zenon, <2>4, <3>2, <3>3, <4>1, <4>2, <4>3
    <3>5. CASE j = N + 1
      <4>1. ~(off[j] < L)
        BY <1>3, <1>6, <3>5
      <4>2. <<k, j>> \notin takes
        <5>1. j \notin 1..N
          BY <1>3, <3>5
        <5> QED BY <1>9, <5>1
      <4> HIDE DEF M
      <4> QED BY Zenon, <2>4, <3>2, <3>3, <4>1, <4>2
    <3>6. j \in 1..N \/ j = N + 1
      BY <1>3, <2>1
    <3> QED BY <3>4, <3>5, <3>6
  <2> QED BY <2>5, <2>6, <2>7
<1>16. S \subseteq U
  <2>1. rank \in [S -> Nat]
    BY <1>3, <1>6
  <2> HIDE DEF S, U, rank
  <2> QED BY <1>15, <2>1, RankedInduction
<1>17. <<1, 1>> \in S /\ <<1, 1>>[1] = 1 /\ <<1, 1>>[2] = 1
  BY <1>3, <1>6
<1>18. w[<<1, off[1]>>] <=> c[<<1, 1>>]
  BY <1>16, <1>17
<1> HIDE DEF S, U, rank, P
<1> QED BY <1>2, <1>3, <1>4, <1>5, <1>18 DEF comps

-----------------------------------------------------------------------------
(* Brace sets *)

\* Flattening puts the parts one behind the other.
IsFlattening(g, D, ss, m) ==
    /\ g \in [0..m -> Seq(D)] /\ g[0] = <<>> /\ FlattenSeq(ss) = g[m]
    /\ \A j \in 1..m : g[j] = g[j - 1] \o ss[j]

LEMMA FlattenGrows ==
    ASSUME NEW D, NEW m \in Nat, NEW ss \in [1..m -> Seq(D)]
    PROVE  \E g : IsFlattening(g, D, ss, m)
<1> DEFINE step == [j \in 1..m |-> [b \in Seq(D) |-> b \o ss[j]]]
<1>1. Len(ss) = m /\ m \in Nat
  OBVIOUS
<1>2. PICK g \in [0..m -> Seq(D)] : g[0] = <<>> /\ \A j \in 1..m : g[j] = step[j][g[j - 1]]
  <2>1. step \in [1..m -> [Seq(D) -> Seq(D)]] /\ <<>> \in Seq(D)
    OBVIOUS
  <2>2. Recursion(Seq(D), m, <<>>, step)
    <3> DEFINE B == Seq(D)
               empty == <<>>
    <3>1. step \in [1..m -> [B -> B]] /\ empty \in B
      BY <2>1
    <3> HIDE DEF step, B, empty
    <3>2. Recursion(B, m, empty, step)
      BY <3>1, RecursionExists
    <3> QED BY <3>2 DEF B, empty
  <2> HIDE DEF step
  <2> QED BY <2>2 DEF Recursion
<1>3. \A j \in 1..m : j - 1 \in 0..m /\ j \in 0..m /\ g[j] = g[j - 1] \o ss[j]
  <2> TAKE j \in 1..m
  <2>1. j - 1 \in 0..m /\ j \in 0..m
    OBVIOUS
  <2>2. step[j] = [b \in Seq(D) |-> b \o ss[j]]
    OBVIOUS
  <2>3. g[j] = step[j][g[j - 1]] /\ g[j - 1] \in Seq(D)
    BY <1>2, <2>1
  <2> HIDE DEF step
  <2> QED BY <2>1, <2>2, <2>3
<1>4. FlattenSeq(ss) = g[m]
  <2>1. CASE m = 0
    <3>1. ss = <<>>
      BY <2>1
    <3> QED BY <1>2, <2>1, <3>1 DEF FlattenSeq
  <2>2. CASE m # 0
    <3> DEFINE again(f) == [i \in 1..m |-> IF i = 1 THEN ss[i] ELSE f[i - 1] \o ss[i]]
               w == CHOOSE f : f = again(f)
               h == [i \in 1..m |-> g[i]]
    <3>1. h = again(h)
      <4>1. ASSUME NEW i \in 1..m PROVE h[i] = IF i = 1 THEN ss[i] ELSE h[i - 1] \o ss[i]
        <5>1. CASE i = 1
          <6>1. g[1] = <<>> \o ss[1] /\ ss[1] \in Seq(D)
            <7>1. 1 \in 1..m /\ 1 - 1 = 0
              BY <2>2
            <7> HIDE DEF step
            <7> QED BY <1>2, <1>3, <7>1
          <6>2. <<>> \o ss[1] = ss[1]
            BY <6>1
          <6> QED BY <5>1, <6>1, <6>2
        <5>2. CASE i # 1
          <6>1. i - 1 \in 1..m
            BY <5>2
          <6> HIDE DEF step
          <6> QED BY <1>3, <5>2, <6>1
        <5> QED BY <5>1, <5>2
      <4>2. again(h) = [i \in 1..m |-> h[i]]
        <5> HIDE DEF h
        <5> QED BY <4>1
      <4> QED BY <4>2
    <3>2. w = again(w)
      <4> HIDE DEF again, h
      <4> QED BY <3>1
    <3> DEFINE V == {k \in 0..m : k = 0 \/ w[k] = g[k]}
    <3>3. \A k \in 0..m : k \in V
      <4>1. 0 \in V
        OBVIOUS
      <4>2. ASSUME NEW k \in 0..(m - 1), k \in V PROVE k + 1 \in V
        <5>1. k + 1 \in 1..m /\ (k + 1) - 1 = k /\ k + 1 \in 0..m
          OBVIOUS
        <5>2. again(w)[k + 1] = IF k + 1 = 1 THEN ss[k + 1] ELSE w[(k + 1) - 1] \o ss[k + 1]
          <6> HIDE DEF w
          <6> QED BY <5>1
        <5>3. w[k + 1] = IF k + 1 = 1 THEN ss[k + 1] ELSE w[k] \o ss[k + 1]
          <6> HIDE DEF w, again
          <6> QED BY <3>2, <5>1, <5>2
        <5> HIDE DEF w, step
        <5>4. CASE k = 0
          <6>1. g[1] = <<>> \o ss[1] /\ ss[1] \in Seq(D)
            <7>1. 1 \in 1..m /\ 1 - 1 = 0
              BY <2>2
            <7> QED BY <1>2, <1>3, <7>1
          <6>2. <<>> \o ss[1] = ss[1]
            BY <6>1
          <6> QED BY <5>1, <5>3, <5>4, <6>1, <6>2
        <5>5. CASE k # 0
          <6>1. w[k] = g[k] /\ k + 1 # 1
            BY <4>2, <5>5
          <6> QED BY <1>3, <5>1, <5>3, <6>1
        <5> QED BY <5>4, <5>5
      <4> HIDE DEF V
      <4> QED BY <4>1, <4>2, Upward
    <3>4. w[m] = g[m]
      <4> HIDE DEF w
      <4> QED BY <2>2, <3>3
    <3>5. FlattenSeq(ss) = w[m]
      BY Zenon, <1>1, <2>2 DEF FlattenSeq
    <3> QED BY <3>4, <3>5
  <2> QED BY <2>1, <2>2
<1> HIDE DEF step
<1>5. IsFlattening(g, D, ss, m)
  BY <1>2, <1>3, <1>4 DEF IsFlattening
<1> QED BY <1>5

\* Flattening keeps every element of every part, and adds none.
LEMMA FlattenSeqIs ==
    ASSUME NEW D, NEW m \in Nat, NEW ss \in [1..m -> Seq(D)]
    PROVE  /\ FlattenSeq(ss) \in Seq(D)
           /\ \A k \in 1..m : Len(ss[k]) <= Len(FlattenSeq(ss))
           /\ ToSet(FlattenSeq(ss)) = UNION {ToSet(ss[k]) : k \in 1..m}
<1>1. PICK g : IsFlattening(g, D, ss, m)
  BY FlattenGrows
<1>2. g \in [0..m -> Seq(D)] /\ g[0] = <<>> /\ FlattenSeq(ss) = g[m] /\ \A j \in 1..m : g[j] = g[j - 1] \o ss[j]
  BY <1>1 DEF IsFlattening
<1>3. \A j \in 1..m : j - 1 \in 0..m /\ j \in 0..m /\ g[j] = g[j - 1] \o ss[j]
  <2>1. \A j \in 1..m : j - 1 \in 0..m /\ j \in 0..m
    OBVIOUS
  <2> QED BY Zenon, <1>2, <2>1
<1> DEFINE T == {k \in 0..m : /\ \A i \in 1..k : Len(ss[i]) <= Len(g[k])
                              /\ \A x : x \in ToSet(g[k]) <=> \E i \in 1..k : x \in ToSet(ss[i])}
<1>4. \A k \in 0..m : k \in T
  <2>1. 0 \in T
    BY <1>2 DEF ToSet
  <2>2. ASSUME NEW k \in 0..(m - 1), k \in T PROVE k + 1 \in T
    <3>1. k + 1 \in 1..m /\ k \in 0..m /\ k + 1 \in 0..m /\ (k + 1) - 1 = k
      OBVIOUS
    <3>2. g[k] \in Seq(D) /\ ss[k + 1] \in Seq(D) /\ g[k + 1] = g[k] \o ss[k + 1]
      BY <1>2, <1>3, <3>1
    <3>3. Len(g[k + 1]) = Len(g[k]) + Len(ss[k + 1]) /\ Len(g[k]) \in Nat /\ Len(ss[k + 1]) \in Nat
      BY <3>2
    <3>4. \A i : i \in 1..(k + 1) <=> i \in 1..k \/ i = k + 1
      BY <3>1
    <3>5. \A i \in 1..(k + 1) : Len(ss[i]) <= Len(g[k + 1])
      <4> TAKE i \in 1..(k + 1)
      <4>1. CASE i = k + 1
        <5> DEFINE x == Len(g[k])
                   y == Len(ss[k + 1])
        <5> HIDE DEF x, y
        <5>1. Len(g[k + 1]) = x + y /\ x \in Nat /\ y \in Nat /\ Len(ss[i]) = y
          BY <3>3, <4>1 DEF x, y
        <5> QED BY <5>1
      <4>2. CASE i \in 1..k
        <5>1. Len(ss[i]) <= Len(g[k]) /\ Len(ss[i]) \in Nat
          <6>1. i \in 1..m
            BY <3>1, <4>2
          <6>2. ss[i] \in Seq(D)
            BY <6>1
          <6>3. Len(ss[i]) \in Nat
            BY <6>2
          <6> QED BY <2>2, <4>2, <6>3
        <5> DEFINE x == Len(g[k])
                   y == Len(ss[k + 1])
                   z == Len(ss[i])
        <5> HIDE DEF x, y, z
        <5>2. Len(g[k + 1]) = x + y /\ x \in Nat /\ y \in Nat /\ z \in Nat /\ z <= x
          BY <3>3, <5>1 DEF x, y, z
        <5>3. z <= Len(g[k + 1])
          BY <5>2
        <5> QED BY <5>3 DEF z
      <4> QED BY <3>4, <4>1, <4>2
    <3>6. \A x : x \in ToSet(g[k + 1]) <=> x \in ToSet(g[k]) \/ x \in ToSet(ss[k + 1])
      <4> DEFINE a == g[k]
                 b == ss[k + 1]
      <4>1. a \in Seq(D) /\ b \in Seq(D)
        BY <3>2
      <4> HIDE DEF a, b
      <4>2. \A x : x \in ToSet(a \o b) <=> x \in ToSet(a) \/ x \in ToSet(b)
        <5> TAKE x
        <5>1. DOMAIN a = 1..Len(a) /\ DOMAIN b = 1..Len(b) /\ DOMAIN (a \o b) = 1..(Len(a) + Len(b))
          BY <4>1
        <5>2. Len(a) \in Nat /\ Len(b) \in Nat
          BY <4>1
        <5>3. \A i \in 1..Len(a) : i \in 1..(Len(a) + Len(b)) /\ (a \o b)[i] = a[i]
          BY <4>1, <5>2
        <5>4. \A i \in 1..Len(b) : Len(a) + i \in 1..(Len(a) + Len(b)) /\ (a \o b)[Len(a) + i] = b[i]
          BY <4>1, <5>2
        <5>5. \A i \in 1..(Len(a) + Len(b)) : i \in 1..Len(a) \/ (i - Len(a) \in 1..Len(b) /\ i = Len(a) + (i - Len(a)))
          BY <5>2
        <5>6. ASSUME x \in ToSet(a \o b) PROVE x \in ToSet(a) \/ x \in ToSet(b)
          <6>1. PICK i \in 1..(Len(a) + Len(b)) : x = (a \o b)[i]
            BY <5>1, <5>6 DEF ToSet
          <6>2. CASE i \in 1..Len(a)
            BY <5>1, <5>3, <6>1, <6>2 DEF ToSet
          <6>3. CASE i \notin 1..Len(a)
            BY <5>1, <5>4, <5>5, <6>1, <6>3 DEF ToSet
          <6> QED BY <6>2, <6>3
        <5>7. ASSUME x \in ToSet(a) PROVE x \in ToSet(a \o b)
          BY <5>1, <5>3, <5>7 DEF ToSet
        <5>8. ASSUME x \in ToSet(b) PROVE x \in ToSet(a \o b)
          BY <5>1, <5>4, <5>8 DEF ToSet
        <5> QED BY <5>6, <5>7, <5>8
      <4> QED BY <3>2, <4>2 DEF a, b
    <3>7. \A x : x \in ToSet(g[k + 1]) <=> \E i \in 1..(k + 1) : x \in ToSet(ss[i])
      <4>1. \A x : x \in ToSet(g[k]) <=> \E i \in 1..k : x \in ToSet(ss[i])
        BY <2>2
      <4> QED BY <3>4, <3>6, <4>1
    <3> QED BY <3>1, <3>5, <3>7
  <2> HIDE DEF T
  <2> QED BY <2>1, <2>2, Upward
<1>5. FlattenSeq(ss) = g[m]
  BY <1>2
<1>6. m \in 0..m /\ m \in T
  <2>1. m \in 0..m
    OBVIOUS
  <2> HIDE DEF T
  <2> QED BY <1>4, <2>1
<1>7. FlattenSeq(ss) \in Seq(D)
  BY <1>2, <1>6
<1> QED BY <1>5, <1>6, <1>7

IsOpen(c) == c = "{"
Shuts(s, left, i) == s[i] = "}" /\ Depth(s, i) = Depth(s, left) - 1

LEMMA MatchingBraceIs ==
    ASSUME NEW D, NEW s \in Seq(D), NEW left \in 1..Len(s)
    PROVE  LET e == MatchingBrace(s, left) IN
           \/ e = 0 /\ \A i \in (left + 1)..Len(s) : ~Shuts(s, left, i)
           \/ e \in (left + 1)..Len(s) /\ Shuts(s, left, e) /\ \A i \in (left + 1)..(e - 1) : ~Shuts(s, left, i)
<1> DEFINE L == Len(s)
           closers == {i \in (left + 1)..L : Shuts(s, left, i)}
<1>1. L \in Nat
  BY LenProperties
<1>2. MatchingBrace(s, left) = IF closers = {} THEN 0 ELSE Min(closers)
  BY Zenon DEF MatchingBrace, Shuts
<1>3. CASE closers = {}
  BY <1>2, <1>3
<1>4. CASE closers # {}
  <2>1. closers \in SUBSET Int /\ \A i \in closers : 0 <= i
    BY <1>1
  <2>2. PICK m \in closers : \A i \in closers : m <= i
    <3> HIDE DEF closers
    <3>1. 0 \in Int /\ closers # {}
      BY <1>4
    <3> QED BY <2>1, <3>1, LeastExists
  <2>3. Min(closers) = m
    <3> HIDE DEF closers
    <3> QED BY <2>1, <2>2, MinIs
  <2>4. m \in (left + 1)..L /\ Shuts(s, left, m)
    BY <2>2
  <2>5. ASSUME NEW i \in (left + 1)..(m - 1), Shuts(s, left, i) PROVE FALSE
    <3>1. i \in closers /\ i < m
      BY <1>1, <2>4, <2>5
    <3> QED BY <2>2, <2>4, <3>1
  <2> QED BY <1>2, <1>4, <2>3, <2>4, <2>5
<1> QED BY <1>3, <1>4

Inner(s, left, right) == SubSeq(s, left + 1, right - 1)
\* The first group of a pattern, and where its alternatives are in it.
IsGroup(s, left, right, n, cut) ==
    /\ left \in 1..Len(s) /\ IsOpen(s[left]) /\ \A i \in 1..(left - 1) : ~IsOpen(s[i])
    /\ right \in (left + 1)..Len(s) /\ right = MatchingBrace(s, left)
    /\ IsSplit(SplitAlternates(Inner(s, left, right)), Inner(s, left, right), Commas(Inner(s, left, right)), n, cut)
    /\ n >= 1 /\ Len(FirstGroup(s)) = n + 1
    /\ FirstGroup(s) = [k \in 1..(n + 1) |->
          SubSeq(s, 1, left - 1) \o SubSeq(Inner(s, left, right), cut[k] + 1, cut[k + 1] - 1)
                                 \o SubSeq(s, right + 1, Len(s))]

LEMMA FirstGroupIs ==
    ASSUME NEW D, NEW s \in Seq(D)
    PROVE  \/ FirstGroup(s) = <<>>
           \/ \E left, right, n, cut : IsGroup(s, left, right, n, cut)
<1> DEFINE L == Len(s)
           opens == {i \in 1..L : IsOpen(s[i])}
           left == Min(opens)
           right == MatchingBrace(s, left)
           group == Inner(s, left, right)
           alts == SplitAlternates(group)
<1>1. L \in Nat
  BY LenProperties
<1> SUFFICES ASSUME FirstGroup(s) # <<>> PROVE \E o, e, n, cut : IsGroup(s, o, e, n, cut)
  OBVIOUS
<1>2. FirstGroup(s) =
         IF opens = {} THEN <<>>
         ELSE IF right = 0 \/ Len(alts) < 2 THEN <<>>
         ELSE [k \in 1..Len(alts) |-> SubSeq(s, 1, left - 1) \o alts[k] \o SubSeq(s, right + 1, L)]
  BY Zenon DEF FirstGroup, Inner, IsOpen
<1>3. opens # {} /\ right # 0 /\ ~(Len(alts) < 2)
      /\ FirstGroup(s) = [k \in 1..Len(alts) |-> SubSeq(s, 1, left - 1) \o alts[k] \o SubSeq(s, right + 1, L)]
  <2> HIDE DEF opens, left, right, alts, L
  <2> QED BY <1>2
<1>4. opens \in SUBSET Int /\ \A i \in opens : 0 <= i
  BY <1>1
<1>5. PICK m \in opens : \A i \in opens : m <= i
  <2> HIDE DEF opens
  <2>1. 0 \in Int /\ opens # {}
    BY <1>3
  <2> QED BY <1>4, <2>1, LeastExists
<1>6. left = m
  <2> HIDE DEF opens
  <2> QED BY <1>4, <1>5, MinIs
<1>7. left \in 1..L /\ IsOpen(s[left]) /\ \A i \in 1..(left - 1) : ~IsOpen(s[i])
  <2>1. m \in 1..L /\ IsOpen(s[m])
    BY <1>5
  <2>2. ASSUME NEW i \in 1..(m - 1), IsOpen(s[i]) PROVE FALSE
    <3>1. i \in opens /\ i < m
      BY <1>1, <2>1, <2>2
    <3> QED BY <1>5, <2>1, <3>1
  <2> HIDE DEF left
  <2> QED BY <1>6, <2>1, <2>2
<1> HIDE DEF opens, left
<1>8. right \in (left + 1)..L
  BY <1>3, <1>7, MatchingBraceIs
<1> HIDE DEF right
<1>9. Len(group) \in Nat
  <2>1. group \in Seq(D)
    BY <1>1, <1>7, <1>8 DEF Inner
  <2> QED BY <2>1, LenProperties
<1> HIDE DEF group
<1>10. PICK n, cut : IsSplit(alts, group, Commas(group), n, cut)
  BY <1>9, SplitIs DEF SplitAlternates
<1> HIDE DEF alts
<1>11. n \in Nat /\ Len(alts) = n + 1 /\ alts = [k \in 1..(n + 1) |-> SubSeq(group, cut[k] + 1, cut[k + 1] - 1)]
  BY <1>10 DEF IsSplit
<1>12. n >= 1
  BY <1>3, <1>11
<1> DEFINE spliced == [k \in 1..(n + 1) |->
              SubSeq(s, 1, left - 1) \o SubSeq(group, cut[k] + 1, cut[k + 1] - 1) \o SubSeq(s, right + 1, L)]
<1>13. FirstGroup(s) = spliced
  BY <1>3, <1>11
<1>14. Len(spliced) = n + 1
  BY <1>11
<1> HIDE DEF spliced
<1>15. IsGroup(s, left, right, n, cut)
  BY Zenon, <1>7, <1>8, <1>10, <1>12, <1>13, <1>14 DEF IsGroup, group, right, alts, L, spliced
<1> QED BY <1>15

\* Every pattern of the first group is shorter than the whole.
LEMMA GroupsShrink ==
    ASSUME NEW D, NEW s \in Seq(D)
    PROVE  FirstGroup(s) \in Seq({t \in Seq(D) : Len(t) < Len(s)})
<1> DEFINE L == Len(s)
           G == {t \in Seq(D) : Len(t) < L}
<1>1. L \in Nat
  BY LenProperties
<1>2. CASE FirstGroup(s) = <<>>
  BY <1>2
<1>3. ASSUME NEW left, NEW right, NEW n, NEW cut, IsGroup(s, left, right, n, cut) PROVE FirstGroup(s) \in Seq(G)
  <2> DEFINE group == Inner(s, left, right)
             part(k) == SubSeq(group, cut[k] + 1, cut[k + 1] - 1)
             head == SubSeq(s, 1, left - 1)
             rest == SubSeq(s, right + 1, L)
  <2>1. left \in 1..L /\ right \in (left + 1)..L
    BY <1>3 DEF IsGroup
  <2>2. group \in Seq(D) /\ Len(group) = (right - 1) - left
    <3>1. SubSeq(s, left + 1, right - 1) \in Seq(D) /\ Len(SubSeq(s, left + 1, right - 1)) = (right - 1) - left
      <4>1. left + 1 \in Int /\ right - 1 \in Int /\ 1 <= left + 1 /\ right - 1 <= L
        BY <1>1, <2>1
      <4>2. CASE left + 1 <= right - 1
        BY <1>1, <2>1, <4>1, <4>2
      <4>3. CASE ~(left + 1 <= right - 1)
        <5>1. right - 1 = left
          BY <1>1, <2>1, <4>3
        <5>2. SubSeq(s, left + 1, left) = <<>>
          BY <1>1, <2>1
        <5>3. <<>> \in Seq(D) /\ Len(<<>>) = 0
          OBVIOUS
        <5> QED BY <1>1, <2>1, <5>1, <5>2, <5>3
      <4> QED BY <4>2, <4>3
    <3> QED BY <3>1 DEF Inner
  <2>3. head \in Seq(D) /\ Len(head) = left - 1 /\ rest \in Seq(D) /\ Len(rest) = L - right
    BY <1>1, <2>1
  <2>4. n \in Nat /\ cut \in [1..(n + 2) -> 0..(Len(group) + 1)]
    BY <1>3 DEF IsGroup, IsSplit
  <2>5. FirstGroup(s) = [k \in 1..(n + 1) |-> head \o part(k) \o rest]
    BY <1>3 DEF IsGroup
  <2> HIDE DEF group, head, rest
  <2>6. ASSUME NEW k \in 1..(n + 1) PROVE head \o part(k) \o rest \in G
    <3> DEFINE a == cut[k]
               b == cut[k + 1]
               mid == SubSeq(group, a + 1, b - 1)
    <3>1. a \in 0..(Len(group) + 1) /\ b \in 0..(Len(group) + 1)
      BY <2>4
    <3> HIDE DEF a, b
    <3>2. mid \in Seq(D) /\ Len(mid) <= Len(group) /\ Len(mid) \in Nat
      <4>1. Len(group) \in Nat
        BY <2>2, LenProperties
      <4>2. CASE a + 1 <= b - 1
        BY <2>2, <3>1, <4>1, <4>2
      <4>3. CASE ~(a + 1 <= b - 1)
        <5>1. mid = <<>>
          BY <2>2, <3>1, <4>1, <4>3
        <5>2. <<>> \in Seq(D) /\ Len(<<>>) = 0
          OBVIOUS
        <5> HIDE DEF mid
        <5> QED BY <4>1, <5>1, <5>2
      <4> QED BY <4>2, <4>3
    <3> HIDE DEF mid
    <3>3. head \o mid \o rest \in Seq(D) /\ Len(head \o mid \o rest) = Len(head) + Len(mid) + Len(rest)
      <4> DEFINE both == head \o mid
      <4>1. both \in Seq(D) /\ Len(both) = Len(head) + Len(mid)
        BY <2>3, <3>2, ConcatProperties
      <4> HIDE DEF both
      <4>2. both \o rest \in Seq(D) /\ Len(both \o rest) = Len(both) + Len(rest)
        BY <2>3, <4>1, ConcatProperties
      <4>3. Len(both \o rest) = Len(head) + Len(mid) + Len(rest)
        BY <4>1, <4>2
      <4> QED BY <4>2, <4>3 DEF both
    <3>4. Len(head) + Len(mid) + Len(rest) < L
      <4> DEFINE w == Len(mid)
      <4> HIDE DEF w, L
      <4>1. w \in Nat /\ w <= (right - 1) - left
        BY <2>2, <3>2 DEF w
      <4>2. (left - 1) + w + (L - right) < L
        BY <1>1, <2>1, <4>1
      <4> QED BY <2>3, <4>2 DEF w
    <3> QED BY <3>3, <3>4 DEF mid, a, b
  <2> HIDE DEF G, part
  <2> QED BY <2>4, <2>5, <2>6
<1> HIDE DEF G
<1> QED BY <1>2, <1>3, FirstGroupIs DEF G

\* One step of the expansion of a pattern, given what the `later` ones are expanded to.
Expanded(later, s) ==
    IF FirstGroup(s) = <<>> THEN <<s>>
    ELSE Capped(FlattenSeq([k \in 1..Len(FirstGroup(s)) |-> later[FirstGroup(s)[k]]]))
Characters(s) == {s[i] : i \in DOMAIN s}
IsExpansion(e, pattern) ==
    /\ e \in [Shorter(pattern) -> Seq(Seq(Characters(pattern)))]
    /\ \A s \in Shorter(pattern) : e[s] = Expanded(e, s)

LEMMA CappedIs ==
    ASSUME NEW D, NEW s \in Seq(D)
    PROVE  Capped(s) \in Seq(D) /\ Len(Capped(s)) <= Len(s) /\ ToSet(Capped(s)) \subseteq ToSet(s)
           /\ (Len(Capped(s)) < MaxGlobExpansions => Capped(s) = s)
<1> DEFINE L == Len(s)
           n == IF L < MaxGlobExpansions THEN L ELSE MaxGlobExpansions
<1>1. L \in Nat /\ DOMAIN s = 1..L
  BY LenProperties
<1> HIDE DEF L
<1>2. n \in 0..L /\ n \in Nat /\ (n < MaxGlobExpansions => n = L)
  BY <1>1, GlobAssumption
<1>3. Capped(s) = SubSeq(s, 1, n)
  BY DEF Capped, L
<1> HIDE DEF n
<1>4. SubSeq(s, 1, n) \in Seq(D) /\ Len(SubSeq(s, 1, n)) = n /\ \A i \in 1..n : SubSeq(s, 1, n)[i] = s[i]
  <2>1. s \in [1..L -> D]
    BY LenProperties DEF L
  <2>2. \A i \in 1..n : i \in 1..L
    BY <1>1, <1>2
  <2>3. 1 \in Int /\ n \in Int /\ \A i \in 1..n : s[i] \in D
    BY <1>2, <2>1, <2>2
  <2>4. /\ SubSeq(s, 1, n) \in Seq(D)
        /\ Len(SubSeq(s, 1, n)) = IF 1 <= n THEN (n - 1) + 1 ELSE 0
        /\ \A i \in 1..((n - 1) + 1) : SubSeq(s, 1, n)[i] = s[(1 + i) - 1]
    BY <2>3, SubSeqProperties
  <2>5. (n - 1) + 1 = n /\ (~(1 <= n) => n = 0) /\ \A i \in 1..n : (1 + i) - 1 = i
    BY <1>2
  <2> QED BY <2>4, <2>5
<1> DEFINE c == SubSeq(s, 1, n)
<1> HIDE DEF c
<1>5. c \in Seq(D) /\ Len(c) = n /\ \A i \in 1..n : c[i] = s[i]
  BY <1>4 DEF c
<1>6. DOMAIN c = 1..n /\ \A i \in 1..n : i \in 1..L
  <2>1. DOMAIN c = 1..Len(c)
    BY <1>5, LenProperties
  <2>2. \A i \in 1..n : i \in 1..L
    BY <1>1, <1>2
  <2> QED BY <1>5, <2>1, <2>2
<1>7. ToSet(c) \subseteq ToSet(s)
  BY <1>1, <1>5, <1>6 DEF ToSet
<1>8. n = L => c = s
  BY <1>1, <1>5 DEF L
<1>9. n <= L
  BY <1>1, <1>2
<1> QED BY <1>2, <1>3, <1>5, <1>7, <1>8, <1>9 DEF c, L

LEMMA ExpandBracesIs ==
    ASSUME NEW D, NEW pattern \in Seq(D)
    PROVE  \E e : IsExpansion(e, pattern) /\ ExpandBraces(pattern) = e[pattern]
<1> DEFINE C == Characters(pattern)
           L == Len(pattern)
           S == Shorter(pattern)
           B == Seq(Seq(C))
           again(f) == [s \in S |-> LET each == FirstGroup(s)
                                    IN IF each = <<>> THEN <<s>>
                                       ELSE Capped(FlattenSeq([k \in 1..Len(each) |-> f[each[k]]]))]
           F == [f \in [S -> B] |-> again(f)]
           rank == [s \in S |-> Len(s)]
<1>1. L \in Nat /\ pattern \in Seq(C)
  <2>1. pattern \in [1..L -> C] /\ L \in Nat
    BY LenProperties DEF Characters
  <2> QED BY <2>1
<1>2. S = {s \in Seq(C) : Len(s) <= L}
  BY Zenon DEF Shorter, Characters
<1>3. \A f : again(f) = [s \in S |-> Expanded(f, s)]
  BY Zenon DEF Expanded
<1> HIDE DEF again, S, C
<1>4. ASSUME NEW s \in S
      PROVE  /\ s \in Seq(C) /\ Len(FirstGroup(s)) \in Nat
             /\ \A k \in 1..Len(FirstGroup(s)) : FirstGroup(s)[k] \in S /\ Len(FirstGroup(s)[k]) < Len(s)
  <2>1. s \in Seq(C) /\ Len(s) <= L /\ Len(s) \in Nat
    BY <1>2, LenProperties
  <2> DEFINE G == {t \in Seq(C) : Len(t) < Len(s)}
             each == FirstGroup(s)
  <2>2. each \in Seq(G)
    BY <2>1, GroupsShrink
  <2>3. ASSUME NEW k \in 1..Len(each) PROVE each[k] \in G
    <3> HIDE DEF G, each
    <3> QED BY <2>2
  <2>4. \A t \in G : t \in S /\ Len(t) < Len(s)
    <3> TAKE t \in G
    <3>1. t \in Seq(C) /\ Len(t) < Len(s) /\ Len(t) \in Nat
      BY LenProperties
    <3>2. Len(t) <= L
      BY <1>1, <2>1, <3>1
    <3> QED BY <1>2, <3>1, <3>2
  <2>5. Len(each) \in Nat
    <3> HIDE DEF G, each
    <3> QED BY <2>2, LenProperties
  <2> HIDE DEF G
  <2> QED BY <2>1, <2>3, <2>4, <2>5
<1>5. ASSUME NEW f \in [S -> B], NEW s \in S PROVE Expanded(f, s) \in B
  <2>1. CASE FirstGroup(s) = <<>>
    <3>1. <<s>> \in B
      BY <1>4
    <3> HIDE DEF B
    <3> QED BY <2>1, <3>1 DEF Expanded
  <2>2. CASE FirstGroup(s) # <<>>
    <3> DEFINE n == Len(FirstGroup(s))
               ss == [k \in 1..n |-> f[FirstGroup(s)[k]]]
               A == Seq(C)
    <3>1. n \in Nat /\ ss \in [1..n -> Seq(A)]
      <4> HIDE DEF A
      <4>1. B = Seq(A)
        BY DEF A
      <4> HIDE DEF B
      <4> QED BY <1>4, <4>1
    <3>2. Expanded(f, s) = Capped(FlattenSeq(ss))
      BY Zenon, <2>2 DEF Expanded
    <3> HIDE DEF n, ss, A
    <3>3. FlattenSeq(ss) \in Seq(A)
      BY <3>1, FlattenSeqIs
    <3>4. Capped(FlattenSeq(ss)) \in Seq(A)
      BY <3>3, CappedIs
    <3> QED BY <3>2, <3>4 DEF A
  <2> QED BY <2>1, <2>2
<1>6. ASSUME NEW f, NEW g, NEW s \in S, \A t \in S : rank[t] < rank[s] => f[t] = g[t]
      PROVE  Expanded(f, s) = Expanded(g, s)
  <2> DEFINE n == Len(FirstGroup(s))
  <2>1. \A k \in 1..n : f[FirstGroup(s)[k]] = g[FirstGroup(s)[k]]
    <3> TAKE k \in 1..n
    <3>1. FirstGroup(s)[k] \in S /\ Len(FirstGroup(s)[k]) < Len(s)
      BY <1>4
    <3> QED BY <1>6, <3>1
  <2>2. [k \in 1..n |-> f[FirstGroup(s)[k]]] = [k \in 1..n |-> g[FirstGroup(s)[k]]]
    <3> HIDE DEF n
    <3> QED BY <2>1
  <2> QED BY Zenon, <2>2 DEF Expanded
<1>7. rank \in [S -> 0..L]
  <2>1. \A s \in S : Len(s) \in 0..L
    <3> TAKE s \in S
    <3>1. s \in Seq(C) /\ Len(s) <= L
      BY <1>2
    <3>2. Len(s) \in Nat
      BY <3>1, LenProperties
    <3> QED BY <1>1, <3>1, <3>2
  <2> QED BY <2>1
<1>8. \E f \in [S -> B] : F[f] = f
  <2>1. F \in [[S -> B] -> [S -> B]]
    <3> HIDE DEF B
    <3> QED BY <1>3, <1>5
  <2>2. B # {}
    <3>1. <<>> \in B
      OBVIOUS
    <3> HIDE DEF B
    <3> QED BY <3>1
  <2>3. \A f, g \in [S -> B], s \in S : (\A t \in S : rank[t] < rank[s] => f[t] = g[t]) => F[f][s] = F[g][s]
    <3> HIDE DEF B, rank
    <3> QED BY <1>3, <1>6
  <2>4. IsRanked(S, B, L, rank, F)
    <3> HIDE DEF B, rank, F, L
    <3> QED BY <1>1, <1>7, <2>1, <2>2, <2>3 DEF IsRanked, L
  <2> HIDE DEF B, rank, F
  <2> QED BY <2>4, RankedExists
<1>9. PICK e \in [S -> B] : e = again(e)
  <2> HIDE DEF B
  <2> QED BY <1>8
<1> DEFINE w == CHOOSE f : f = again(f)
<1>10. w = again(w)
  <2> HIDE DEF B
  <2> QED BY <1>9
<1>11. ExpandBraces(pattern) = w[pattern]
  BY Zenon DEF ExpandBraces, again, S
<1> HIDE DEF w
<1>12. w = [s \in S |-> Expanded(w, s)]
  BY <1>3, <1>10
<1>13. \A s \in S : w[s] = Expanded(w, s)
  BY <1>12
<1> DEFINE U == {s \in S : w[s] = e[s]}
<1>14. S \subseteq U
  <2>1. \A s \in S : e[s] = Expanded(e, s)
    <3> HIDE DEF B
    <3> QED BY <1>3, <1>9
  <2>2. ASSUME NEW s \in S, \A t \in S : rank[t] < rank[s] => t \in U PROVE s \in U
    <3>1. \A t \in S : rank[t] < rank[s] => w[t] = e[t]
      <4> HIDE DEF rank
      <4> QED BY <2>2
    <3>2. Expanded(w, s) = Expanded(e, s)
      <4> HIDE DEF rank, B
      <4> QED BY <1>6, <3>1
    <3> QED BY <1>13, <2>1, <3>2
  <2>3. rank \in [S -> Nat]
    <3>1. \A n \in 0..L : n \in Nat
      BY <1>1
    <3> HIDE DEF rank
    <3> QED BY <1>7, <3>1
  <2> HIDE DEF U, rank
  <2> QED BY <2>2, <2>3, RankedInduction
<1>15. w \in [S -> B]
  <2>1. \A s \in S : Expanded(w, s) \in B
    <3> HIDE DEF B
    <3> QED BY <1>9, <1>13, <1>14
  <2> HIDE DEF B
  <2> QED BY <1>12, <2>1
<1>16. IsExpansion(w, pattern)
  BY Zenon, <1>13, <1>15 DEF IsExpansion, S, C
<1> QED BY <1>11, <1>16

LEMMA ExpansionTyped ==
    ASSUME NEW D, NEW pattern \in Seq(D)
    PROVE  ExpandBraces(pattern) \in Seq(Seq(Characters(pattern)))
<1>1. PICK e : IsExpansion(e, pattern) /\ ExpandBraces(pattern) = e[pattern]
  BY ExpandBracesIs
<1>2. pattern \in Shorter(pattern)
  <2>1. pattern \in [1..Len(pattern) -> Characters(pattern)] /\ Len(pattern) \in Nat
    BY LenProperties DEF Characters
  <2>2. pattern \in Seq(Characters(pattern)) /\ Len(pattern) <= Len(pattern)
    BY <2>1
  <2> QED BY Zenon, <2>2 DEF Shorter, Characters
<1> QED BY <1>1, <1>2 DEF IsExpansion

-----------------------------------------------------------------------------
(* The two matchers of a glob *)

LEMMA BaseIs ==
    ASSUME NEW D, NEW path \in Seq(D)
    PROVE  \E a \in 1..(Len(path) + 1) : Base(path) = SubSeq(path, a, Len(path))
<1> DEFINE L == Len(path)
           I == {i \in 1..L : path[i] = "/"}
           l == IF I = {} THEN 0 ELSE Max(I)
<1>1. L \in Nat
  BY LenProperties
<1>2. SelectLastInSeq(path, LAMBDA c : c = "/") = l
  BY Zenon DEF SelectLastInSeq
<1>3. Base(path) = SubSeq(path, 1 + l, L)
  BY Zenon, <1>2 DEF Base
<1>4. l \in 0..L
  <2>1. CASE I = {}
    BY <1>1, <2>1
  <2>2. CASE I # {}
    <3>1. I \in SUBSET Int /\ I # {} /\ L \in Int /\ \A i \in I : i <= L
      BY <1>1, <2>2
    <3>2. PICK m \in I : \A i \in I : i <= m
      <4> HIDE DEF I, L
      <4> QED BY <3>1, GreatestExists
    <3>3. Max(I) = m
      <4> HIDE DEF I
      <4> QED BY <3>1, <3>2, MaxIs
    <3>4. m \in 0..L
      BY <1>1, <3>2
    <3> HIDE DEF I
    <3> QED BY <2>2, <3>3, <3>4
  <2> QED BY <2>1, <2>2
<1> HIDE DEF l
<1>5. 1 + l \in 1..(L + 1)
  BY <1>1, <1>4
<1> QED BY <1>3, <1>5

\* The parts of a pattern that has any are those between its slashes.
LEMMA PatternParts ==
    ASSUME NEW C, NEW c \in Seq(C), c # <<>>, ~IsPrefix(<<".", "/">>, c), c # <<".">>
    PROVE  /\ TrimDot(c) = c
           /\ Len(SplitPath(c)) \in Nat
           /\ \A k \in 1..Len(SplitPath(c)) : Len(SplitPath(c)[k]) \in Nat
           /\ ~Contains(c, "/") => SplitPath(c)[1] = c
<1> DEFINE L == Len(c)
           S == {i \in 1..L : c[i] = "/"}
           r == Split(c, S)
<1>1. TrimDot(c) = c
  BY Zenon DEF TrimDot
<1>2. c \notin {<<>>, <<".">>}
  OBVIOUS
<1>3. SplitPath(c) = r
  BY Zenon, <1>1, <1>2 DEF SplitPath
<1>4. L \in Nat
  BY LenProperties
<1>5. PICK n, cut : IsSplit(r, c, S, n, cut)
  <2> HIDE DEF S
  <2> QED BY <1>4, SplitIs
<1> HIDE DEF S
<1>6. /\ n \in Nat /\ cut \in [1..(n + 2) -> 0..(L + 1)] /\ Len(r) = n + 1 /\ cut[1] = 0 /\ cut[n + 2] = L + 1
      /\ r = [k \in 1..(n + 1) |-> SubSeq(c, cut[k] + 1, cut[k + 1] - 1)]
  BY <1>5 DEF IsSplit
<1> HIDE DEF r, L
<1>7. ASSUME NEW k \in 1..(n + 1) PROVE Len(r[k]) \in Nat
  <2> DEFINE a == cut[k] + 1
             b == cut[k + 1] - 1
  <2>1. a \in 1..(L + 2) /\ b \in (-1)..L
    <3>1. k \in 1..(n + 2) /\ k + 1 \in 1..(n + 2)
      BY <1>6
    <3>2. cut[k] \in 0..(L + 1) /\ cut[k + 1] \in 0..(L + 1)
      BY <1>6, <3>1
    <3> QED BY <1>4, <3>2
  <2>2. r[k] = SubSeq(c, a, b)
    BY <1>6
  <2> HIDE DEF a, b
  <2>3. \A i \in a..b : c[i] \in C
    <3>1. \A i \in a..b : i \in 1..L
      BY <1>4, <2>1
    <3> QED BY <3>1 DEF L
  <2>4. a \in Int /\ b \in Int
    BY <1>4, <2>1
  <2>5. SubSeq(c, a, b) \in Seq(C)
    BY <2>3, <2>4, SubSeqProperties
  <2> QED BY <2>2, <2>5, LenProperties
<1>8. ASSUME ~Contains(c, "/") PROVE r[1] = c
  <2>1. \A o : o \notin S
    <3>1. \A i \in 1..L : c[i] # "/"
      BY <1>8 DEF Contains, L
    <3> QED BY <3>1 DEF S
  <2>2. n = 0
    <3>1. n >= 1 => 2 \in 2..(n + 1)
      BY <1>6
    <3>2. \A k \in 2..(n + 1) : cut[k] \in S
      BY <1>5 DEF IsSplit
    <3> QED BY <1>6, <2>1, <3>1, <3>2
  <2>3. r[1] = SubSeq(c, 1, L)
    <3>1. r[1] = SubSeq(c, cut[1] + 1, cut[2] - 1) /\ cut[1] = 0 /\ cut[2] = L + 1
      BY <1>6, <2>2
    <3>2. 0 + 1 = 1 /\ (L + 1) - 1 = L
      BY <1>4
    <3> QED BY <3>1, <3>2
  <2>4. SubSeq(c, 1, L) = c
    BY <1>4 DEF L
  <2> QED BY <2>3, <2>4
<1>9. Len(r) \in Nat
  BY <1>6
<1> QED BY <1>1, <1>3, <1>6, <1>7, <1>8, <1>9

Compiled(c) == [parts |-> SplitPath(TrimDot(c)), base |-> ~Contains(TrimDot(c), "/")]

LEMMA AltMatches ==
    ASSUME NEW C, NEW c \in Seq(C), c # <<>>, ~IsPrefix(<<".", "/">>, c), c # <<".">>,
           NEW D, NEW path \in Seq(D), Relative(path)
    PROVE  MatchAlt(Compiled(c), path) <=> MatchGlobOne(c, path)
<1>1. TrimDot(path) = path /\ path \notin {<<>>, <<".">>} /\ ~Contains(path, "*")
  BY DEF Relative
<1>2. /\ TrimDot(c) = c /\ Len(SplitPath(c)) \in Nat
      /\ \A k \in 1..Len(SplitPath(c)) : Len(SplitPath(c)[k]) \in Nat
      /\ ~Contains(c, "/") => SplitPath(c)[1] = c
  BY PatternParts
<1>3. Compiled(c).parts = SplitPath(c) /\ Compiled(c).base = ~Contains(c, "/")
  <2>1. Compiled(c) = [parts |-> SplitPath(c), base |-> ~Contains(c, "/")]
    BY Zenon, <1>2 DEF Compiled
  <2> QED BY <2>1
<1>4. CASE Contains(c, "/")
  <2>1. MatchAlt(Compiled(c), path) <=> MatchPartsFrom(SplitPath(c), path)
    BY Zenon, <1>1, <1>3, <1>4 DEF MatchAlt
  <2>2. MatchPartsFrom(SplitPath(c), path) <=> MatchParts(SplitPath(c), SplitPath(path))
    BY <1>2, PartsMatch
  <2> QED BY Zenon, <1>4, <2>1, <2>2 DEF MatchGlobOne
<1>5. CASE ~Contains(c, "/")
  <2>1. MatchAlt(Compiled(c), path) <=> MatchComponent(c, Base(path))
    BY Zenon, <1>1, <1>2, <1>3, <1>5 DEF MatchAlt
  <2>2. Len(Base(path)) \in Nat /\ \A j \in 1..Len(Base(path)) : Base(path)[j] # "*"
    <3>1. PICK a \in 1..(Len(path) + 1) : Base(path) = SubSeq(path, a, Len(path))
      BY BaseIs
    <3>2. Len(path) \in 0..Len(path)
      BY LenProperties
    <3>3. Len(SubSeq(path, a, Len(path))) \in Nat
          /\ \A j \in 1..Len(SubSeq(path, a, Len(path))) : SubSeq(path, a, Len(path))[j] # "*"
      BY <1>1, <3>2, NoStarIn
    <3> QED BY <3>1, <3>3
  <2>3. Len(c) \in Nat
    BY LenProperties
  <2>4. MatchComponent(c, Base(path)) <=> FilepathMatch(c, Base(path))
    BY <2>2, <2>3, ComponentMatches
  <2> QED BY Zenon, <1>5, <2>1, <2>4 DEF MatchGlobOne
<1> QED BY <1>4, <1>5

LEMMA MatchersAgree ==
    ASSUME NEW C, NEW q \in Seq(C), NEW D, NEW path \in Seq(D), Named(q), Relative(path)
    PROVE  Match(CompileGlob(q), path) = MatchGlob(q, path)
<1> DEFINE E == ExpandBraces(q)
           A == Characters(q)
<1>1. E \in Seq(Seq(A))
  BY ExpansionTyped
<1>2. CompileGlob(q) = [k \in 1..Len(E) |-> Compiled(E[k])]
  BY Zenon DEF CompileGlob, Compiled
<1> HIDE DEF E, A
<1>3. Len(E) \in Nat /\ DOMAIN E = 1..Len(E) /\ \A k \in 1..Len(E) : E[k] \in Seq(A)
  BY <1>1
<1>4. \A k \in 1..Len(E) : E[k] # <<>> /\ ~IsPrefix(<<".", "/">>, E[k]) /\ E[k] # <<".">>
  <2>1. \A k \in 1..Len(E) : E[k] \in ToSet(E)
    BY Zenon, <1>3 DEF ToSet
  <2> QED BY Zenon, <2>1 DEF Named, E
<1>5. \A k \in 1..Len(E) : MatchAlt(Compiled(E[k]), path) <=> MatchGlobOne(E[k], path)
  BY <1>3, <1>4, AltMatches
<1> DEFINE m == [k \in 1..Len(E) |-> Compiled(E[k])]
<1>6. Len(m) = Len(E) /\ \A k \in 1..Len(E) : m[k] = Compiled(E[k])
  BY <1>3
<1> HIDE DEF m
<1>7. Match(m, path) <=> \E k \in 1..Len(E) : MatchAlt(Compiled(E[k]), path)
  BY Zenon, <1>6 DEF Match
<1>8. MatchGlob(q, path) <=> \E k \in 1..Len(E) : MatchGlobOne(E[k], path)
  <2>1. MatchGlob(q, path) <=> \E c \in ToSet(E) : MatchGlobOne(c, path)
    BY Zenon DEF MatchGlob, E
  <2>2. \A c : c \in ToSet(E) <=> \E k \in 1..Len(E) : c = E[k]
    BY Zenon, <1>3 DEF ToSet
  <2> QED BY Zenon, <2>1, <2>2
<1>9. Match(m, path) \in BOOLEAN /\ MatchGlob(q, path) \in BOOLEAN
  BY DEF Match, MatchGlob
<1> QED BY Zenon, <1>2, <1>5, <1>7, <1>8, <1>9 DEF m

-----------------------------------------------------------------------------
(* How deep a character is in its brace sets *)

IsClose(c) == c = "}"
IsComma(c) == c = ","
Turn(c) == (IF IsOpen(c) THEN 1 ELSE 0) - (IF IsClose(c) THEN 1 ELSE 0)

LEMMA TurnIs ==
    ASSUME NEW c
    PROVE  /\ Turn(c) \in {-1, 0, 1}
           /\ Turn(c) > 0 => IsOpen(c)
           /\ Turn(c) < 0 => IsClose(c)
           /\ IsOpen(c) => ~IsClose(c) /\ Turn(c) = 1
           /\ IsClose(c) => Turn(c) = -1
           /\ ~IsOpen(c) /\ ~IsClose(c) => Turn(c) = 0
           /\ IsComma(c) => ~IsOpen(c) /\ ~IsClose(c)
<1>1. IsOpen(c) => ~IsClose(c)
  BY Zenon DEF IsOpen, IsClose
<1>2. IsComma(c) => ~IsOpen(c) /\ ~IsClose(c)
  BY Zenon DEF IsOpen, IsClose, IsComma
<1>3. /\ Turn(c) \in {-1, 0, 1}
      /\ Turn(c) > 0 => IsOpen(c)
      /\ Turn(c) < 0 => IsClose(c)
      /\ IsOpen(c) => Turn(c) = 1
      /\ IsClose(c) => Turn(c) = -1
      /\ ~IsOpen(c) /\ ~IsClose(c) => Turn(c) = 0
  BY <1>1 DEF Turn
<1> QED BY <1>1, <1>2, <1>3

LEMMA DepthIs ==
    ASSUME NEW D, NEW s \in Seq(D)
    PROVE  /\ Depth(s, 0) = 0
           /\ \A i \in 0..Len(s) : Depth(s, i) \in Int
           /\ \A i \in 1..Len(s) : Depth(s, i) = Depth(s, i - 1) + Turn(s[i])
<1> DEFINE O(i) == {j \in 1..i : IsOpen(s[j])}
           Q(i) == {j \in 1..i : IsClose(s[j])}
<1>1. \A i : Depth(s, i) = Cardinality(O(i)) - Cardinality(Q(i))
  BY Zenon DEF Depth, IsOpen, IsClose
<1>2. ASSUME NEW i \in Nat PROVE IsFiniteSet(O(i)) /\ Cardinality(O(i)) \in Nat /\ IsFiniteSet(Q(i)) /\ Cardinality(Q(i)) \in Nat
  <2>1. IsFiniteSet(1..i)
    BY FS_Interval
  <2>2. O(i) \in SUBSET (1..i) /\ Q(i) \in SUBSET (1..i)
    OBVIOUS
  <2> HIDE DEF O, Q
  <2>3. IsFiniteSet(O(i)) /\ IsFiniteSet(Q(i))
    BY <2>1, <2>2, FS_Subset
  <2> QED BY <2>3, FS_CardinalityType
<1>3. Depth(s, 0) = 0
  <2>1. O(0) = {} /\ Q(0) = {}
    OBVIOUS
  <2> HIDE DEF O, Q
  <2>2. Depth(s, 0) = Cardinality({}) - Cardinality({})
    BY <1>1, <2>1
  <2>3. Cardinality({}) = 0
    BY FS_EmptySet
  <2> QED BY <2>2, <2>3
<1>4. ASSUME NEW i \in Nat PROVE Depth(s, i) \in Int
  <2> HIDE DEF O, Q
  <2>1. Cardinality(O(i)) \in Nat /\ Cardinality(Q(i)) \in Nat
    BY <1>2
  <2> DEFINE x == Cardinality(O(i))
             y == Cardinality(Q(i))
  <2> HIDE DEF x, y
  <2>2. x - y \in Int
    BY <2>1 DEF x, y
  <2> QED BY <1>1, <2>2 DEF x, y
<1>5. ASSUME NEW i \in 1..Len(s) PROVE Depth(s, i) = Depth(s, i - 1) + Turn(s[i])
  <2>1. i \in Nat /\ i - 1 \in Nat /\ i \notin 1..(i - 1) /\ 1..i = (1..(i - 1)) \cup {i}
    BY LenProperties
  <2>2. O(i) = (IF IsOpen(s[i]) THEN O(i - 1) \cup {i} ELSE O(i - 1)) /\ i \notin O(i - 1)
    BY <2>1
  <2>3. Q(i) = (IF IsClose(s[i]) THEN Q(i - 1) \cup {i} ELSE Q(i - 1)) /\ i \notin Q(i - 1)
    BY <2>1
  <2> HIDE DEF O, Q
  <2>4. /\ Cardinality(O(i - 1)) \in Nat /\ Cardinality(Q(i - 1)) \in Nat
        /\ IsFiniteSet(O(i - 1)) /\ IsFiniteSet(Q(i - 1))
    BY <1>2, <2>1
  <2>5. Cardinality(O(i)) = Cardinality(O(i - 1)) + (IF IsOpen(s[i]) THEN 1 ELSE 0)
    <3> DEFINE A == O(i)
               B == O(i - 1)
    <3>1. A = (IF IsOpen(s[i]) THEN B \cup {i} ELSE B) /\ i \notin B /\ IsFiniteSet(B) /\ Cardinality(B) \in Nat
      BY <2>2, <2>4
    <3> HIDE DEF A, B
    <3>2. Cardinality(B \cup {i}) = Cardinality(B) + 1
      BY <3>1, FS_AddElement
    <3>3. Cardinality(A) = Cardinality(B) + (IF IsOpen(s[i]) THEN 1 ELSE 0)
      BY <3>1, <3>2
    <3> QED BY <3>3 DEF A, B
  <2>6. Cardinality(Q(i)) = Cardinality(Q(i - 1)) + (IF IsClose(s[i]) THEN 1 ELSE 0)
    <3> DEFINE A == Q(i)
               B == Q(i - 1)
    <3>1. A = (IF IsClose(s[i]) THEN B \cup {i} ELSE B) /\ i \notin B /\ IsFiniteSet(B) /\ Cardinality(B) \in Nat
      BY <2>3, <2>4
    <3> HIDE DEF A, B
    <3>2. Cardinality(B \cup {i}) = Cardinality(B) + 1
      BY <3>1, FS_AddElement
    <3>3. Cardinality(A) = Cardinality(B) + (IF IsClose(s[i]) THEN 1 ELSE 0)
      BY <3>1, <3>2
    <3> QED BY <3>3 DEF A, B
  <2> DEFINE x == Cardinality(O(i - 1))
             y == Cardinality(Q(i - 1))
             u == IF IsOpen(s[i]) THEN 1 ELSE 0
             v == IF IsClose(s[i]) THEN 1 ELSE 0
  <2>7. u \in Int /\ v \in Int
    OBVIOUS
  <2>8. Turn(s[i]) = u - v
    BY DEF Turn
  <2> HIDE DEF x, y, u, v
  <2>9. Depth(s, i) = (x + u) - (y + v) /\ Depth(s, i - 1) = x - y
    BY <1>1, <2>5, <2>6 DEF x, y, u, v
  <2>10. x \in Int /\ y \in Int
    BY <2>4 DEF x, y
  <2>11. (x + u) - (y + v) = (x - y) + (u - v)
    BY <2>7, <2>10
  <2> QED BY <2>8, <2>9, <2>11
<1>6. \A i \in 0..Len(s) : i \in Nat
  BY LenProperties
<1> QED BY <1>3, <1>4, <1>5, <1>6

\* Two patterns with a stretch of n characters in common, after the first a and b.
Aligned(t, a, s, b, n) ==
    /\ a \in Nat /\ b \in Nat /\ n \in Nat /\ a + n <= Len(t) /\ b + n <= Len(s)
    /\ \A i \in 1..n : t[a + i] = s[b + i]

LEMMA DepthShift ==
    ASSUME NEW D, NEW s \in Seq(D), NEW t \in Seq(D), NEW a, NEW b, NEW n, Aligned(t, a, s, b, n)
    PROVE  \A i \in 0..n : Depth(t, a + i) - Depth(t, a) = Depth(s, b + i) - Depth(s, b)
<1> DEFINE T == {i \in 0..n : Depth(t, a + i) - Depth(t, a) = Depth(s, b + i) - Depth(s, b)}
<1>1. /\ a \in Nat /\ b \in Nat /\ n \in Nat /\ a + n <= Len(t) /\ b + n <= Len(s) /\ Len(s) \in Nat /\ Len(t) \in Nat
      /\ \A i \in 1..n : t[a + i] = s[b + i]
  BY LenProperties DEF Aligned
<1>2. Depth(t, a) \in Int /\ Depth(s, b) \in Int
  <2>1. a \in 0..Len(t) /\ b \in 0..Len(s)
    BY <1>1
  <2> QED BY <2>1, DepthIs
<1>3. 0 \in T
  <2>1. a + 0 = a /\ b + 0 = b /\ 0 \in 0..n
    BY <1>1
  <2>2. Depth(t, a) - Depth(t, a) = 0 /\ Depth(s, b) - Depth(s, b) = 0
    BY <1>2
  <2> QED BY <2>1, <2>2
<1>4. ASSUME NEW i \in 0..(n - 1), i \in T PROVE i + 1 \in T
  <2>1. /\ i + 1 \in 1..n /\ i + 1 \in 0..n /\ a + (i + 1) \in 1..Len(t) /\ b + (i + 1) \in 1..Len(s)
        /\ (a + (i + 1)) - 1 = a + i /\ (b + (i + 1)) - 1 = b + i /\ a + i \in 0..Len(t) /\ b + i \in 0..Len(s)
    <3> DEFINE x == Len(t)
               y == Len(s)
    <3> HIDE DEF x, y
    <3>1. a \in Nat /\ b \in Nat /\ n \in Nat /\ a + n <= x /\ b + n <= y /\ x \in Nat /\ y \in Nat
      BY <1>1 DEF x, y
    <3>2. i \in Nat /\ i + 1 <= n
      BY <3>1
    <3>3. /\ i + 1 \in 1..n /\ i + 1 \in 0..n /\ a + (i + 1) \in 1..x /\ b + (i + 1) \in 1..y
          /\ (a + (i + 1)) - 1 = a + i /\ (b + (i + 1)) - 1 = b + i /\ a + i \in 0..x /\ b + i \in 0..y
      BY <3>1, <3>2
    <3> QED BY <3>3 DEF x, y
  <2> DEFINE c == s[b + (i + 1)]
             x == Depth(t, a + i)
             y == Depth(s, b + i)
             u == Depth(t, a)
             v == Depth(s, b)
             z == Turn(c)
  <2>2. Depth(t, a + (i + 1)) = x + z
    <3>1. Depth(t, a + (i + 1)) = Depth(t, (a + (i + 1)) - 1) + Turn(t[a + (i + 1)])
      BY <2>1, DepthIs
    <3> QED BY <1>1, <2>1, <3>1
  <2>3. Depth(s, b + (i + 1)) = y + z
    <3>1. Depth(s, b + (i + 1)) = Depth(s, (b + (i + 1)) - 1) + Turn(s[b + (i + 1)])
      BY <2>1, DepthIs
    <3> QED BY <2>1, <3>1
  <2>4. x \in Int /\ y \in Int /\ z \in Int /\ u \in Int /\ v \in Int
    <3>0. z \in {-1, 0, 1}
      BY TurnIs
    <3> HIDE DEF z
    <3>1. z \in Int
      BY <3>0
    <3> QED BY <1>2, <2>1, <3>1, DepthIs
  <2>5. x - u = y - v
    BY <1>4
  <2> HIDE DEF x, y, z, u, v
  <2>6. (x + z) - u = (y + z) - v
    BY <2>4, <2>5
  <2>7. Depth(t, a + (i + 1)) - Depth(t, a) = Depth(s, b + (i + 1)) - Depth(s, b)
    BY <2>2, <2>3, <2>6 DEF u, v
  <2> QED BY <2>1, <2>7
<1>5. \A i \in 0..n : i \in T
  <2> HIDE DEF T
  <2> QED BY <1>1, <1>3, <1>4, Upward
<1> QED BY <1>5

LEMMA BetweenBraces ==
    ASSUME NEW D, NEW s \in Seq(D), NEW p \in 1..Len(s), MatchingBrace(s, p) # 0
    PROVE  LET q == MatchingBrace(s, p) IN
           /\ q \in (p + 1)..Len(s) /\ IsClose(s[q]) /\ Depth(s, q) = Depth(s, p) - 1
           /\ \A i \in p..(q - 1) : Depth(s, i) >= Depth(s, p)
<1> DEFINE q == MatchingBrace(s, p)
           L == Len(s)
<1>1. q \in (p + 1)..L /\ Shuts(s, p, q) /\ \A i \in (p + 1)..(q - 1) : ~Shuts(s, p, i)
  BY MatchingBraceIs
<1> HIDE DEF q
<1>2. \A i : Shuts(s, p, i) <=> IsClose(s[i]) /\ Depth(s, i) = Depth(s, p) - 1
  BY Zenon DEF Shuts, IsClose
<1>3. L \in Nat
  BY LenProperties
<1> DEFINE n == (q - 1) - p
           T == {i \in 0..n : Depth(s, p + i) >= Depth(s, p)}
<1>4. n \in Nat
  BY <1>1, <1>3
<1>5. Depth(s, p) \in Int /\ \A i \in 0..n : p + i \in 0..L /\ Depth(s, p + i) \in Int
  <2>1. p \in 0..L /\ \A i \in 0..n : p + i \in 0..L
    BY <1>1, <1>3
  <2> QED BY <2>1, DepthIs
<1>6. 0 \in T
  <2>1. p + 0 = p /\ 0 \in 0..n
    BY <1>4
  <2> HIDE DEF n
  <2> QED BY <1>5, <2>1
<1>7. ASSUME NEW i \in 0..(n - 1), i \in T PROVE i + 1 \in T
  <2>1. /\ i \in 0..n /\ i + 1 \in 0..n /\ p + (i + 1) \in (p + 1)..(q - 1) /\ p + (i + 1) \in 1..L
        /\ (p + (i + 1)) - 1 = p + i
    BY <1>1, <1>3, <1>4
  <2> DEFINE c == s[p + (i + 1)]
             x == Depth(s, p + i)
             y == Depth(s, p + (i + 1))
             u == Depth(s, p)
             z == Turn(c)
  <2>2. y = x + z
    <3>1. y = Depth(s, (p + (i + 1)) - 1) + Turn(s[p + (i + 1)])
      BY <2>1, DepthIs
    <3> QED BY <2>1, <3>1
  <2>3. x \in Int /\ u \in Int /\ z \in {-1, 0, 1} /\ (z < 0 => IsClose(c))
    <3>1. z \in {-1, 0, 1} /\ (z < 0 => IsClose(c))
      BY TurnIs
    <3> HIDE DEF z
    <3> QED BY <1>5, <2>1, <3>1
  <2>4. x >= u
    BY <1>7
  <2>5. ~(IsClose(c) /\ y = u - 1)
    BY <1>1, <1>2, <2>1
  <2> HIDE DEF x, y, z, u, c
  <2>6. y >= u
    BY <2>2, <2>3, <2>4, <2>5
  <2> QED BY <2>1, <2>6 DEF y, u
<1>8. \A i \in 0..n : i \in T
  <2> HIDE DEF T, n
  <2> QED BY <1>4, <1>6, <1>7, Upward
<1>9. ASSUME NEW i \in p..(q - 1) PROVE Depth(s, i) >= Depth(s, p)
  <2>1. i - p \in 0..n /\ p + (i - p) = i
    BY <1>1, <1>3
  <2>2. i - p \in T
    <3> HIDE DEF T, n
    <3> QED BY <1>8, <2>1
  <2> QED BY <2>1, <2>2
<1> QED BY <1>1, <1>2, <1>9 DEF q

\* Which brace shuts another is seen from the characters between them.
LEMMA BraceShift ==
    ASSUME NEW D, NEW s \in Seq(D), NEW t \in Seq(D), NEW a, NEW b, NEW n, Aligned(t, a, s, b, n),
           NEW p \in 1..n, NEW q \in 1..n, MatchingBrace(s, b + p) = b + q
    PROVE  MatchingBrace(t, a + p) = a + q
<1>1. /\ a \in Nat /\ b \in Nat /\ n \in Nat /\ a + n <= Len(t) /\ b + n <= Len(s) /\ Len(s) \in Nat /\ Len(t) \in Nat
      /\ \A i \in 1..n : t[a + i] = s[b + i]
  BY LenProperties DEF Aligned
<1>2. b + p \in 1..Len(s) /\ a + p \in 1..Len(t)
  BY <1>1
<1>3. ASSUME NEW i \in (p + 1)..n
      PROVE  Shuts(t, a + p, a + i) <=> Shuts(s, b + p, b + i)
  <2>1. i \in 1..n /\ i \in 0..n /\ p \in 0..n
    BY <1>1
  <2>2. t[a + i] = s[b + i]
    BY <1>1, <2>1
  <2> DEFINE x == Depth(t, a + i)  y == Depth(t, a + p)  z == Depth(t, a)
             u == Depth(s, b + i)  v == Depth(s, b + p)  w == Depth(s, b)
  <2>3. x - z = u - w /\ y - z = v - w
    BY <2>1, DepthShift
  <2>4. x \in Int /\ y \in Int /\ z \in Int /\ u \in Int /\ v \in Int /\ w \in Int
    <3>1. /\ a + i \in 0..Len(t) /\ a + p \in 0..Len(t) /\ a \in 0..Len(t)
          /\ b + i \in 0..Len(s) /\ b + p \in 0..Len(s) /\ b \in 0..Len(s)
      BY <1>1, <2>1
    <3> QED BY <3>1, DepthIs
  <2> HIDE DEF x, y, z, u, v, w
  <2>5. x = y - 1 <=> u = v - 1
    BY <2>3, <2>4
  <2> QED BY Zenon, <2>2, <2>5 DEF Shuts, x, y, u, v
<1> DEFINE m == MatchingBrace(t, a + p)
<1>4. b + q # 0
  BY <1>1
<1>5. b + q \in ((b + p) + 1)..Len(s) /\ Shuts(s, b + p, b + q) /\ \A i \in ((b + p) + 1)..((b + q) - 1) : ~Shuts(s, b + p, i)
  BY <1>2, <1>4, MatchingBraceIs
<1>6. q \in (p + 1)..n
  BY <1>1, <1>5
<1>7. Shuts(t, a + p, a + q)
  BY <1>3, <1>5, <1>6
<1>8. \/ m = 0 /\ \A i \in ((a + p) + 1)..Len(t) : ~Shuts(t, a + p, i)
      \/ m \in ((a + p) + 1)..Len(t) /\ Shuts(t, a + p, m) /\ \A i \in ((a + p) + 1)..(m - 1) : ~Shuts(t, a + p, i)
  BY <1>2, MatchingBraceIs
<1> HIDE DEF m
<1>9. a + q \in ((a + p) + 1)..Len(t)
  BY <1>1, <1>6
<1>10. m \in ((a + p) + 1)..Len(t) /\ Shuts(t, a + p, m) /\ \A i \in ((a + p) + 1)..(m - 1) : ~Shuts(t, a + p, i)
  BY <1>7, <1>8, <1>9
<1>11. ~(a + q < m)
  <2> SUFFICES ASSUME a + q < m PROVE FALSE
    OBVIOUS
  <2>1. a + q \in ((a + p) + 1)..(m - 1)
    BY <1>1, <1>9, <1>10
  <2> QED BY <1>7, <1>10, <2>1
<1>12. ~(m < a + q)
  <2> SUFFICES ASSUME m < a + q PROVE FALSE
    OBVIOUS
  <2>1. m - a \in (p + 1)..n /\ a + (m - a) = m /\ b + (m - a) \in ((b + p) + 1)..((b + q) - 1)
    BY <1>1, <1>6, <1>10
  <2>2. Shuts(s, b + p, b + (m - a))
    BY <1>3, <1>10, <2>1
  <2> QED BY <1>5, <2>1, <2>2
<1> QED BY <1>1, <1>10, <1>11, <1>12 DEF m

LEMMA ShiftedSize ==
    ASSUME NEW A \in SUBSET Int, NEW B \in SUBSET Int, IsFiniteSet(A), NEW d \in Int,
           \A y \in Int : y \in A <=> y + d \in B
    PROVE  Cardinality(B) = Cardinality(A)
<1> DEFINE f == [y \in A |-> y + d]
<1>1. f \in [A -> B]
  OBVIOUS
<1>2. \A x, y \in A : x + d = y + d => x = y
  OBVIOUS
<1>3. \A z \in B : z - d \in A /\ (z - d) + d = z
  OBVIOUS
<1>4. f \in Bijection(A, B)
  <2>1. \A x, y \in A : f[x] = f[y] => x = y
    BY <1>2
  <2>2. \A z \in B : \E y \in A : f[y] = z
    BY <1>3
  <2> HIDE DEF f
  <2> QED BY <1>1, <2>1, <2>2 DEF Bijection, Injection, Surjection, IsInjective
<1>5. ExistsBijection(A, B)
  <2> HIDE DEF f
  <2> QED BY <1>4 DEF ExistsBijection
<1> QED BY <1>5, FS_Bijection

\* So is what a group has in it: where its alternatives are separated, and which is which.
LEMMA GroupShift ==
    ASSUME NEW D, NEW s \in Seq(D), NEW t \in Seq(D), NEW a, NEW b, NEW n, Aligned(t, a, s, b, n),
           NEW p \in 1..n, NEW q \in 1..n, MatchingBrace(s, b + p) = b + q
    PROVE  /\ \A y \in Int : y \in Within(s, b + p) <=> y + (a - b) \in Within(t, a + p)
           /\ \A y \in Int : y \in Separators(s, b + p) <=> y + (a - b) \in Separators(t, a + p)
           /\ Cardinality(Separators(s, b + p)) = Cardinality(Separators(t, a + p))
           /\ \A m, y \in Int : y \in Chosen(s, b + p, m) <=> y + (a - b) \in Chosen(t, a + p, m)
<1> DEFINE d == a - b
           W == Within(s, b + p)
           V == Within(t, a + p)
           S == Separators(s, b + p)
           T == Separators(t, a + p)
<1>1. /\ a \in Nat /\ b \in Nat /\ n \in Nat /\ a + n <= Len(t) /\ b + n <= Len(s) /\ Len(s) \in Nat /\ Len(t) \in Nat
      /\ \A i \in 1..n : t[a + i] = s[b + i]
  BY LenProperties DEF Aligned
<1>2. MatchingBrace(t, a + p) = a + q
  BY BraceShift
<1>3. d \in Int /\ p \in Int /\ q \in Int
  BY <1>1
<1>4. W = ((b + p) + 1)..((b + q) - 1) /\ V = ((a + p) + 1)..((a + q) - 1)
  BY <1>2 DEF Within
<1> HIDE DEF W, V, S, T
<1>5. \A y \in Int : y \in W <=> y + d \in V
  <2> TAKE y \in Int
  <2> QED BY <1>1, <1>3, <1>4
<1>6. \A y : (y \in S <=> y \in W /\ s[y] = "," /\ Depth(s, y) = Depth(s, b + p))
  BY DEF S, W, Separators
<1>7. \A y : (y \in T <=> y \in V /\ t[y] = "," /\ Depth(t, y) = Depth(t, a + p))
  BY DEF T, V, Separators
<1>8. ASSUME NEW y \in W
      PROVE  t[y + d] = s[y] /\ (Depth(s, y) = Depth(s, b + p) <=> Depth(t, y + d) = Depth(t, a + p))
  <2> DEFINE x == y - b
  <2>1. x \in 1..n /\ x \in 0..n /\ p \in 0..n /\ b + x = y /\ a + x = y + d
    BY <1>1, <1>3, <1>4
  <2> HIDE DEF x, d
  <2>2. t[y + d] = s[y]
    BY <1>1, <2>1
  <2> DEFINE e == Depth(t, a + x)  f == Depth(t, a + p)  g == Depth(t, a)
             u == Depth(s, b + x)  v == Depth(s, b + p)  w == Depth(s, b)
  <2>3. e - g = u - w /\ f - g = v - w
    BY <2>1, DepthShift
  <2>4. e \in Int /\ f \in Int /\ g \in Int /\ u \in Int /\ v \in Int /\ w \in Int
    <3>1. /\ a + x \in 0..Len(t) /\ a + p \in 0..Len(t) /\ a \in 0..Len(t)
          /\ b + x \in 0..Len(s) /\ b + p \in 0..Len(s) /\ b \in 0..Len(s)
      BY <1>1, <2>1
    <3> QED BY <3>1, DepthIs
  <2> HIDE DEF e, f, g, u, v, w
  <2>5. u = v <=> e = f
    BY <2>3, <2>4
  <2>6. u = Depth(s, y) /\ v = Depth(s, b + p) /\ e = Depth(t, y + d) /\ f = Depth(t, a + p)
    BY <2>1 DEF u, v, e, f
  <2> QED BY Zenon, <2>2, <2>5, <2>6
<1> HIDE DEF d
<1>9. \A y \in Int : y \in S <=> y + d \in T
  BY Zenon, <1>5, <1>6, <1>7, <1>8
<1>10. W \subseteq Int /\ V \subseteq Int /\ IsFiniteSet(W) /\ IsFiniteSet(V)
  <2>1. (b + p) + 1 \in Int /\ (b + q) - 1 \in Int /\ (a + p) + 1 \in Int /\ (a + q) - 1 \in Int
    BY <1>1
  <2>2. W \subseteq Int /\ V \subseteq Int
    BY <1>4
  <2>3. IsFiniteSet(W) /\ IsFiniteSet(V)
    BY <1>4, <2>1, FS_Interval
  <2> QED BY <2>2, <2>3
<1>11. S \subseteq W /\ T \subseteq V /\ S \in SUBSET Int /\ T \in SUBSET Int /\ IsFiniteSet(S)
  <2>1. S \subseteq W /\ T \subseteq V
    BY Zenon, <1>6, <1>7
  <2>2. IsFiniteSet(S)
    BY <1>10, <2>1, FS_Subset
  <2> QED BY <1>10, <2>1, <2>2
<1>12. Cardinality(S) = Cardinality(T)
  BY <1>3, <1>9, <1>11, ShiftedSize
<1>13. ASSUME NEW y \in Int
       PROVE  Cardinality({c \in S : c < y}) = Cardinality({c \in T : c < y + d})
  <2> DEFINE A == {c \in S : c < y}
             B == {c \in T : c < y + d}
  <2>1. A \in SUBSET Int /\ B \in SUBSET Int /\ A \in SUBSET S
    BY <1>11
  <2>2. IsFiniteSet(A)
    <3> HIDE DEF A
    <3> QED BY <1>11, <2>1, FS_Subset
  <2>3. \A c \in Int : c \in A <=> c + d \in B
    <3> TAKE c \in Int
    <3>1. c < y <=> c + d < y + d
      BY <1>3
    <3> QED BY <1>9, <3>1
  <2> HIDE DEF A, B
  <2>4. Cardinality(B) = Cardinality(A)
    BY <1>3, <2>1, <2>2, <2>3, ShiftedSize
  <2> QED BY <2>4 DEF A, B
<1>14. ASSUME NEW m, NEW y \in Int
       PROVE  y \in Chosen(s, b + p, m) <=> y + d \in Chosen(t, a + p, m)
  <2>1. y \in Chosen(s, b + p, m) <=> y \in W /\ y \notin S /\ Cardinality({c \in S : c < y}) = m
    BY Zenon DEF Chosen, W, S
  <2>2. y + d \in Chosen(t, a + p, m) <=> y + d \in V /\ y + d \notin T /\ Cardinality({c \in T : c < y + d}) = m
    BY Zenon DEF Chosen, V, T
  <2> QED BY Zenon, <1>5, <1>9, <1>13, <2>1, <2>2
<1> QED BY Zenon, <1>5, <1>9, <1>12, <1>14 DEF W, V, S, T, d

-----------------------------------------------------------------------------
(* The first group of a pattern whose braces all belong to sets *)

LEMMA SubSeqIs ==
    ASSUME NEW D, NEW s \in Seq(D), NEW a \in 1..(Len(s) + 1), NEW b \in (a - 1)..Len(s)
    PROVE  /\ SubSeq(s, a, b) \in Seq(D) /\ Len(SubSeq(s, a, b)) = (b - a) + 1 /\ (b - a) + 1 \in Nat
           /\ \A i \in 1..((b - a) + 1) : SubSeq(s, a, b)[i] = s[(a - 1) + i]
<1> DEFINE L == Len(s)
<1>1. L \in Nat /\ s \in [1..L -> D]
  BY LenProperties
<1> HIDE DEF L
<1>2. a \in 1..(L + 1) /\ b \in (a - 1)..L
  BY DEF L
<1>3. a \in Int /\ b \in Int /\ a - 1 <= b
  BY <1>1, <1>2
<1>4. \A i \in a..b : s[i] \in D
  <2>1. \A i \in a..b : i \in 1..L
    BY <1>1, <1>2
  <2> QED BY <1>1, <2>1
<1>5. /\ SubSeq(s, a, b) \in Seq(D)
      /\ Len(SubSeq(s, a, b)) = IF a <= b THEN (b - a) + 1 ELSE 0
      /\ \A i \in 1..((b - a) + 1) : SubSeq(s, a, b)[i] = s[(a + i) - 1]
  BY <1>3, <1>4, SubSeqProperties
<1>6. ~(a <= b) => (b - a) + 1 = 0
  BY <1>3
<1>7. \A i \in 1..((b - a) + 1) : (a + i) - 1 = (a - 1) + i
  BY <1>3
<1>8. (b - a) + 1 \in Nat
  BY <1>3
<1> QED BY <1>5, <1>6, <1>7, <1>8

LEMMA GroupedOpens ==
    ASSUME NEW D, NEW s \in Seq(D), Grouped(s), NEW i \in 1..Len(s), IsOpen(s[i])
    PROVE  MatchingBrace(s, i) # 0 /\ Commas(SubSeq(s, i + 1, MatchingBrace(s, i) - 1)) # {}
<1>1. Commas(SubSeq(s, i + 1, MatchingBrace(s, i) - 1)) # {}
  BY Zenon DEF Grouped, IsOpen
<1>2. CASE MatchingBrace(s, i) = 0
  <2>1. i + 1 \in Int /\ 0 - 1 \in Int /\ 0 - 1 < i + 1
    BY LenProperties
  <2>2. SubSeq(s, i + 1, 0 - 1) = <<>>
    BY <2>1, SubSeqEmpty
  <2>3. Len(<<>>) = 0 /\ 1..0 = {}
    OBVIOUS
  <2>4. Commas(<<>>) = {}
    BY <2>3 DEF Commas
  <2> QED BY <1>1, <1>2, <2>2, <2>4
<1> QED BY <1>1, <1>2

\* A grouped pattern has a first group to expand, or no brace that opens one.
LEMMA GroupedFirst ==
    ASSUME NEW D, NEW s \in Seq(D), Grouped(s)
    PROVE  \/ FirstGroup(s) = <<>> /\ \A i \in 1..Len(s) : ~IsOpen(s[i])
           \/ FirstGroup(s) # <<>> /\ \E left, right, n, cut : IsGroup(s, left, right, n, cut)
<1>1. CASE FirstGroup(s) # <<>>
  BY <1>1, FirstGroupIs
<1>2. CASE FirstGroup(s) = <<>>
  <2> SUFFICES ASSUME NEW j \in 1..Len(s), IsOpen(s[j]) PROVE FALSE
    BY <1>2
  <2> DEFINE L == Len(s)
             opens == {i \in 1..L : IsOpen(s[i])}
             left == Min(opens)
             right == MatchingBrace(s, left)
             group == SubSeq(s, left + 1, right - 1)
             alts == SplitAlternates(group)
  <2>1. L \in Nat
    BY LenProperties
  <2>2. opens \in SUBSET Int /\ opens # {} /\ 0 \in Int /\ \A i \in opens : 0 <= i
    BY <2>1
  <2>3. PICK m \in opens : \A i \in opens : m <= i
    <3> HIDE DEF opens
    <3> QED BY <2>2, LeastExists
  <2>4. left = m
    <3> HIDE DEF opens
    <3> QED BY <2>2, <2>3, MinIs
  <2>5. left \in 1..L /\ IsOpen(s[left])
    <3>1. m \in 1..L /\ IsOpen(s[m])
      BY <2>3
    <3> HIDE DEF left
    <3> QED BY <2>4, <3>1
  <2>6. FirstGroup(s) =
           IF opens = {} THEN <<>>
           ELSE IF right = 0 \/ Len(alts) < 2 THEN <<>>
           ELSE [k \in 1..Len(alts) |-> SubSeq(s, 1, left - 1) \o alts[k] \o SubSeq(s, right + 1, L)]
    BY Zenon DEF FirstGroup, IsOpen
  <2> HIDE DEF opens, left, L
  <2>7. right # 0 /\ Commas(group) # {}
    BY <2>5, GroupedOpens DEF L
  <2>8. Len(group) \in Nat
    <3>1. right \in (left + 1)..L
      BY <2>5, <2>7, MatchingBraceIs DEF L
    <3> HIDE DEF right
    <3>2. left + 1 \in 1..(L + 1) /\ right - 1 \in ((left + 1) - 1)..L
      BY <2>1, <2>5, <3>1
    <3>3. group \in Seq(D)
      BY <3>2, SubSeqIs DEF L
    <3> QED BY <3>3, LenProperties
  <2> HIDE DEF right, group
  <2>9. PICK n, cut : IsSplit(alts, group, Commas(group), n, cut)
    BY <2>8, SplitIs DEF SplitAlternates
  <2>10. n \in Nat /\ Len(alts) = n + 1
    BY <2>9 DEF IsSplit
  <2>11. n >= 1
    <3>1. PICK o : o \in Commas(group)
      BY <2>7
    <3>2. o \in 1..Len(group)
      BY <3>1 DEF Commas
    <3>3. PICK k \in 2..(n + 1) : cut[k] = o
      BY <2>9, <3>1, <3>2 DEF IsSplit
    <3>4. 2 <= k /\ k <= n + 1
      BY <2>10
    <3> QED BY <2>10, <3>4
  <2> HIDE DEF alts
  <2> DEFINE all == [k \in 1..Len(alts) |-> SubSeq(s, 1, left - 1) \o alts[k] \o SubSeq(s, right + 1, L)]
  <2>12. FirstGroup(s) = all
    <3>1. ~(Len(alts) < 2)
      BY <2>10, <2>11
    <3> HIDE DEF all
    <3> QED BY <2>2, <2>6, <2>7, <3>1 DEF all
  <2>13. Len(all) = n + 1
    BY <2>10
  <2> HIDE DEF all
  <2>14. Len(<<>>) = 0
    OBVIOUS
  <2> QED BY <1>2, <2>10, <2>12, <2>13, <2>14
<1> QED BY <1>1, <1>2

\* How deep the characters of the first group are, and where its alternatives are separated.
FirstDepths(s, left, right, n, cut) ==
    /\ left \in Nat /\ right \in Nat /\ n \in Nat /\ 1 <= left /\ left < right /\ right <= Len(s)
    /\ right = MatchingBrace(s, left)
    /\ cut \in [1..(n + 2) -> 0..(right - left)] /\ cut[1] = 0 /\ cut[n + 2] = right - left
    /\ \A i \in 0..(left - 1) : Depth(s, i) = 0
    /\ \A i \in 1..(left - 1) : ~IsOpen(s[i]) /\ ~IsClose(s[i])
    /\ IsOpen(s[left]) /\ IsClose(s[right]) /\ Depth(s, left) = 1 /\ Depth(s, right) = 0
    /\ \A i \in left..(right - 1) : Depth(s, i) >= 1
    /\ \A i, j \in 1..(n + 2) : i < j => cut[i] < cut[j]
    /\ \A y : y \in Separators(s, left) <=> \E x \in 2..(n + 1) : y = left + cut[x]
    /\ \A x \in 1..(n + 1) : Depth(s, left + cut[x]) = 1
    /\ \A x \in 2..(n + 2) : Depth(s, (left + cut[x]) - 1) = 1

LEMMA FirstDepthsIs ==
    ASSUME NEW D, NEW s \in Seq(D), Grouped(s), NEW left, NEW right, NEW n, NEW cut,
           IsGroup(s, left, right, n, cut)
    PROVE  FirstDepths(s, left, right, n, cut)
<1> DEFINE L == Len(s)
           group == Inner(s, left, right)
           N == Len(group)
<1>1. L \in Nat /\ left \in 1..L /\ IsOpen(s[left]) /\ right \in (left + 1)..L /\ right = MatchingBrace(s, left)
      /\ \A i \in 1..(left - 1) : ~IsOpen(s[i])
  BY LenProperties DEF IsGroup
<1>2. /\ n \in Nat /\ cut \in [1..(n + 2) -> 0..(N + 1)] /\ cut[1] = 0 /\ cut[n + 2] = N + 1
      /\ \A i, j \in 1..(n + 2) : i < j => cut[i] < cut[j]
      /\ \A k \in 2..(n + 1) : cut[k] \in Commas(group) /\ cut[k] \in 1..N
      /\ \A o \in 1..N : o \in Commas(group) => \E k \in 2..(n + 1) : cut[k] = o
  BY DEF IsGroup, IsSplit
<1>3. /\ group \in Seq(D) /\ N = (right - left) - 1 /\ N \in Nat
      /\ \A i \in 1..N : group[i] = s[left + i]
  <2>1. left + 1 \in 1..(L + 1) /\ right - 1 \in ((left + 1) - 1)..L
    BY <1>1
  <2>2. /\ group \in Seq(D) /\ N = ((right - 1) - (left + 1)) + 1 /\ ((right - 1) - (left + 1)) + 1 \in Nat
        /\ \A i \in 1..(((right - 1) - (left + 1)) + 1) : group[i] = s[((left + 1) - 1) + i]
    BY <2>1, SubSeqIs DEF Inner
  <2>3. ((right - 1) - (left + 1)) + 1 = (right - left) - 1 /\ (left + 1) - 1 = left
    BY <1>1
  <2> QED BY <2>2, <2>3
<1> HIDE DEF group, N, L
<1>4. \A i \in 0..L : Depth(s, i) \in Int
  BY DepthIs DEF L
<1>5. \A i \in 0..(left - 1) : Depth(s, i) = 0
  <2> DEFINE T == {i \in 0..(left - 1) : Depth(s, i) = 0}
  <2>1. 0 \in T
    BY <1>1, DepthIs
  <2>2. ASSUME NEW i \in 0..((left - 1) - 1), i \in T PROVE i + 1 \in T
    <3>1. i + 1 \in 1..(left - 1) /\ i + 1 \in 1..L /\ (i + 1) - 1 = i /\ i + 1 \in 0..(left - 1) /\ i + 1 \in 0..L
      BY <1>1
    <3>2. Depth(s, i + 1) = Depth(s, i) + Turn(s[i + 1])
      BY <3>1, DepthIs DEF L
    <3>3. Depth(s, i + 1) >= 0
      BY <3>1 DEF Grouped, L
    <3>4. Turn(s[i + 1]) \in {-1, 0, 1} /\ ~(Turn(s[i + 1]) > 0)
      BY <1>1, <3>1, TurnIs
    <3>5. Depth(s, i) = 0
      BY <2>2
    <3> DEFINE z == Turn(s[i + 1])
               y == Depth(s, i + 1)
    <3> HIDE DEF z, y
    <3>6. y = 0 + z /\ y >= 0 /\ z \in {-1, 0, 1} /\ ~(z > 0)
      BY <3>2, <3>3, <3>4, <3>5 DEF z, y
    <3>7. y = 0
      BY <3>6
    <3> QED BY <3>1, <3>7 DEF y
  <2>3. left - 1 \in Nat
    BY <1>1
  <2>4. \A i \in 0..(left - 1) : i \in T
    <3> HIDE DEF T
    <3> QED BY <2>1, <2>2, <2>3, Upward
  <2> QED BY <2>4
<1>6. \A i \in 1..(left - 1) : ~IsOpen(s[i]) /\ ~IsClose(s[i])
  <2> TAKE i \in 1..(left - 1)
  <2>1. i \in 1..L /\ i \in 0..(left - 1) /\ i - 1 \in 0..(left - 1)
    BY <1>1
  <2>2. Depth(s, i) = Depth(s, i - 1) + Turn(s[i])
    BY <2>1, DepthIs DEF L
  <2>3. Depth(s, i) = 0 /\ Depth(s, i - 1) = 0
    BY <1>5, <2>1
  <2>4. IsClose(s[i]) => Turn(s[i]) = -1
    BY TurnIs
  <2>5. ~IsClose(s[i])
    BY <2>2, <2>3, <2>4
  <2> QED BY <1>1, <2>5
<1>7. Depth(s, left) = 1
  <2>1. Depth(s, left) = Depth(s, left - 1) + Turn(s[left])
    BY <1>1, DepthIs DEF L
  <2>2. Turn(s[left]) = 1
    BY <1>1, TurnIs
  <2>3. Depth(s, left - 1) = 0
    <3>1. left - 1 \in 0..(left - 1)
      BY <1>1
    <3> QED BY <1>5, <3>1
  <2> QED BY <2>1, <2>2, <2>3
<1>8. IsClose(s[right]) /\ Depth(s, right) = 0 /\ \A i \in left..(right - 1) : Depth(s, i) >= 1
  <2>1. left \in 1..Len(s) /\ MatchingBrace(s, left) # 0
    BY <1>1 DEF L
  <2>2. IsClose(s[right]) /\ Depth(s, right) = Depth(s, left) - 1 /\ \A i \in left..(right - 1) : Depth(s, i) >= Depth(s, left)
    BY <1>1, <2>1, BetweenBraces
  <2> QED BY <1>7, <2>2
<1>9. \A i \in 1..N : Depth(group, i) = 0 <=> Depth(s, left + i) = 1
  <2>1. Aligned(group, 0, s, left, N)
    <3>1. 0 \in Nat /\ left \in Nat /\ N \in Nat /\ 0 + N <= N /\ left + N <= L /\ \A i \in 1..N : 0 + i = i
      BY <1>1, <1>3
    <3> QED BY <1>3, <3>1 DEF Aligned, N, L
  <2>2. \A i \in 0..N : Depth(group, 0 + i) - Depth(group, 0) = Depth(s, left + i) - Depth(s, left)
    BY <1>3, <2>1, DepthShift
  <2> TAKE i \in 1..N
  <2>3. 0 + i = i /\ i \in 0..N /\ left + i \in 0..L
    BY <1>1, <1>3
  <2>4. Depth(group, 0) = 0 /\ Depth(group, i) \in Int /\ Depth(s, left + i) \in Int
    BY <1>3, <1>4, <2>3, DepthIs DEF N
  <2>5. Depth(group, i) - 0 = Depth(s, left + i) - 1
    BY <1>7, <2>2, <2>3, <2>4
  <2> QED BY <2>4, <2>5
<1>10. \A y : y \in Separators(s, left) <=> \E x \in 2..(n + 1) : y = left + cut[x]
  <2> TAKE y
  <2>1. y \in Separators(s, left) <=> y \in (left + 1)..(right - 1) /\ IsComma(s[y]) /\ Depth(s, y) = 1
    BY Zenon, <1>1, <1>7 DEF Separators, Within, IsComma
  <2>2. \A o : o \in Commas(group) <=> o \in 1..N /\ IsComma(group[o]) /\ Depth(group, o) = 0
    BY Zenon DEF Commas, N, IsComma
  <2>3. ASSUME y \in Separators(s, left) PROVE \E x \in 2..(n + 1) : y = left + cut[x]
    <3>1. y - left \in 1..N /\ left + (y - left) = y
      <4>1. y \in (left + 1)..(right - 1)
        BY <2>1, <2>3
      <4>2. left \in Int /\ right \in Int /\ N = (right - left) - 1
        BY <1>1, <1>3
      <4> QED BY <4>1, <4>2
    <3>2. y - left \in Commas(group)
      BY <1>3, <1>9, <2>1, <2>2, <2>3, <3>1
    <3>3. PICK k \in 2..(n + 1) : cut[k] = y - left
      BY <1>2, <3>1, <3>2
    <3> QED BY <3>1, <3>3
  <2>4. ASSUME NEW x \in 2..(n + 1), y = left + cut[x] PROVE y \in Separators(s, left)
    <3>1. cut[x] \in Commas(group) /\ cut[x] \in 1..N
      BY <1>2
    <3>2. left + cut[x] \in (left + 1)..(right - 1)
      <4> DEFINE c == cut[x]
      <4> HIDE DEF c
      <4>1. c \in 1..N /\ left \in Int /\ right \in Int /\ N = (right - left) - 1
        BY <1>1, <1>3, <3>1 DEF c
      <4>2. left + c \in (left + 1)..(right - 1)
        BY <4>1
      <4> QED BY <4>2 DEF c
    <3> QED BY <1>3, <1>9, <2>1, <2>2, <2>4, <3>1, <3>2
  <2> QED BY <2>3, <2>4
<1>11. \A x \in 1..(n + 1) : Depth(s, left + cut[x]) = 1
  <2> TAKE x \in 1..(n + 1)
  <2>1. CASE x = 1
    <3>1. left + 0 = left
      BY <1>1
    <3> QED BY <1>2, <1>7, <2>1, <3>1
  <2>2. CASE x # 1
    <3>1. x \in 2..(n + 1)
      BY <1>2, <2>2
    <3>2. left + cut[x] \in Separators(s, left)
      BY <1>10, <3>1
    <3> QED BY <1>7, <3>2 DEF Separators
  <2> QED BY <2>1, <2>2
<1>12. \A x \in 2..(n + 2) : Depth(s, (left + cut[x]) - 1) = 1
  <2> TAKE x \in 2..(n + 2)
  <2> DEFINE y == left + cut[x]
  <2>1. x = n + 2 \/ x \in 2..(n + 1)
    BY <1>2
  <2>2. y \in 1..L /\ y - 1 \in 0..L
    <3>1. cut[x] \in 1..(N + 1)
      BY <1>2, <1>3, <2>1
    <3> DEFINE c == cut[x]
    <3> HIDE DEF c
    <3>2. c \in 1..(N + 1) /\ left \in 1..L /\ right \in Int /\ N = (right - left) - 1 /\ L \in Nat /\ right <= L
      BY <1>1, <1>3, <3>1 DEF c
    <3>3. left + c \in 1..L /\ (left + c) - 1 \in 0..L
      BY <3>2
    <3> QED BY <3>3 DEF c
  <2>3. Depth(s, y) = Depth(s, y - 1) + Turn(s[y]) /\ Depth(s, y - 1) \in Int
    BY <1>4, <2>2, DepthIs DEF L
  <2>4. CASE x = n + 2
    <3>1. y = right
      BY <1>1, <1>2, <1>3, <2>4
    <3>2. Turn(s[right]) = -1
      BY <1>8, TurnIs
    <3> HIDE DEF y
    <3>3. 0 = Depth(s, y - 1) + (-1)
      BY <1>8, <2>3, <3>1, <3>2
    <3> QED BY <2>3, <3>3 DEF y
  <2>5. CASE x \in 2..(n + 1)
    <3>1. y \in Separators(s, left)
      BY <1>10, <2>5
    <3>2. IsComma(s[y]) /\ Depth(s, y) = 1
      BY Zenon, <1>7, <3>1 DEF Separators, IsComma
    <3>3. Turn(s[y]) = 0
      BY <3>2, TurnIs
    <3> DEFINE u == Depth(s, y - 1)
               v == Depth(s, y)
               z == Turn(s[y])
    <3> HIDE DEF u, v, z
    <3>4. v = u + z /\ u \in Int /\ v = 1 /\ z = 0
      BY <2>3, <3>2, <3>3 DEF u, v, z
    <3>5. u = 1
      BY <3>4
    <3> QED BY <3>5 DEF u
  <2> QED BY <2>1, <2>4, <2>5
<1>13. cut \in [1..(n + 2) -> 0..(right - left)] /\ cut[n + 2] = right - left
  <2>1. N + 1 = right - left
    BY <1>1, <1>3
  <2> QED BY <1>2, <2>1
<1>14. left \in Nat /\ right \in Nat /\ 1 <= left /\ left < right /\ right <= Len(s)
  BY <1>1 DEF L
<1> QED BY <1>1, <1>2, <1>5, <1>6, <1>7, <1>8, <1>10, <1>11, <1>12, <1>13, <1>14 DEF FirstDepths

\* What is left when the k-th alternative is taken: three stretches of the pattern.
Middle(cut, k) == (cut[k + 1] - cut[k]) - 1

LEMMA SpliceIs ==
    ASSUME NEW D, NEW s \in Seq(D), NEW left, NEW right, NEW n, NEW cut,
           IsGroup(s, left, right, n, cut), FirstDepths(s, left, right, n, cut), NEW k \in 1..(n + 1)
    PROVE  LET t == FirstGroup(s)[k]
               m == Middle(cut, k)
           IN /\ t \in Seq(D) /\ m \in Nat /\ Len(t) = ((left - 1) + m) + (Len(s) - right)
              /\ Aligned(t, 0, s, 0, left - 1)
              /\ Aligned(t, left - 1, s, left + cut[k], m)
              /\ Aligned(t, (left - 1) + m, s, right, Len(s) - right)
<1> DEFINE L == Len(s)
           group == Inner(s, left, right)
           N == Len(group)
           c == cut[k]
           d == cut[k + 1]
           m == Middle(cut, k)
           head == SubSeq(s, 1, left - 1)
           mid == SubSeq(group, c + 1, d - 1)
           rest == SubSeq(s, right + 1, L)
           t == FirstGroup(s)[k]
<1>1. L \in Nat /\ left \in Nat /\ right \in Nat /\ n \in Nat /\ 1 <= left /\ left < right /\ right <= L
  BY LenProperties DEF FirstDepths
<1>2. /\ group \in Seq(D) /\ N = (right - left) - 1 /\ N \in Nat
      /\ \A i \in 1..N : group[i] = s[left + i]
  <2>1. left + 1 \in 1..(L + 1) /\ right - 1 \in ((left + 1) - 1)..L
    BY <1>1
  <2>2. /\ group \in Seq(D) /\ N = ((right - 1) - (left + 1)) + 1 /\ ((right - 1) - (left + 1)) + 1 \in Nat
        /\ \A i \in 1..(((right - 1) - (left + 1)) + 1) : group[i] = s[((left + 1) - 1) + i]
    BY <2>1, SubSeqIs DEF Inner
  <2>3. ((right - 1) - (left + 1)) + 1 = (right - left) - 1 /\ (left + 1) - 1 = left
    BY <1>1
  <2> QED BY <2>2, <2>3
<1>3. c \in 0..N /\ d \in 1..(N + 1) /\ c < d /\ m = (d - c) - 1
  <2>1. k \in 1..(n + 2) /\ k + 1 \in 1..(n + 2) /\ k < k + 1
    BY <1>1
  <2>2. c \in 0..(right - left) /\ d \in 0..(right - left) /\ c < d
    BY <2>1 DEF FirstDepths
  <2>3. m = (d - c) - 1
    BY DEF Middle
  <2> HIDE DEF c, d, N, m
  <2> QED BY <1>1, <1>2, <2>2, <2>3
<1>4. t = head \o mid \o rest
  BY DEF IsGroup
<1> HIDE DEF L, group, N, c, d, m, t
<1>5. head \in Seq(D) /\ Len(head) = left - 1 /\ left - 1 \in Nat /\ \A i \in 1..(left - 1) : head[i] = s[i]
  <2>1. 1 \in 1..(L + 1) /\ left - 1 \in (1 - 1)..L
    BY <1>1
  <2>2. /\ head \in Seq(D) /\ Len(head) = ((left - 1) - 1) + 1
        /\ \A i \in 1..(((left - 1) - 1) + 1) : head[i] = s[(1 - 1) + i]
    BY <2>1, SubSeqIs DEF L
  <2>3. ((left - 1) - 1) + 1 = left - 1 /\ left - 1 \in Nat /\ \A i \in 1..(left - 1) : (1 - 1) + i = i
    BY <1>1
  <2> QED BY <2>2, <2>3
<1>6. mid \in Seq(D) /\ Len(mid) = m /\ m \in Nat /\ \A i \in 1..m : mid[i] = s[(left + c) + i]
  <2>1. c + 1 \in 1..(N + 1) /\ d - 1 \in ((c + 1) - 1)..N
    BY <1>2, <1>3
  <2>2. /\ mid \in Seq(D) /\ Len(mid) = ((d - 1) - (c + 1)) + 1
        /\ \A i \in 1..(((d - 1) - (c + 1)) + 1) : mid[i] = group[((c + 1) - 1) + i]
    BY <1>2, <2>1, SubSeqIs DEF N
  <2>3. ((d - 1) - (c + 1)) + 1 = m /\ (c + 1) - 1 = c /\ m \in Nat
    BY <1>2, <1>3
  <2> HIDE DEF mid
  <2>4. \A i \in 1..m : c + i \in 1..N /\ left + (c + i) = (left + c) + i
    BY <1>1, <1>2, <1>3
  <2>5. mid \in Seq(D) /\ Len(mid) = m /\ \A i \in 1..m : mid[i] = group[c + i]
    BY Zenon, <2>2, <2>3
  <2> QED BY Zenon, <1>2, <2>3, <2>4, <2>5
<1>7. rest \in Seq(D) /\ Len(rest) = L - right /\ L - right \in Nat /\ \A i \in 1..(L - right) : rest[i] = s[right + i]
  <2>1. right + 1 \in 1..(L + 1) /\ L \in ((right + 1) - 1)..L
    BY <1>1
  <2>2. /\ rest \in Seq(D) /\ Len(rest) = (L - (right + 1)) + 1
        /\ \A i \in 1..((L - (right + 1)) + 1) : rest[i] = s[((right + 1) - 1) + i]
    BY <2>1, SubSeqIs DEF L
  <2>3. (L - (right + 1)) + 1 = L - right /\ (right + 1) - 1 = right /\ L - right \in Nat
    BY <1>1
  <2> QED BY <2>2, <2>3
<1> HIDE DEF head, mid, rest
<1> DEFINE x == left - 1
           z == L - right
           both == head \o mid
<1>8. x \in Nat /\ z \in Nat /\ Len(head) = x /\ Len(rest) = z
  BY <1>5, <1>7
<1>9. both \in Seq(D) /\ Len(both) = x + m /\ \A i \in 1..(x + m) : both[i] = IF i <= x THEN head[i] ELSE mid[i - x]
  BY <1>5, <1>6, <1>8, ConcatProperties
<1> HIDE DEF both, x, z
<1>10. t \in Seq(D) /\ Len(t) = (x + m) + z
       /\ \A i \in 1..((x + m) + z) : t[i] = IF i <= x + m THEN both[i] ELSE rest[i - (x + m)]
  <2>1. t = both \o rest
    BY <1>4 DEF both
  <2> QED BY <1>7, <1>8, <1>9, <2>1, ConcatProperties
<1>11. \A i \in 1..x : t[i] = s[i]
  <2> TAKE i \in 1..x
  <2>1. i \in 1..((x + m) + z) /\ i <= x + m /\ i \in 1..(x + m) /\ i <= x
    BY <1>6, <1>8
  <2>2. t[i] = head[i]
    BY <1>9, <1>10, <2>1
  <2> QED BY <1>5, <2>2 DEF x
<1>12. \A i \in 1..m : t[x + i] = s[(left + c) + i]
  <2> TAKE i \in 1..m
  <2>1. x + i \in 1..((x + m) + z) /\ x + i <= x + m /\ x + i \in 1..(x + m) /\ ~(x + i <= x) /\ (x + i) - x = i
    BY <1>6, <1>8
  <2>2. t[x + i] = mid[i]
    BY <1>9, <1>10, <2>1
  <2> QED BY <1>6, <2>2
<1>13. \A i \in 1..z : t[(x + m) + i] = s[right + i]
  <2> TAKE i \in 1..z
  <2>1. (x + m) + i \in 1..((x + m) + z) /\ ~((x + m) + i <= x + m) /\ ((x + m) + i) - (x + m) = i
    BY <1>6, <1>8
  <2>2. t[(x + m) + i] = rest[i]
    BY <1>10, <2>1
  <2> QED BY <1>7, <2>2 DEF z
<1>14. Aligned(t, 0, s, 0, x)
  <2>1. 0 + x <= (x + m) + z /\ 0 + x <= L /\ \A i \in 1..x : 0 + i = i
    BY <1>1, <1>6, <1>8 DEF x
  <2>2. 0 + x <= Len(t) /\ 0 + x <= Len(s)
    BY <1>10, <2>1 DEF L
  <2> QED BY <1>8, <1>11, <2>1, <2>2 DEF Aligned
<1>15. Aligned(t, x, s, left + c, m)
  <2>1. x + m <= (x + m) + z /\ (left + c) + m <= L /\ left + c \in Nat
    <3>1. x + m <= (x + m) + z
      BY <1>6, <1>8
    <3>2. (left + c) + m <= L /\ left + c \in Nat
      BY <1>1, <1>2, <1>3
    <3> QED BY <3>1, <3>2
  <2>2. x + m <= Len(t) /\ (left + c) + m <= Len(s)
    BY <1>10, <2>1 DEF L
  <2> QED BY <1>6, <1>8, <1>12, <2>1, <2>2 DEF Aligned
<1>16. Aligned(t, x + m, s, right, z)
  <2>1. right + z = L /\ x + m \in Nat
    BY <1>1, <1>6, <1>8 DEF z
  <2>2. (x + m) + z <= Len(t) /\ right + z <= Len(s)
    <3>1. (x + m) + z <= (x + m) + z /\ L <= L
      BY <1>1, <1>6, <1>8
    <3> QED BY <1>10, <2>1, <3>1 DEF L
  <2> QED BY <1>1, <1>8, <1>13, <2>1, <2>2 DEF Aligned
<1> QED BY Zenon, <1>6, <1>10, <1>14, <1>15, <1>16 DEF x, z, t, m, c, L

\* Of a pattern s the k-th alternative is taken; h characters are before it and m in it.
Spliced(t, s, left, right, cut, k, h, m) ==
    /\ h = left - 1 /\ m = Middle(cut, k) /\ h \in Nat /\ m \in Nat /\ Len(s) - right \in Nat
    /\ Len(t) = (h + m) + (Len(s) - right)
    /\ Aligned(t, 0, s, 0, h)
    /\ Aligned(t, h, s, left + cut[k], m)
    /\ Aligned(t, h + m, s, right, Len(s) - right)

LEMMA SplicedIs ==
    ASSUME NEW D, NEW s \in Seq(D), NEW left, NEW right, NEW n, NEW cut,
           IsGroup(s, left, right, n, cut), FirstDepths(s, left, right, n, cut), NEW k \in 1..(n + 1)
    PROVE  FirstGroup(s)[k] \in Seq(D) /\ Spliced(FirstGroup(s)[k], s, left, right, cut, k, left - 1, Middle(cut, k))
<1>1. left - 1 \in Nat /\ Len(s) - right \in Nat
  <2>1. Len(s) \in Nat /\ left \in Nat /\ right \in Nat /\ 1 <= left /\ right <= Len(s)
    BY LenProperties DEF FirstDepths
  <2> QED BY <2>1
<1> DEFINE t == FirstGroup(s)[k]
           m == Middle(cut, k)
<1>2. /\ t \in Seq(D) /\ m \in Nat /\ Len(t) = ((left - 1) + m) + (Len(s) - right)
      /\ Aligned(t, 0, s, 0, left - 1)
      /\ Aligned(t, left - 1, s, left + cut[k], m)
      /\ Aligned(t, (left - 1) + m, s, right, Len(s) - right)
  BY SpliceIs
<1> HIDE DEF t, m
<1>3. Spliced(t, s, left, right, cut, k, left - 1, m)
  BY Zenon, <1>1, <1>2 DEF Spliced, m
<1> QED BY Zenon, <1>2, <1>3 DEF t, m

\* What is known of the stretches.
LEMMA StretchesAre ==
    ASSUME NEW D, NEW s \in Seq(D), NEW left, NEW right, NEW n, NEW cut, FirstDepths(s, left, right, n, cut),
           NEW k \in 1..(n + 1), NEW t \in Seq(D), NEW h, NEW m, Spliced(t, s, left, right, cut, k, h, m)
    PROVE  /\ Len(s) \in Nat /\ left \in Nat /\ right \in Nat /\ n \in Nat /\ left < right /\ right <= Len(s)
           /\ h \in Nat /\ m \in Nat /\ left = h + 1 /\ k \in 1..(n + 2) /\ k + 1 \in 2..(n + 2)
           /\ cut[k] \in 0..(right - left) /\ cut[k + 1] \in 1..(right - left)
           /\ cut[k + 1] = (cut[k] + m) + 1
           /\ Len(t) = (h + m) + (Len(s) - right) /\ Len(t) \in Nat
<1>1. /\ left \in Nat /\ right \in Nat /\ n \in Nat /\ left < right /\ right <= Len(s) /\ 1 <= left /\ Len(s) \in Nat
      /\ cut \in [1..(n + 2) -> 0..(right - left)] /\ \A i, j \in 1..(n + 2) : i < j => cut[i] < cut[j]
  BY LenProperties DEF FirstDepths
<1>2. k \in 1..(n + 2) /\ k + 1 \in 2..(n + 2) /\ k + 1 \in 1..(n + 2) /\ k < k + 1
  BY <1>1
<1>3. h = left - 1 /\ m = (cut[k + 1] - cut[k]) - 1 /\ h \in Nat /\ m \in Nat
      /\ Len(t) = (h + m) + (Len(s) - right) /\ Len(t) \in Nat
  BY LenProperties DEF Spliced, Middle
<1> DEFINE c == cut[k]
           d == cut[k + 1]
<1>4. c \in 0..(right - left) /\ d \in 0..(right - left) /\ c < d
  BY <1>1, <1>2
<1> HIDE DEF c, d
<1>5. m = (d - c) - 1
  BY <1>3 DEF c, d
<1>6. d = (c + m) + 1 /\ d \in 1..(right - left)
  <2> DEFINE w == right - left
  <2>1. w \in Int
    BY <1>1
  <2> HIDE DEF w
  <2>2. c \in 0..w /\ d \in 0..w /\ c < d
    BY <1>4 DEF w
  <2>3. d = (c + m) + 1 /\ d \in 1..w
    BY <1>5, <2>1, <2>2
  <2> QED BY <2>3 DEF w
<1>7. left = h + 1
  BY <1>1, <1>3
<1> QED BY <1>1, <1>2, <1>3, <1>4, <1>6, <1>7 DEF c, d

\* The alternative taken is one level up from where it was, the rest is where it was.
LEMMA SplicedDepths ==
    ASSUME NEW D, NEW s \in Seq(D), NEW left, NEW right, NEW n, NEW cut, FirstDepths(s, left, right, n, cut),
           NEW k \in 1..(n + 1), NEW t \in Seq(D), NEW h, NEW m, Spliced(t, s, left, right, cut, k, h, m)
    PROVE  /\ \A i \in 0..h : Depth(t, i) = 0
           /\ \A i \in 0..m : Depth(t, h + i) = Depth(s, (left + cut[k]) + i) - 1
           /\ Depth(s, (left + cut[k]) + m) = 1
           /\ \A i \in 0..(Len(s) - right) : Depth(t, (h + m) + i) = Depth(s, right + i)
<1> DEFINE L == Len(s)
           z == L - right
           b == left + cut[k]
<1>1. /\ L \in Nat /\ left \in Nat /\ right \in Nat /\ n \in Nat /\ left < right /\ right <= L
      /\ h \in Nat /\ m \in Nat /\ left = h + 1 /\ k \in 1..(n + 2) /\ k + 1 \in 2..(n + 2)
      /\ cut[k] \in 0..(right - left) /\ cut[k + 1] \in 1..(right - left)
      /\ cut[k + 1] = (cut[k] + m) + 1
      /\ Len(t) = (h + m) + (L - right) /\ Len(t) \in Nat
  BY StretchesAre
<1> HIDE DEF L
<1>2. Aligned(t, 0, s, 0, h) /\ Aligned(t, h, s, b, m) /\ Aligned(t, h + m, s, right, z) /\ z \in Nat
  BY DEF Spliced, L
<1>3. /\ \A i \in 0..h : Depth(t, 0 + i) - Depth(t, 0) = Depth(s, 0 + i) - Depth(s, 0)
      /\ \A i \in 0..m : Depth(t, h + i) - Depth(t, h) = Depth(s, b + i) - Depth(s, b)
      /\ \A i \in 0..z : Depth(t, (h + m) + i) - Depth(t, h + m) = Depth(s, right + i) - Depth(s, right)
  <2> HIDE DEF b, z
  <2> QED BY <1>2, DepthShift
<1>4. /\ Depth(t, 0) = 0 /\ Depth(s, 0) = 0
      /\ \A i \in 0..Len(t) : Depth(t, i) \in Int
      /\ \A i \in 0..L : Depth(s, i) \in Int
  BY DepthIs DEF L
<1>5. /\ \A i \in 0..h : Depth(s, i) = 0
      /\ Depth(s, b) = 1 /\ Depth(s, (left + cut[k + 1]) - 1) = 1 /\ Depth(s, right) = 0
  <2>1. h = left - 1
    BY <1>1
  <2> QED BY <1>1, <2>1 DEF FirstDepths
<1>6. \A i \in 0..h : Depth(t, i) = 0
  <2> TAKE i \in 0..h
  <2>1. 0 + i = i /\ i \in 0..Len(t)
    BY <1>1, <1>2
  <2>2. Depth(t, i) - 0 = 0 - 0
    BY <1>3, <1>4, <1>5, <2>1
  <2> QED BY <1>4, <2>1, <2>2
<1>7. Depth(t, h) = 0
  <2>1. h \in 0..h
    BY <1>1
  <2> QED BY <1>6, <2>1
<1>8. b + m = (left + cut[k + 1]) - 1 /\ b \in 0..L /\ \A i \in 0..m : b + i \in 0..L /\ h + i \in 0..Len(t)
  <2> DEFINE c == cut[k]
             d == cut[k + 1]
  <2>1. c \in 0..(right - left) /\ d \in 1..(right - left) /\ d = (c + m) + 1 /\ b = left + c
    BY <1>1
  <2> HIDE DEF c, d, b
  <2>2. b + m = (left + d) - 1 /\ b \in 0..L /\ \A i \in 0..m : b + i \in 0..L /\ h + i \in 0..Len(t)
    BY <1>1, <2>1
  <2> QED BY <2>2 DEF d
<1> HIDE DEF b, z
<1>9. \A i \in 0..m : Depth(t, h + i) = Depth(s, b + i) - 1
  <2> TAKE i \in 0..m
  <2>1. Depth(t, h + i) - 0 = Depth(s, b + i) - 1 /\ Depth(t, h + i) \in Int /\ Depth(s, b + i) \in Int
    BY <1>3, <1>4, <1>5, <1>7, <1>8
  <2> QED BY <2>1
<1>10. Depth(s, b + m) = 1
  BY <1>5, <1>8
<1>11. Depth(t, h + m) = 0
  <2>1. m \in 0..m
    BY <1>1
  <2> QED BY <1>9, <1>10, <2>1
<1>12. \A i \in 0..z : Depth(t, (h + m) + i) = Depth(s, right + i)
  <2> TAKE i \in 0..z
  <2>1. (h + m) + i \in 0..Len(t) /\ right + i \in 0..L
    BY <1>1, <1>2 DEF z
  <2>2. Depth(t, (h + m) + i) - 0 = Depth(s, right + i) - 0 /\ Depth(t, (h + m) + i) \in Int /\ Depth(s, right + i) \in Int
    BY <1>3, <1>4, <1>5, <1>11, <2>1
  <2> QED BY <2>2
<1> QED BY <1>6, <1>9, <1>10, <1>12 DEF z, b, L

\* Every group that is left lies in one stretch of the pattern, with the brace that shuts it.
LEMMA SplicedGroups ==
    ASSUME NEW D, NEW s \in Seq(D), Grouped(s), NEW left, NEW right, NEW n, NEW cut,
           FirstDepths(s, left, right, n, cut),
           NEW k \in 1..(n + 1), NEW t \in Seq(D), NEW h, NEW m, Spliced(t, s, left, right, cut, k, h, m),
           NEW i \in 1..Len(t), IsOpen(t[i])
    PROVE  \E a, b, o, p, q : /\ Aligned(t, a, s, b, o) /\ p \in 1..o /\ q \in 1..o /\ p < q
                              /\ i = a + p /\ MatchingBrace(s, b + p) = b + q
                              /\ \/ a = h /\ b = left + cut[k] /\ o = m
                                 \/ a = h + m /\ b = right /\ o = Len(s) - right
<1> DEFINE L == Len(s)
           z == L - right
           c == left + cut[k]
<1>1. /\ L \in Nat /\ left \in Nat /\ right \in Nat /\ n \in Nat /\ left < right /\ right <= L
      /\ h \in Nat /\ m \in Nat /\ left = h + 1 /\ k \in 1..(n + 2) /\ k + 1 \in 2..(n + 2)
      /\ cut[k] \in 0..(right - left) /\ cut[k + 1] \in 1..(right - left)
      /\ cut[k + 1] = (cut[k] + m) + 1
      /\ Len(t) = (h + m) + (L - right) /\ Len(t) \in Nat
  BY StretchesAre
<1> HIDE DEF L
<1>2. Aligned(t, 0, s, 0, h) /\ Aligned(t, h, s, c, m) /\ Aligned(t, h + m, s, right, z) /\ z \in Nat
  BY DEF Spliced, L
<1>3. c \in Nat /\ left <= c /\ c + m < right
  <2> DEFINE d == cut[k]
             e == cut[k + 1]
  <2>1. d \in 0..(right - left) /\ e \in 1..(right - left) /\ e = (d + m) + 1 /\ c = left + d
    BY <1>1
  <2> HIDE DEF d, e, c
  <2> QED BY <1>1, <2>1
<1> HIDE DEF c, z
<1>4. CASE i <= h
  <2>1. i \in 1..h /\ 0 + i = i /\ h = left - 1
    BY <1>1, <1>4
  <2>2. t[0 + i] = s[0 + i]
    BY <1>2, <2>1 DEF Aligned
  <2>3. ~IsOpen(s[i])
    BY <2>1 DEF FirstDepths
  <2> QED BY <2>1, <2>2, <2>3
<1>5. CASE h < i /\ i <= h + m
  <2> DEFINE p == i - h
             y == c + p
             e == MatchingBrace(s, y)
  <2>1. p \in 1..m /\ i = h + p
    BY <1>1, <1>5
  <2> HIDE DEF p
  <2>2. y \in 1..L /\ y - 1 \in left..(right - 1) /\ y - 1 \in 0..L
    BY <1>1, <1>3, <2>1
  <2>3. IsOpen(s[y])
    <3>1. t[h + p] = s[c + p]
      BY <1>2, <2>1 DEF Aligned
    <3> QED BY <2>1, <3>1
  <2> HIDE DEF y
  <2>4. e # 0
    BY <2>2, <2>3, GroupedOpens DEF L
  <2>5. e \in (y + 1)..L /\ \A j \in y..(e - 1) : Depth(s, j) >= Depth(s, y)
    BY <2>2, <2>4, BetweenBraces DEF L
  <2> HIDE DEF e
  <2>6. Depth(s, y) >= 2
    <3>1. Depth(s, y) = Depth(s, y - 1) + Turn(s[y]) /\ Depth(s, y - 1) \in Int
      BY <2>2, DepthIs DEF L
    <3>2. Turn(s[y]) = 1
      BY <2>3, TurnIs
    <3>3. Depth(s, y - 1) >= 1
      BY <2>2 DEF FirstDepths
    <3> DEFINE u == Depth(s, y - 1)
    <3> HIDE DEF u
    <3>4. Depth(s, y) = u + 1 /\ u \in Int /\ u >= 1
      BY <3>1, <3>2, <3>3 DEF u
    <3> QED BY <3>4
  <2>7. e <= c + m
    <3> SUFFICES ASSUME ~(e <= c + m) PROVE FALSE
      OBVIOUS
    <3>1. c + m \in y..(e - 1)
      BY <1>1, <1>3, <2>1, <2>5 DEF y
    <3>2. Depth(s, c + m) = 1
      BY SplicedDepths DEF c
    <3>3. Depth(s, c + m) >= Depth(s, y)
      BY <2>5, <3>1
    <3>4. Depth(s, y) \in Int
      BY <1>1, <2>2, DepthIs DEF L
    <3> QED BY <2>6, <3>2, <3>3, <3>4
  <2> DEFINE q == e - c
  <2>8. q \in 1..m /\ p < q /\ e = c + q
    BY <1>1, <1>3, <2>1, <2>5, <2>7 DEF y
  <2> HIDE DEF q
  <2>9. MatchingBrace(s, c + p) = c + q
    BY <2>8 DEF e, y
  <2> QED BY Zenon, <1>2, <2>1, <2>8, <2>9 DEF c
<1>6. CASE h + m < i
  <2> DEFINE p == i - (h + m)
             y == right + p
             e == MatchingBrace(s, y)
  <2>1. p \in 1..z /\ i = (h + m) + p
    BY <1>1, <1>6 DEF z
  <2> HIDE DEF p
  <2>2. y \in 1..L
    BY <1>1, <2>1 DEF z
  <2>3. IsOpen(s[y])
    <3>1. t[(h + m) + p] = s[right + p]
      BY <1>2, <2>1 DEF Aligned
    <3> QED BY <2>1, <3>1
  <2> HIDE DEF y
  <2>4. e # 0
    BY <2>2, <2>3, GroupedOpens DEF L
  <2>5. e \in (y + 1)..L
    BY <2>2, <2>4, BetweenBraces DEF L
  <2> HIDE DEF e
  <2> DEFINE q == e - right
  <2>6. q \in 1..z /\ p < q /\ e = right + q
    BY <1>1, <2>1, <2>5 DEF y, z
  <2> HIDE DEF q
  <2>7. MatchingBrace(s, right + p) = right + q
    BY <2>6 DEF e, y
  <2> QED BY Zenon, <1>2, <2>1, <2>6, <2>7 DEF z, L
<1>7. i <= h \/ (h < i /\ i <= h + m) \/ h + m < i
  BY <1>1
<1> QED BY <1>4, <1>5, <1>6, <1>7

LEMMA SubSeqShift ==
    ASSUME NEW D, NEW s \in Seq(D), NEW t \in Seq(D), NEW a, NEW b, NEW n, Aligned(t, a, s, b, n)
    PROVE  \A p, q \in 1..n : p < q => Inner(t, a + p, a + q) = Inner(s, b + p, b + q)
<1> SUFFICES ASSUME NEW p \in 1..n, NEW q \in 1..n, p < q PROVE Inner(t, a + p, a + q) = Inner(s, b + p, b + q)
  OBVIOUS
<1> DEFINE x == SubSeq(t, (a + p) + 1, (a + q) - 1)
           y == SubSeq(s, (b + p) + 1, (b + q) - 1)
           o == (q - p) - 1
           S == Len(s)
           T == Len(t)
<1>1. /\ a \in Nat /\ b \in Nat /\ n \in Nat /\ a + n <= T /\ b + n <= S /\ S \in Nat /\ T \in Nat
      /\ \A i \in 1..n : t[a + i] = s[b + i]
  BY LenProperties DEF Aligned
<1> HIDE DEF S, T
<1>2. /\ (a + p) + 1 \in 1..(T + 1) /\ (a + q) - 1 \in (((a + p) + 1) - 1)..T
      /\ (b + p) + 1 \in 1..(S + 1) /\ (b + q) - 1 \in (((b + p) + 1) - 1)..S
      /\ (((a + q) - 1) - ((a + p) + 1)) + 1 = o /\ (((b + q) - 1) - ((b + p) + 1)) + 1 = o
      /\ ((a + p) + 1) - 1 = a + p /\ ((b + p) + 1) - 1 = b + p /\ o \in Nat
  BY <1>1
<1>3. x \in Seq(D) /\ Len(x) = o /\ \A i \in 1..o : x[i] = t[(a + p) + i]
  <2>1. /\ x \in Seq(D) /\ Len(x) = (((a + q) - 1) - ((a + p) + 1)) + 1
        /\ \A i \in 1..((((a + q) - 1) - ((a + p) + 1)) + 1) : x[i] = t[(((a + p) + 1) - 1) + i]
    BY <1>2, SubSeqIs DEF T
  <2> HIDE DEF x, o
  <2> QED BY Zenon, <1>2, <2>1
<1>4. y \in Seq(D) /\ Len(y) = o /\ \A i \in 1..o : y[i] = s[(b + p) + i]
  <2>1. /\ y \in Seq(D) /\ Len(y) = (((b + q) - 1) - ((b + p) + 1)) + 1
        /\ \A i \in 1..((((b + q) - 1) - ((b + p) + 1)) + 1) : y[i] = s[(((b + p) + 1) - 1) + i]
    BY <1>2, SubSeqIs DEF S
  <2> HIDE DEF y, o
  <2> QED BY Zenon, <1>2, <2>1
<1>5. \A i \in 1..o : t[(a + p) + i] = s[(b + p) + i]
  <2> TAKE i \in 1..o
  <2>1. p + i \in 1..n /\ a + (p + i) = (a + p) + i /\ b + (p + i) = (b + p) + i
    BY <1>1
  <2> QED BY <1>1, <2>1
<1> HIDE DEF x, y, o
<1>6. \A i \in 1..o : x[i] = y[i]
  BY <1>3, <1>4, <1>5
<1>7. x = y
  BY <1>3, <1>4, <1>6
<1> QED BY <1>7 DEF x, y, Inner

LEMMA SplicedGrouped ==
    ASSUME NEW D, NEW s \in Seq(D), Grouped(s), NEW left, NEW right, NEW n, NEW cut,
           FirstDepths(s, left, right, n, cut),
           NEW k \in 1..(n + 1), NEW t \in Seq(D), NEW h, NEW m, Spliced(t, s, left, right, cut, k, h, m)
    PROVE  Grouped(t)
<1> DEFINE L == Len(s)
           z == L - right
           c == left + cut[k]
<1>1. /\ L \in Nat /\ left \in Nat /\ right \in Nat /\ n \in Nat /\ left < right /\ right <= L
      /\ h \in Nat /\ m \in Nat /\ left = h + 1 /\ k \in 1..(n + 2) /\ k + 1 \in 2..(n + 2)
      /\ cut[k] \in 0..(right - left) /\ cut[k + 1] \in 1..(right - left)
      /\ cut[k + 1] = (cut[k] + m) + 1
      /\ Len(t) = (h + m) + (L - right) /\ Len(t) \in Nat
  BY StretchesAre
<1>2. /\ \A i \in 0..h : Depth(t, i) = 0
      /\ \A i \in 0..m : Depth(t, h + i) = Depth(s, c + i) - 1
      /\ \A i \in 0..z : Depth(t, (h + m) + i) = Depth(s, right + i)
  BY SplicedDepths
<1> HIDE DEF L
<1>3. c \in Nat /\ left <= c /\ c + m < right
  <2> DEFINE d == cut[k]
             e == cut[k + 1]
  <2>1. d \in 0..(right - left) /\ e \in 1..(right - left) /\ e = (d + m) + 1 /\ c = left + d
    BY <1>1
  <2> HIDE DEF d, e, c
  <2> QED BY <1>1, <2>1
<1> HIDE DEF c
<1>4. /\ \A i \in 1..L : Depth(s, i) >= 0
      /\ Depth(s, L) = 0
      /\ \A i \in 0..L : Depth(s, i) \in Int
  BY DepthIs DEF Grouped, L
<1>5. ASSUME NEW i \in 1..Len(t) PROVE Depth(t, i) >= 0
  <2>1. CASE i <= h
    <3>1. i \in 0..h
      BY <1>1, <2>1
    <3> QED BY <1>2, <3>1
  <2>2. CASE h < i /\ i <= h + m
    <3>1. i - h \in 0..m /\ h + (i - h) = i /\ c + (i - h) \in left..(right - 1) /\ c + (i - h) \in 0..L
      BY <1>1, <1>3, <2>2
    <3>2. Depth(s, c + (i - h)) >= 1
      BY <3>1 DEF FirstDepths
    <3>3. Depth(t, i) = Depth(s, c + (i - h)) - 1
      BY <1>2, <3>1
    <3> QED BY <1>4, <3>1, <3>2, <3>3
  <2>3. CASE h + m < i
    <3>1. i - (h + m) \in 0..z /\ (h + m) + (i - (h + m)) = i /\ right + (i - (h + m)) \in 1..L
      BY <1>1, <2>3
    <3>2. Depth(t, i) = Depth(s, right + (i - (h + m)))
      BY <1>2, <3>1
    <3> QED BY <1>4, <3>1, <3>2
  <2>4. i <= h \/ (h < i /\ i <= h + m) \/ h + m < i
    BY <1>1
  <2> QED BY <2>1, <2>2, <2>3, <2>4
<1>6. Depth(t, Len(t)) = 0
  <2>1. z \in 0..z /\ (h + m) + z = Len(t) /\ right + z = L
    BY <1>1
  <2> HIDE DEF z
  <2> QED BY <1>2, <1>4, <2>1
<1> HIDE DEF z
<1>7. ASSUME NEW i \in 1..Len(t), IsOpen(t[i])
      PROVE  Commas(SubSeq(t, i + 1, MatchingBrace(t, i) - 1)) # {}
  <2>1. PICK a, b, o, p, q : /\ Aligned(t, a, s, b, o) /\ p \in 1..o /\ q \in 1..o /\ p < q
                             /\ i = a + p /\ MatchingBrace(s, b + p) = b + q
    BY <1>7, SplicedGroups
  <2>2. MatchingBrace(t, a + p) = a + q
    BY <2>1, BraceShift
  <2>3. Inner(t, a + p, a + q) = Inner(s, b + p, b + q)
    <3>1. Aligned(t, a, s, b, o) /\ p \in 1..o /\ q \in 1..o /\ p < q
      BY <2>1
    <3>2. \A x, y \in 1..o : x < y => Inner(t, a + x, a + y) = Inner(s, b + x, b + y)
      BY <3>1, SubSeqShift
    <3> QED BY <3>1, <3>2
  <2>4. b + p \in 1..Len(s) /\ IsOpen(s[b + p])
    <3>1. a \in Nat /\ b \in Nat /\ o \in Nat /\ b + o <= L /\ t[a + p] = s[b + p]
      BY <2>1 DEF Aligned, L
    <3>2. b + p \in 1..L
      BY <1>1, <2>1, <3>1
    <3> QED BY <1>7, <2>1, <3>1, <3>2 DEF L
  <2>5. Commas(Inner(s, b + p, MatchingBrace(s, b + p))) # {}
    BY <2>4, GroupedOpens DEF Inner
  <2>6. Commas(Inner(t, i, MatchingBrace(t, i))) # {}
    BY Zenon, <2>1, <2>2, <2>3, <2>5
  <2> QED BY <2>6 DEF Inner
<1> QED BY Zenon, <1>5, <1>6, <1>7 DEF Grouped, IsOpen

\* A pattern s with its first group, and the pattern t with the k-th alternative of it.
Taken(D, t, s, left, right, n, cut, k, h, m, c) ==
    /\ s \in Seq(D) /\ t \in Seq(D) /\ Grouped(s) /\ FirstDepths(s, left, right, n, cut)
    /\ k \in 1..(n + 1) /\ Spliced(t, s, left, right, cut, k, h, m) /\ c = left + cut[k]

LEMMA TakenIs ==
    ASSUME NEW D, NEW t, NEW s, NEW left, NEW right, NEW n, NEW cut, NEW k, NEW h, NEW m, NEW c,
           Taken(D, t, s, left, right, n, cut, k, h, m, c)
    PROVE  /\ Len(s) \in Nat /\ left \in Nat /\ right \in Nat /\ n \in Nat /\ left < right /\ right <= Len(s)
           /\ h \in Nat /\ m \in Nat /\ left = h + 1 /\ c \in Nat /\ left <= c /\ c + m < right
           /\ left + cut[k + 1] = (c + m) + 1
           /\ Len(t) = (h + m) + (Len(s) - right) /\ Len(t) \in Nat
<1>1. /\ Len(s) \in Nat /\ left \in Nat /\ right \in Nat /\ n \in Nat /\ left < right /\ right <= Len(s)
      /\ h \in Nat /\ m \in Nat /\ left = h + 1 /\ k \in 1..(n + 2) /\ k + 1 \in 2..(n + 2)
      /\ cut[k] \in 0..(right - left) /\ cut[k + 1] \in 1..(right - left)
      /\ cut[k + 1] = (cut[k] + m) + 1
      /\ Len(t) = (h + m) + (Len(s) - right) /\ Len(t) \in Nat
  BY StretchesAre DEF Taken
<1>2. c = left + cut[k]
  BY DEF Taken
<1> DEFINE d == cut[k]
           e == cut[k + 1]
<1>3. d \in 0..(right - left) /\ e \in 1..(right - left) /\ e = (d + m) + 1 /\ c = left + d
  BY <1>1, <1>2
<1> HIDE DEF d, e
<1>4. c \in Nat /\ left <= c /\ c + m < right /\ left + e = (c + m) + 1
  BY <1>1, <1>3
<1> QED BY <1>1, <1>4 DEF e

\* Where a character of t is in s.
Origin(x, right, h, m, c) ==
    IF x <= h THEN x ELSE IF x <= h + m THEN (x - h) + c ELSE (x - (h + m)) + right
Origins(t, right, h, m, c) == [x \in 1..Len(t) |-> Origin(x, right, h, m, c)]

LEMMA OriginsAre ==
    ASSUME NEW D, NEW t, NEW s, NEW left, NEW right, NEW n, NEW cut, NEW k, NEW h, NEW m, NEW c,
           Taken(D, t, s, left, right, n, cut, k, h, m, c)
    PROVE  LET f == Origins(t, right, h, m, c)
           IN /\ f \in [1..Len(t) -> 1..Len(s)]
              /\ \A x, y \in 1..Len(t) : x < y => f[x] < f[y]
              /\ \A x \in 1..Len(t) : t[x] = s[f[x]]
              /\ \A x \in 1..Len(t) : f[x] < left \/ (c < f[x] /\ f[x] <= c + m) \/ right < f[x]
              /\ \A y \in 1..Len(s) : y < left \/ (c < y /\ y <= c + m) \/ right < y => \E x \in 1..Len(t) : f[x] = y
              /\ \A i \in 1..m : h + i \in 1..Len(t) /\ f[h + i] = c + i
              /\ \A i \in 1..(Len(s) - right) : (h + m) + i \in 1..Len(t) /\ f[(h + m) + i] = right + i
<1> DEFINE L == Len(s)
           T == Len(t)
           f == Origins(t, right, h, m, c)
<1>1. /\ L \in Nat /\ left \in Nat /\ right \in Nat /\ left < right /\ right <= L
      /\ h \in Nat /\ m \in Nat /\ left = h + 1 /\ c \in Nat /\ left <= c /\ c + m < right
      /\ T = (h + m) + (L - right) /\ T \in Nat
  BY TakenIs
<1>2. Aligned(t, 0, s, 0, h) /\ Aligned(t, h, s, c, m) /\ Aligned(t, h + m, s, right, L - right)
  BY DEF Taken, Spliced
<1>3. \A x \in 1..T : f[x] = Origin(x, right, h, m, c)
  BY DEF Origins
<1>4. f = [x \in 1..T |-> Origin(x, right, h, m, c)]
  BY DEF Origins
<1> HIDE DEF L, T, f
<1>5. \A x \in 1..T : \/ x <= h /\ f[x] = x
                      \/ h < x /\ x <= h + m /\ f[x] = (x - h) + c
                      \/ h + m < x /\ f[x] = (x - (h + m)) + right
  <2> TAKE x \in 1..T
  <2>1. x \in Int /\ h \in Int /\ m \in Int
    BY <1>1
  <2>2. x <= h \/ h < x
    BY <2>1
  <2>3. x <= h + m \/ h + m < x
    BY <2>1
  <2>4. h < x => ~(x <= h)
    BY <2>1
  <2>5. h + m < x => ~(x <= h + m) /\ ~(x <= h)
    BY <1>1, <2>1
  <2> QED BY Zenon, <1>3, <2>2, <2>3, <2>4, <2>5 DEF Origin
<1>6. \A x \in 1..T : f[x] \in 1..L
  <2> TAKE x \in 1..T
  <2>1. x \in Int /\ 1 <= x /\ x <= (h + m) + (L - right)
    BY <1>1
  <2> QED BY <1>1, <1>5, <2>1
<1>7. f \in [1..T -> 1..L]
  BY <1>3, <1>4, <1>6
<1>8. \A x, y \in 1..T : x < y => f[x] < f[y]
  <2> TAKE x, y \in 1..T
  <2> HAVE x < y
  <2>1. x \in Int /\ y \in Int
    BY <1>1
  <2> DEFINE u == f[x]
             v == f[y]
  <2>2. /\ (x <= h /\ u = x) \/ (h < x /\ x <= h + m /\ u = (x - h) + c) \/ (h + m < x /\ u = (x - (h + m)) + right)
        /\ (y <= h /\ v = y) \/ (h < y /\ y <= h + m /\ v = (y - h) + c) \/ (h + m < y /\ v = (y - (h + m)) + right)
    BY <1>5
  <2> HIDE DEF u, v
  <2>3. u < v
    BY <1>1, <2>1, <2>2
  <2> QED BY <2>3 DEF u, v
<1>9. ASSUME NEW x \in 1..T PROVE t[x] = s[f[x]]
  <2>1. x \in Int /\ 1 <= x /\ x <= (h + m) + (L - right)
    BY <1>1
  <2>2. CASE x <= h /\ f[x] = x
    <3>1. x \in 1..h /\ 0 + x = x
      BY <2>1, <2>2, <1>1
    <3>2. t[0 + x] = s[0 + x]
      BY <1>2, <3>1 DEF Aligned
    <3> QED BY <2>2, <3>1, <3>2
  <2>3. CASE h < x /\ x <= h + m /\ f[x] = (x - h) + c
    <3>1. x - h \in 1..m /\ h + (x - h) = x /\ c + (x - h) = (x - h) + c
      BY <1>1, <2>1, <2>3
    <3>2. t[h + (x - h)] = s[c + (x - h)]
      BY <1>2, <3>1 DEF Aligned
    <3> QED BY <2>3, <3>1, <3>2
  <2>4. CASE h + m < x /\ f[x] = (x - (h + m)) + right
    <3> DEFINE i == x - (h + m)
    <3>1. i \in 1..(L - right) /\ (h + m) + i = x /\ right + i = i + right
      BY <1>1, <2>1, <2>4
    <3> HIDE DEF i
    <3>2. t[(h + m) + i] = s[right + i]
      BY <1>2, <3>1 DEF Aligned
    <3>3. f[x] = i + right
      BY <2>4 DEF i
    <3> QED BY <3>1, <3>2, <3>3
  <2> QED BY <1>5, <2>2, <2>3, <2>4
<1>10. \A x \in 1..T : f[x] < left \/ (c < f[x] /\ f[x] <= c + m) \/ right < f[x]
  <2> TAKE x \in 1..T
  <2>1. x \in Int
    BY <1>1
  <2> QED BY <1>1, <1>5, <2>1
<1>11. ASSUME NEW x \in 1..T PROVE /\ x <= h => f[x] = x
                                   /\ h < x /\ x <= h + m => f[x] = (x - h) + c
                                   /\ h + m < x => f[x] = (x - (h + m)) + right
  <2>1. x \in Int
    BY <1>1
  <2> QED BY <1>1, <1>5, <2>1
<1>12. \A i \in 1..m : h + i \in 1..T /\ f[h + i] = c + i
  <2> TAKE i \in 1..m
  <2>1. h + i \in 1..T /\ h < h + i /\ h + i <= h + m /\ ((h + i) - h) + c = c + i
    BY <1>1
  <2> QED BY <1>11, <2>1
<1>13. \A i \in 1..(L - right) : (h + m) + i \in 1..T /\ f[(h + m) + i] = right + i
  <2> TAKE i \in 1..(L - right)
  <2>1. (h + m) + i \in 1..T /\ h + m < (h + m) + i /\ (((h + m) + i) - (h + m)) + right = right + i
    BY <1>1
  <2> QED BY <1>11, <2>1
<1>14. ASSUME NEW y \in 1..L, y < left \/ (c < y /\ y <= c + m) \/ right < y PROVE \E x \in 1..T : f[x] = y
  <2>1. CASE y < left
    <3>1. y \in 1..T /\ y <= h
      BY <1>1, <2>1
    <3> QED BY <1>11, <3>1
  <2>2. CASE c < y /\ y <= c + m
    <3>1. y - c \in 1..m /\ c + (y - c) = y
      BY <1>1, <2>2
    <3> QED BY <1>12, <3>1
  <2>3. CASE right < y
    <3>1. y - right \in 1..(L - right) /\ right + (y - right) = y
      BY <1>1, <2>3
    <3> QED BY <1>13, <3>1
  <2> QED BY <1>14, <2>1, <2>2, <2>3
<1> QED BY Zenon, <1>7, <1>8, <1>9, <1>10, <1>12, <1>13, <1>14 DEF f, L, T

\* The groups of t are those of s where they come from, with the same alternatives.
LEMMA OriginGroups ==
    ASSUME NEW D, NEW t, NEW s, NEW left, NEW right, NEW n, NEW cut, NEW k, NEW h, NEW m, NEW c,
           Taken(D, t, s, left, right, n, cut, k, h, m, c), NEW i \in Groups(t)
    PROVE  LET f == Origins(t, right, h, m, c)
           IN /\ f[i] \in Groups(s) /\ f[i] # left
              /\ Cardinality(Separators(t, i)) = Cardinality(Separators(s, f[i]))
              /\ \A x \in 1..Len(t) : x \in Within(t, i) <=> f[x] \in Within(s, f[i])
              /\ \A x \in 1..Len(t), w \in Int : x \in Chosen(t, i, w) <=> f[x] \in Chosen(s, f[i], w)
<1> DEFINE L == Len(s)
           T == Len(t)
           f == Origins(t, right, h, m, c)
<1>1. /\ L \in Nat /\ left \in Nat /\ right \in Nat /\ left < right /\ right <= L
      /\ h \in Nat /\ m \in Nat /\ left = h + 1 /\ c \in Nat /\ left <= c /\ c + m < right
      /\ T = (h + m) + (L - right) /\ T \in Nat
  BY TakenIs
<1>2. /\ f \in [1..T -> 1..L]
      /\ \A x, y \in 1..T : x < y => f[x] < f[y]
      /\ \A x \in 1..T : t[x] = s[f[x]]
      /\ \A x \in 1..T : f[x] < left \/ (c < f[x] /\ f[x] <= c + m) \/ right < f[x]
      /\ \A x \in 1..m : h + x \in 1..T /\ f[h + x] = c + x
      /\ \A x \in 1..(L - right) : (h + m) + x \in 1..T /\ f[(h + m) + x] = right + x
  BY OriginsAre
<1>3. s \in Seq(D) /\ t \in Seq(D) /\ Grouped(s) /\ FirstDepths(s, left, right, n, cut)
      /\ k \in 1..(n + 1) /\ Spliced(t, s, left, right, cut, k, h, m) /\ c = left + cut[k]
  BY DEF Taken
<1>4. i \in 1..T /\ IsOpen(t[i])
  BY Zenon DEF Groups, IsOpen, T
<1> HIDE DEF f
<1>5. PICK a, b, o, p, q : /\ Aligned(t, a, s, b, o) /\ p \in 1..o /\ q \in 1..o /\ p < q
                           /\ i = a + p /\ MatchingBrace(s, b + p) = b + q
                           /\ \/ a = h /\ b = left + cut[k] /\ o = m
                              \/ a = h + m /\ b = right /\ o = Len(s) - right
  BY <1>3, <1>4, SplicedGroups DEF T
<1>6. a \in Nat /\ b \in Nat /\ o \in Nat /\ a + o <= T /\ b + o <= L
  BY <1>5 DEF Aligned
<1>7. \A x \in 1..o : a + x \in 1..T /\ f[a + x] = b + x
  <2>1. CASE a = h /\ b = left + cut[k] /\ o = m
    BY <1>2, <1>3, <2>1
  <2>2. CASE a = h + m /\ b = right /\ o = L - right
    BY <1>2, <2>2
  <2> QED BY <1>5, <2>1, <2>2
<1>8. f[i] = b + p /\ b + p \in 1..L /\ i = a + p
  <2>1. f[a + p] = b + p
    BY <1>5, <1>7
  <2> QED BY <1>1, <1>5, <1>6, <2>1
<1>9. MatchingBrace(t, a + p) = a + q
  <2>1. Aligned(t, a, s, b, o) /\ p \in 1..o /\ q \in 1..o /\ MatchingBrace(s, b + p) = b + q
    BY <1>5
  <2> QED BY <1>3, <2>1, BraceShift
<1> HIDE DEF L, T
<1>10. /\ \A y \in Int : y \in Within(s, b + p) <=> y + (a - b) \in Within(t, a + p)
       /\ \A y \in Int : y \in Separators(s, b + p) <=> y + (a - b) \in Separators(t, a + p)
       /\ Cardinality(Separators(s, b + p)) = Cardinality(Separators(t, a + p))
       /\ \A w, y \in Int : y \in Chosen(s, b + p, w) <=> y + (a - b) \in Chosen(t, a + p, w)
  <2>1. Aligned(t, a, s, b, o) /\ p \in 1..o /\ q \in 1..o /\ MatchingBrace(s, b + p) = b + q
    BY <1>5
  <2> QED BY <1>3, <2>1, GroupShift
<1>11. /\ Within(s, b + p) = ((b + p) + 1)..((b + q) - 1)
       /\ Within(t, a + p) = ((a + p) + 1)..((a + q) - 1)
  BY <1>5, <1>9 DEF Within
<1>12. \A x \in 1..T : x \in (a + 1)..(a + o) => f[x] + (a - b) = x /\ f[x] \in Int
  <2> TAKE x \in 1..T
  <2> HAVE x \in (a + 1)..(a + o)
  <2>1. x - a \in 1..o /\ a + (x - a) = x /\ (b + (x - a)) + (a - b) = x /\ b + (x - a) \in Int
    BY <1>6
  <2>2. f[a + (x - a)] = b + (x - a)
    BY <1>7, <2>1
  <2> QED BY <2>1, <2>2
<1>13. \A x \in 1..T : x \notin (a + 1)..(a + o) => x \notin Within(t, a + p) /\ f[x] \notin Within(s, b + p)
  <2> TAKE x \in 1..T
  <2> HAVE x \notin (a + 1)..(a + o)
  <2>1. Within(t, a + p) \subseteq (a + 1)..(a + o)
    BY <1>5, <1>6, <1>11
  <2>2. Within(s, b + p) \subseteq (b + 1)..(b + o)
    BY <1>5, <1>6, <1>11
  <2>3. ASSUME f[x] \in (b + 1)..(b + o) PROVE FALSE
    <3> DEFINE y == f[x] - b
    <3>1. y \in 1..o /\ b + y = f[x]
      BY <1>6, <2>3
    <3> HIDE DEF y
    <3>2. a + y \in 1..T /\ f[a + y] = f[x] /\ a + y \in (a + 1)..(a + o)
      BY <1>6, <1>7, <3>1
    <3>3. a + y = x
      <4>1. x \in Int /\ a + y \in Int
        BY <1>1, <3>2
      <4>2. f[x] \in Int
        BY <1>1, <1>2
      <4>3. ~(f[x] < f[x])
        BY <4>2
      <4>4. ~(a + y < x) /\ ~(x < a + y)
        BY <1>2, <3>2, <4>3
      <4> QED BY <4>1, <4>4
    <3> QED BY <3>2, <3>3
  <2> QED BY <2>1, <2>2, <2>3
<1>14. \A x \in 1..T : x \in Within(t, i) <=> f[x] \in Within(s, f[i])
  <2> TAKE x \in 1..T
  <2>1. CASE x \in (a + 1)..(a + o)
    <3>1. f[x] + (a - b) = x /\ f[x] \in Int
      BY <1>12, <2>1
    <3>2. f[x] \in Within(s, b + p) <=> f[x] + (a - b) \in Within(t, a + p)
      BY <1>10, <3>1
    <3> QED BY Zenon, <1>8, <3>1, <3>2
  <2>2. CASE x \notin (a + 1)..(a + o)
    BY Zenon, <1>8, <1>13, <2>2
  <2> QED BY <2>1, <2>2
<1>15. \A x \in 1..T, w \in Int : x \in Chosen(t, i, w) <=> f[x] \in Chosen(s, f[i], w)
  <2> TAKE x \in 1..T, w \in Int
  <2>1. CASE x \in (a + 1)..(a + o)
    <3>1. f[x] + (a - b) = x /\ f[x] \in Int
      BY <1>12, <2>1
    <3>2. f[x] \in Chosen(s, b + p, w) <=> f[x] + (a - b) \in Chosen(t, a + p, w)
      BY <1>10, <3>1
    <3> QED BY Zenon, <1>8, <3>1, <3>2
  <2>2. CASE x \notin (a + 1)..(a + o)
    <3>1. \A y, g : Chosen(y, g, w) \subseteq Within(y, g)
      BY DEF Chosen
    <3> QED BY Zenon, <1>8, <1>13, <2>2, <3>1
  <2> QED BY <2>1, <2>2
<1>16. f[i] \in Groups(s)
  <2>1. IsOpen(s[f[i]]) /\ f[i] \in 1..Len(s)
    BY <1>2, <1>4 DEF L
  <2> QED BY Zenon, <2>1 DEF Groups, IsOpen
<1>17. f[i] # left
  <2> DEFINE u == f[i]
  <2>1. u < left \/ (c < u /\ u <= c + m) \/ right < u
    BY <1>2, <1>4
  <2>2. u \in Int
    BY <1>2, <1>4 DEF L
  <2> HIDE DEF u
  <2>3. u # left
    BY <1>1, <2>1, <2>2
  <2> QED BY <2>3 DEF u
<1>18. Cardinality(Separators(t, i)) = Cardinality(Separators(s, f[i]))
  BY Zenon, <1>8, <1>10
<1> QED BY Zenon, <1>14, <1>15, <1>16, <1>17, <1>18 DEF f, T

\* Choosing the k-th alternative of the first group keeps the characters between two separators.
LEMMA FirstChosen ==
    ASSUME NEW s, NEW left, NEW right, NEW n, NEW cut, FirstDepths(s, left, right, n, cut), Len(s) \in Nat
    PROVE  /\ left \in Groups(s) /\ Within(s, left) = (left + 1)..(right - 1)
           /\ Cardinality(Separators(s, left)) = n
           /\ \A k \in 1..(n + 1) : \A y \in Within(s, left) :
                 y \in Chosen(s, left, k - 1) <=> left + cut[k] < y /\ y < left + cut[k + 1]
<1> DEFINE S == Separators(s, left)
           w == right - left
<1>1. /\ left \in Nat /\ right \in Nat /\ n \in Nat /\ 1 <= left /\ left < right /\ right <= Len(s)
      /\ right = MatchingBrace(s, left) /\ IsOpen(s[left])
      /\ cut \in [1..(n + 2) -> 0..w] /\ cut[1] = 0 /\ cut[n + 2] = w
      /\ \A i, j \in 1..(n + 2) : i < j => cut[i] < cut[j]
      /\ \A y : y \in S <=> \E x \in 2..(n + 1) : y = left + cut[x]
  BY DEF FirstDepths
<1> HIDE DEF S
<1>2. w \in Nat
  BY <1>1
<1> HIDE DEF w
<1>3. left \in Groups(s)
  <2>1. left \in 1..Len(s)
    BY <1>1
  <2> QED BY Zenon, <1>1, <2>1 DEF Groups, IsOpen
<1>4. Within(s, left) = (left + 1)..(right - 1)
  BY <1>1 DEF Within
<1>5. ASSUME NEW x \in 1..(n + 1), NEW A, \A y : y \in A <=> \E j \in 2..x : y = left + cut[j]
      PROVE  IsFiniteSet(A) /\ Cardinality(A) = x - 1
  <2> DEFINE g == [j \in 2..x |-> left + cut[j]]
  <2>1. IsFiniteSet(2..x) /\ Cardinality(2..x) = x - 1
    <3>0. 2 \in Int /\ x \in Int
      BY <1>1
    <3>1. IsFiniteSet(2..x) /\ Cardinality(2..x) = IF 2 > x THEN 0 ELSE (x - 2) + 1
      BY <3>0, FS_Interval
    <3>2. (2 > x => x - 1 = 0) /\ (x - 2) + 1 = x - 1
      BY <1>1
    <3> QED BY <3>1, <3>2
  <2>2. g \in [2..x -> A]
    BY <1>5
  <2>3. \A i, j \in 2..x : g[i] = g[j] => i = j
    <3> TAKE i, j \in 2..x
    <3>1. i \in 1..(n + 2) /\ j \in 1..(n + 2) /\ i \in Int /\ j \in Int
      BY <1>1
    <3>2. cut[i] \in 0..w /\ cut[j] \in 0..w
      BY <1>1, <3>1
    <3>3. i < j => cut[i] < cut[j]
      BY <1>1, <3>1
    <3>4. j < i => cut[j] < cut[i]
      BY <1>1, <3>1
    <3> DEFINE u == cut[i]
               v == cut[j]
    <3> HIDE DEF u, v
    <3>5. u \in Int /\ v \in Int /\ (i < j => u < v) /\ (j < i => v < u)
      BY <1>2, <3>2, <3>3, <3>4 DEF u, v
    <3>6. left + u = left + v => i = j
      BY <1>1, <3>1, <3>5
    <3> QED BY <3>6 DEF u, v
  <2>4. \A y \in A : \E j \in 2..x : g[j] = y
    BY <1>5
  <2> HIDE DEF g
  <2>5. ExistsBijection(2..x, A)
    <3>1. g \in Bijection(2..x, A)
      BY <2>2, <2>3, <2>4 DEF Bijection, Injection, Surjection, IsInjective
    <3> QED BY <3>1 DEF ExistsBijection
  <2> QED BY <2>1, <2>5, FS_Bijection
<1>6. Cardinality(S) = n
  <2>1. n + 1 \in 1..(n + 1) /\ (n + 1) - 1 = n
    BY <1>1
  <2>2. Cardinality(S) = (n + 1) - 1
    BY <1>1, <1>5, <2>1
  <2> QED BY <2>1, <2>2
<1>7. ASSUME NEW x \in 1..(n + 1), NEW y \in Int, left + cut[x] < y, y < left + cut[x + 1]
      PROVE  y \notin S /\ Cardinality({d \in S : d < y}) = x - 1
  <2>1. \A j \in 2..(n + 1) : left + cut[j] < y <=> j <= x
    <3> TAKE j \in 2..(n + 1)
    <3>1. j \in 1..(n + 2) /\ x \in 1..(n + 2) /\ x + 1 \in 1..(n + 2) /\ j \in Int /\ x \in Int
      BY <1>1
    <3> DEFINE u == cut[j]
               v == cut[x]
               z == cut[x + 1]
    <3>2. /\ u \in 0..w /\ v \in 0..w /\ z \in 0..w
          /\ j < x => u < v
          /\ x + 1 < j => z < u
      BY <1>1, <3>1
    <3>3. (j = x => u = v) /\ (j = x + 1 => u = z)
      OBVIOUS
    <3>4. left + v < y /\ y < left + z
      BY <1>7
    <3> HIDE DEF u, v, z
    <3>5. left + u < y <=> j <= x
      BY <1>1, <1>2, <3>1, <3>2, <3>3, <3>4
    <3> QED BY <3>5 DEF u
  <2>2. \A j \in 2..(n + 1) : y # left + cut[j]
    <3> TAKE j \in 2..(n + 1)
    <3>1. j \in 1..(n + 2) /\ x \in 1..(n + 2) /\ x + 1 \in 1..(n + 2) /\ j \in Int /\ x \in Int
      BY <1>1
    <3> DEFINE u == cut[j]
               v == cut[x]
               z == cut[x + 1]
    <3>2. /\ u \in 0..w /\ v \in 0..w /\ z \in 0..w
          /\ j < x => u < v
          /\ x + 1 < j => z < u
      BY <1>1, <3>1
    <3>3. (j = x => u = v) /\ (j = x + 1 => u = z)
      OBVIOUS
    <3>4. left + v < y /\ y < left + z
      BY <1>7
    <3> HIDE DEF u, v, z
    <3>5. y # left + u
      BY <1>1, <1>2, <3>1, <3>2, <3>3, <3>4
    <3> QED BY <3>5 DEF u
  <2>3. y \notin S
    BY <1>1, <2>2
  <2> DEFINE A == {d \in S : d < y}
  <2>4. \A d : d \in A <=> \E j \in 2..x : d = left + cut[j]
    <3> TAKE d
    <3>1. ASSUME d \in A PROVE \E j \in 2..x : d = left + cut[j]
      <4>1. PICK j \in 2..(n + 1) : d = left + cut[j]
        BY <1>1, <3>1
      <4>2. d < y
        BY <3>1
      <4>3. j <= x
        BY <2>1, <4>1, <4>2
      <4>4. j \in 2..x
        BY <1>1, <4>3
      <4> QED BY <4>1, <4>4
    <3>2. ASSUME NEW j \in 2..x, d = left + cut[j] PROVE d \in A
      <4>1. j \in 2..(n + 1) /\ j <= x
        BY <1>1
      <4>2. left + cut[j] < y
        BY <2>1, <4>1
      <4>3. d \in S
        BY <1>1, <3>2, <4>1
      <4> QED BY <3>2, <4>2, <4>3
    <3> QED BY <3>1, <3>2
  <2> HIDE DEF A
  <2>5. Cardinality(A) = x - 1
    BY <1>5, <2>4
  <2> QED BY <2>3, <2>5 DEF A
<1>8. ASSUME NEW y \in Within(s, left), y \notin S
      PROVE  \E x \in 1..(n + 1) : left + cut[x] < y /\ y < left + cut[x + 1]
  <2> DEFINE A == {x \in 1..(n + 2) : left + cut[x] < y}
  <2>1. y \in Int /\ left < y /\ y < right
    BY <1>1, <1>4
  <2>2. A \in SUBSET Int /\ A # {} /\ n + 2 \in Int /\ \A x \in A : x <= n + 2
    <3>1. 1 \in 1..(n + 2) /\ left + 0 < y
      BY <1>1, <2>1
    <3>2. 1 \in A
      BY <1>1, <3>1
    <3>3. \A x \in 1..(n + 2) : x \in Int /\ x <= n + 2
      BY <1>1
    <3>4. A \subseteq 1..(n + 2)
      OBVIOUS
    <3>5. n + 2 \in Int
      BY <1>1
    <3> HIDE DEF A
    <3>6. A \in SUBSET Int /\ \A x \in A : x <= n + 2
      BY <3>3, <3>4
    <3>7. A # {}
      BY <3>2
    <3> QED BY <3>5, <3>6, <3>7
  <2>3. PICK x \in A : \A j \in A : j <= x
    <3> HIDE DEF A
    <3> QED BY <2>2, GreatestExists
  <2>4. x \in 1..(n + 2) /\ left + cut[x] < y
    BY <2>3
  <2>5. x # n + 2
    <3> SUFFICES ASSUME x = n + 2 PROVE FALSE
      OBVIOUS
    <3>1. left + w = right
      BY <1>1 DEF w
    <3>2. left + w < y
      BY <1>1, <2>4
    <3> QED BY <1>1, <2>1, <3>1, <3>2
  <2>6. x \in 1..(n + 1) /\ x + 1 \in 1..(n + 2) /\ x + 1 \in 2..(n + 2) /\ ~(x + 1 <= x)
    BY <1>1, <2>4, <2>5
  <2>7. ~(left + cut[x + 1] < y)
    <3> SUFFICES ASSUME left + cut[x + 1] < y PROVE FALSE
      OBVIOUS
    <3>1. x + 1 \in A
      BY <2>6
    <3> QED BY <2>3, <2>6, <3>1
  <2>8. y # left + cut[x + 1]
    <3>1. CASE x + 1 = n + 2
      <4>1. left + w = right
        BY <1>1 DEF w
      <4>2. cut[x + 1] = w
        BY <1>1, <3>1
      <4> QED BY <1>1, <2>1, <4>1, <4>2
    <3>2. CASE x + 1 # n + 2
      <4>1. x + 1 \in 2..(n + 1)
        BY <1>1, <2>6, <3>2
      <4> QED BY <1>1, <1>8, <4>1
    <3> QED BY <3>1, <3>2
  <2>9. cut[x + 1] \in Int
    <3>1. cut[x + 1] \in 0..w
      BY <1>1, <2>6
    <3> QED BY <1>2, <3>1
  <2> DEFINE z == cut[x + 1]
  <2> HIDE DEF z, A
  <2>10. ~(left + z < y) /\ y # left + z /\ z \in Int
    BY <2>7, <2>8, <2>9 DEF z
  <2>11. y < left + z
    BY <1>1, <2>1, <2>10
  <2> QED BY <2>4, <2>6, <2>11 DEF z
<1>9. \A y, j : y \in Chosen(s, left, j) <=> y \in Within(s, left) /\ y \notin S /\ Cardinality({d \in S : d < y}) = j
  BY Zenon DEF Chosen, S
<1>10. ASSUME NEW k \in 1..(n + 1), NEW y \in Within(s, left)
       PROVE  y \in Chosen(s, left, k - 1) <=> left + cut[k] < y /\ y < left + cut[k + 1]
  <2>1. y \in Int
    BY <1>1, <1>4
  <2>2. ASSUME left + cut[k] < y, y < left + cut[k + 1] PROVE y \in Chosen(s, left, k - 1)
    <3>1. y \notin S /\ Cardinality({d \in S : d < y}) = k - 1
      BY <1>7, <2>1, <2>2
    <3> QED BY <1>9, <3>1
  <2>3. ASSUME y \in Chosen(s, left, k - 1) PROVE left + cut[k] < y /\ y < left + cut[k + 1]
    <3>1. y \notin S /\ Cardinality({d \in S : d < y}) = k - 1
      BY <1>9, <2>3
    <3>2. PICK x \in 1..(n + 1) : left + cut[x] < y /\ y < left + cut[x + 1]
      BY <1>8, <3>1
    <3>3. Cardinality({d \in S : d < y}) = x - 1
      BY <1>7, <2>1, <3>2
    <3>4. x = k
      <4>1. x - 1 = k - 1 /\ x \in Int /\ k \in Int
        BY <1>1, <3>1, <3>3
      <4> QED BY <4>1
    <3> QED BY <3>2, <3>4
  <2> QED BY <2>2, <2>3
<1> QED BY Zenon, <1>3, <1>4, <1>6, <1>10 DEF S

\* A group of s that is not one of t, nor the first, keeps out of what t is made of.
LEMMA OtherGroups ==
    ASSUME NEW D, NEW t, NEW s, NEW left, NEW right, NEW n, NEW cut, NEW k, NEW h, NEW m, NEW c,
           Taken(D, t, s, left, right, n, cut, k, h, m, c), NEW i \in 1..Len(s), IsOpen(s[i]), i # left,
           \A x \in 1..Len(t) : Origins(t, right, h, m, c)[x] # i
    PROVE  \A x \in 1..Len(t) : Origins(t, right, h, m, c)[x] \notin Within(s, i)
<1> DEFINE L == Len(s)
           T == Len(t)
           f == Origins(t, right, h, m, c)
           e == MatchingBrace(s, i)
<1>1. /\ L \in Nat /\ left \in Nat /\ right \in Nat /\ left < right /\ right <= L
      /\ h \in Nat /\ m \in Nat /\ left = h + 1 /\ c \in Nat /\ left <= c /\ c + m < right
  BY TakenIs
<1>2. /\ f \in [1..T -> 1..L]
      /\ \A x \in 1..T : f[x] < left \/ (c < f[x] /\ f[x] <= c + m) \/ right < f[x]
      /\ \A y \in 1..L : y < left \/ (c < y /\ y <= c + m) \/ right < y => \E x \in 1..T : f[x] = y
  BY OriginsAre
<1>3. s \in Seq(D) /\ Grouped(s) /\ FirstDepths(s, left, right, n, cut) /\ k \in 1..(n + 1) /\ c = left + cut[k]
  BY DEF Taken
<1>4. /\ \A y \in 1..(left - 1) : ~IsOpen(s[y]) /\ ~IsClose(s[y])
      /\ IsClose(s[right]) /\ Depth(s, right) = 0
      /\ \A y \in left..(right - 1) : Depth(s, y) >= 1
      /\ Depth(s, c) = 1
  BY <1>3 DEF FirstDepths
<1>5. /\ \A y \in 0..L : Depth(s, y) \in Int
      /\ Depth(s, i) = Depth(s, i - 1) + Turn(s[i])
  BY <1>3, DepthIs
<1>6. e \in (i + 1)..L /\ \A y \in i..(e - 1) : Depth(s, y) >= Depth(s, i)
  <2>1. MatchingBrace(s, i) # 0
    BY <1>3, GroupedOpens
  <2> QED BY <1>3, <2>1, BetweenBraces
<1> HIDE DEF f, e, L, T
<1>7. i \in 1..L /\ i \in Int /\ \A x \in 1..T : f[x] # i
  BY <1>1 DEF f, L, T
<1>8. left < i /\ i < right /\ ~(c < i /\ i <= c + m)
  <2>1. ~(i < left) /\ ~(c < i /\ i <= c + m) /\ ~(right < i)
    BY <1>2, <1>7
  <2>2. i # right
    BY <1>4, TurnIs
  <2> QED BY <1>1, <1>7, <2>1, <2>2
<1>9. Depth(s, i) >= 2
  <2>1. i - 1 \in left..(right - 1) /\ i - 1 \in 0..L
    BY <1>1, <1>7, <1>8
  <2>2. Depth(s, i - 1) >= 1 /\ Depth(s, i - 1) \in Int /\ Turn(s[i]) = 1
    BY <1>4, <1>5, <2>1, TurnIs
  <2> QED BY <1>5, <2>2
<1>10. e <= right
  <2> SUFFICES ASSUME right < e PROVE FALSE
    BY <1>1, <1>6, <1>7
  <2>1. right \in i..(e - 1)
    BY <1>1, <1>6, <1>7, <1>8
  <2>2. Depth(s, right) >= Depth(s, i) /\ Depth(s, i) \in Int
    BY <1>5, <1>6, <1>7, <2>1, <1>1
  <2> QED BY <1>4, <1>9, <2>2
<1>11. ASSUME NEW x \in 1..T, f[x] \in Within(s, i) PROVE FALSE
  <2> DEFINE y == f[x]
  <2>1. y \in (i + 1)..(e - 1)
    BY <1>11 DEF Within, e
  <2>2. y \in Int /\ (y < left \/ (c < y /\ y <= c + m) \/ right < y)
    BY <1>2, <1>6, <1>7, <2>1
  <2> HIDE DEF y
  <2>3. c < y /\ y <= c + m
    BY <1>1, <1>6, <1>7, <1>8, <1>10, <2>1, <2>2
  <2>4. i <= c
    BY <1>1, <1>6, <1>7, <1>8, <2>1, <2>2, <2>3
  <2>5. c \in i..(e - 1) /\ i \in 0..L
    BY <1>1, <1>6, <1>7, <2>1, <2>2, <2>3, <2>4
  <2>6. Depth(s, c) >= Depth(s, i) /\ Depth(s, i) \in Int
    BY <1>5, <1>6, <2>5
  <2> QED BY <1>4, <1>9, <2>6
<1> QED BY <1>11 DEF f, T

-----------------------------------------------------------------------------
(* What an alternative of each group leaves *)

\* A choice of an alternative of every group of s, and what it keeps.
Picks(s) == {g \in [Groups(s) -> Nat] : \A i \in Groups(s) : g[i] <= Cardinality(Separators(s, i))}
IsKept(s, pick, x) ==
    /\ ~IsOpen(s[x]) /\ ~IsClose(s[x])
    /\ \A i \in Groups(s) : x \in Within(s, i) => x \in Chosen(s, i, pick[i])
Keep(s, pick) == {x \in 1..Len(s) : IsKept(s, pick, x)}

LEMMA GroupsAre ==
    ASSUME NEW s
    PROVE  \A i : i \in Groups(s) <=> i \in 1..Len(s) /\ IsOpen(s[i])
<1> QED BY Zenon DEF Groups, IsOpen

LEMMA SeparatorsFew ==
    ASSUME NEW D, NEW s \in Seq(D), NEW i \in 1..Len(s)
    PROVE  Cardinality(Separators(s, i)) \in 0..Len(s)
<1> DEFINE L == Len(s)
<1>1. L \in Nat
  BY LenProperties
<1>2. Separators(s, i) \subseteq Within(s, i)
  BY DEF Separators
<1>3. Within(s, i) \subseteq 1..L
  <2>1. MatchingBrace(s, i) = 0 \/ MatchingBrace(s, i) \in (i + 1)..L
    BY MatchingBraceIs
  <2> QED BY <1>1, <2>1 DEF Within
<1>4. IsFiniteSet(1..L) /\ Cardinality(1..L) = L
  <2>1. 1 \in Int /\ L \in Int
    BY <1>1
  <2>2. IsFiniteSet(1..L) /\ Cardinality(1..L) = IF 1 > L THEN 0 ELSE (L - 1) + 1
    BY <2>1, FS_Interval
  <2>3. (1 > L => L = 0) /\ (L - 1) + 1 = L
    BY <1>1
  <2> QED BY <2>2, <2>3
<1>5. IsFiniteSet(Separators(s, i)) /\ Cardinality(Separators(s, i)) <= Cardinality(1..L)
  BY <1>2, <1>3, <1>4, FS_Subset
<1>6. Cardinality(Separators(s, i)) \in Nat
  BY <1>5, FS_CardinalityType
<1> QED BY <1>1, <1>4, <1>5, <1>6

\* The meaning of a brace set in these terms.
LEMMA AlternativesAre ==
    ASSUME NEW D, NEW s \in Seq(D)
    PROVE  \A r : r \in Alternatives(s) <=> \E pick \in Picks(s) : r = Picked(s, Keep(s, pick))
<1> DEFINE sizes == {Cardinality(Separators(s, i)) : i \in Groups(s)} \cup {0}
           picks == {g \in [Groups(s) -> 0..Max(sizes)] : \A i \in Groups(s) : g[i] <= Cardinality(Separators(s, i))}
           left == {j \in 1..Len(s) : s[j] \notin {"{", "}"}}
           out(pick) == UNION {Within(s, i) \ Chosen(s, i, pick[i]) : i \in Groups(s)}
<1>1. Alternatives(s) = {Picked(s, left \ out(pick)) : pick \in picks}
  BY Zenon DEF Alternatives
<1>2. ASSUME NEW pick PROVE left \ out(pick) = Keep(s, pick)
  <2>1. \A j : j \in left <=> j \in 1..Len(s) /\ ~IsOpen(s[j]) /\ ~IsClose(s[j])
    BY Zenon DEF IsOpen, IsClose
  <2> HIDE DEF left
  <2>2. \A j : j \in out(pick) <=> \E i \in Groups(s) : j \in Within(s, i) /\ j \notin Chosen(s, i, pick[i])
    OBVIOUS
  <2> HIDE DEF out
  <2>3. \A j : j \in left \ out(pick) <=> j \in Keep(s, pick)
    BY Zenon, <2>1, <2>2 DEF Keep, IsKept
  <2> QED BY Zenon, <2>3
<1>3. picks = Picks(s)
  <2>1. Len(s) \in Nat /\ \A i \in Groups(s) : Cardinality(Separators(s, i)) \in 0..Len(s)
    BY LenProperties, GroupsAre, SeparatorsFew
  <2>2. PICK top \in sizes : \A k \in sizes : k <= top
    <3>1. sizes \in SUBSET Int /\ sizes # {} /\ \A k \in sizes : k <= Len(s)
      BY <2>1
    <3> HIDE DEF sizes
    <3>2. Len(s) \in Int
      BY <2>1
    <3> QED BY <3>1, <3>2, GreatestExists
  <2>3. top \in Nat /\ Max(sizes) = top
    <3>1. sizes \in SUBSET Nat
      BY <2>1
    <3> HIDE DEF sizes
    <3> QED BY <2>2, <3>1, MaxIs
  <2>4. \A i \in Groups(s) : Cardinality(Separators(s, i)) <= top /\ Cardinality(Separators(s, i)) \in Nat
    BY <2>1, <2>2
  <2> HIDE DEF sizes
  <2>5. picks = {g \in [Groups(s) -> 0..top] : \A i \in Groups(s) : g[i] <= Cardinality(Separators(s, i))}
    BY <2>3
  <2> HIDE DEF picks
  <2> QED BY <2>3, <2>4, <2>5 DEF Picks
<1> HIDE DEF picks, left, out, sizes
<1> QED BY <1>1, <1>2, <1>3

\* What is kept of t is what is kept of s, where it comes from.
LEMMA KeptShift ==
    ASSUME NEW D, NEW t, NEW s, NEW left, NEW right, NEW n, NEW cut, NEW k, NEW h, NEW m, NEW c,
           Taken(D, t, s, left, right, n, cut, k, h, m, c), NEW pick \in [Groups(s) -> Nat], pick[left] = k - 1,
           NEW taken \in [Groups(t) -> Nat],
           \A i \in Groups(t) : taken[i] = pick[Origins(t, right, h, m, c)[i]]
    PROVE  LET f == Origins(t, right, h, m, c)
           IN /\ \A x \in 1..Len(t) : x \in Keep(t, taken) <=> f[x] \in Keep(s, pick)
              /\ \A y \in Keep(s, pick) : \E x \in 1..Len(t) : f[x] = y
<1> DEFINE L == Len(s)
           T == Len(t)
           f == Origins(t, right, h, m, c)
<1>1. /\ L \in Nat /\ left \in Nat /\ right \in Nat /\ left < right /\ right <= L
      /\ h \in Nat /\ m \in Nat /\ left = h + 1 /\ c \in Nat /\ left <= c /\ c + m < right
      /\ left + cut[k + 1] = (c + m) + 1
  BY TakenIs
<1>2. /\ f \in [1..T -> 1..L]
      /\ \A x \in 1..T : t[x] = s[f[x]]
      /\ \A x \in 1..T : f[x] < left \/ (c < f[x] /\ f[x] <= c + m) \/ right < f[x]
      /\ \A y \in 1..L : y < left \/ (c < y /\ y <= c + m) \/ right < y => \E x \in 1..T : f[x] = y
  BY OriginsAre
<1>3. s \in Seq(D) /\ FirstDepths(s, left, right, n, cut) /\ k \in 1..(n + 1) /\ c = left + cut[k]
  BY DEF Taken
<1>4. IsOpen(s[left]) /\ IsClose(s[right])
  BY <1>3 DEF FirstDepths
<1>5. /\ left \in Groups(s) /\ Within(s, left) = (left + 1)..(right - 1)
      /\ \A y \in Within(s, left) : y \in Chosen(s, left, k - 1) <=> left + cut[k] < y /\ y < left + cut[k + 1]
  BY <1>1, <1>3, FirstChosen
<1>6. \A y \in Within(s, left) : y \in Chosen(s, left, pick[left]) <=> c < y /\ y <= c + m
  <2> TAKE y \in Within(s, left)
  <2>1. y \in Int
    BY <1>1, <1>5
  <2>2. y < (c + m) + 1 <=> y <= c + m
    BY <1>1, <2>1
  <2> QED BY <1>1, <1>3, <1>5, <2>2
<1>7. \A i \in Groups(t) : f[i] \in Groups(s)
  BY OriginGroups
<1>8. \A i \in Groups(t) : \A x \in 1..T : x \in Within(t, i) <=> f[x] \in Within(s, f[i])
  BY OriginGroups
<1>9. \A i \in Groups(t) : \A x \in 1..T : x \in Chosen(t, i, taken[i]) <=> f[x] \in Chosen(s, f[i], pick[f[i]])
  <2> TAKE i \in Groups(t)
  <2>1. \A x \in 1..T, w \in Int : x \in Chosen(t, i, w) <=> f[x] \in Chosen(s, f[i], w)
    BY OriginGroups
  <2>2. taken[i] = pick[f[i]] /\ taken[i] \in Int
    OBVIOUS
  <2> HIDE DEF f, T
  <2> QED BY <2>1, <2>2
<1>10. \A i \in 1..L : IsOpen(s[i]) /\ i # left /\ (\A x \in 1..T : f[x] # i) => \A x \in 1..T : f[x] \notin Within(s, i)
  BY OtherGroups
<1>11. /\ \A i : i \in Groups(s) <=> i \in 1..L /\ IsOpen(s[i])
       /\ \A i : i \in Groups(t) <=> i \in 1..T /\ IsOpen(t[i])
  BY GroupsAre
<1>12. /\ \A x : x \in Keep(s, pick) <=> x \in 1..L /\ IsKept(s, pick, x)
       /\ \A x : x \in Keep(t, taken) <=> x \in 1..T /\ IsKept(t, taken, x)
  BY Zenon DEF Keep, L, T
<1> HIDE DEF f, L, T
<1>13. ASSUME NEW x \in 1..T, IsKept(t, taken, x) PROVE IsKept(s, pick, f[x])
  <2>1. ~IsOpen(s[f[x]]) /\ ~IsClose(s[f[x]])
    BY <1>2, <1>13 DEF IsKept
  <2>2. ASSUME NEW i \in Groups(s), f[x] \in Within(s, i) PROVE f[x] \in Chosen(s, i, pick[i])
    <3>1. CASE i = left
      <4> DEFINE y == f[x]
      <4>1. y \in Within(s, left)
        BY <2>2, <3>1
      <4>2. y < left \/ (c < y /\ y <= c + m) \/ right < y
        BY <1>2
      <4> HIDE DEF y
      <4>3. c < y /\ y <= c + m
        BY <1>1, <1>5, <4>1, <4>2
      <4>4. y \in Chosen(s, left, pick[left])
        BY <1>6, <4>1, <4>3
      <4> QED BY <3>1, <4>4 DEF y
    <3>2. CASE \E j \in 1..T : f[j] = i
      <4>1. PICK j \in 1..T : f[j] = i
        BY <3>2
      <4>2. j \in Groups(t)
        BY <1>2, <1>11, <4>1
      <4>3. x \in Within(t, j)
        BY <1>8, <2>2, <4>1, <4>2
      <4>4. x \in Chosen(t, j, taken[j])
        BY <1>13, <4>2, <4>3 DEF IsKept
      <4> QED BY <1>9, <4>1, <4>2, <4>4
    <3>3. CASE i # left /\ \A j \in 1..T : f[j] # i
      BY <1>10, <1>11, <2>2, <3>3
    <3> QED BY <3>1, <3>2, <3>3
  <2> QED BY <2>1, <2>2 DEF IsKept
<1>14. ASSUME NEW x \in 1..T, IsKept(s, pick, f[x]) PROVE IsKept(t, taken, x)
  <2>1. ~IsOpen(t[x]) /\ ~IsClose(t[x])
    BY <1>2, <1>14 DEF IsKept
  <2>2. ASSUME NEW i \in Groups(t), x \in Within(t, i) PROVE x \in Chosen(t, i, taken[i])
    <3>1. f[x] \in Within(s, f[i]) /\ f[i] \in Groups(s)
      BY <1>7, <1>8, <2>2
    <3>2. f[x] \in Chosen(s, f[i], pick[f[i]])
      BY <1>14, <3>1 DEF IsKept
    <3> QED BY <1>9, <2>2, <3>2
  <2> QED BY <2>1, <2>2 DEF IsKept
<1>15. ASSUME NEW y \in 1..L, IsKept(s, pick, y) PROVE \E x \in 1..T : f[x] = y
  <2>1. y # left /\ y # right /\ y \in Int
    BY <1>1, <1>4, <1>15 DEF IsKept
  <2>2. CASE left < y /\ y < right
    <3>1. y \in Within(s, left)
      BY <1>1, <1>5, <2>1, <2>2
    <3>2. y \in Chosen(s, left, pick[left])
      BY <1>5, <1>15, <3>1 DEF IsKept
    <3> QED BY <1>2, <1>6, <3>1, <3>2
  <2>3. CASE y < left \/ right < y
    BY <1>2, <2>3
  <2>4. y < left \/ (left < y /\ y < right) \/ right < y
    BY <1>1, <2>1
  <2> QED BY <2>2, <2>3, <2>4
<1>16. \A x \in 1..T : x \in Keep(t, taken) <=> f[x] \in Keep(s, pick)
  <2> TAKE x \in 1..T
  <2>1. f[x] \in 1..L
    BY <1>2
  <2> QED BY <1>12, <1>13, <1>14, <2>1
<1>17. \A y \in Keep(s, pick) : \E x \in 1..T : f[x] = y
  BY <1>12, <1>15
<1> QED BY Zenon, <1>16, <1>17 DEF f, T

\* Of two tables that ascend, one that has every cell of the other is never behind it.
LEMMA NotBehind ==
    ASSUME NEW p \in Nat, NEW q \in Nat, NEW u, NEW v,
           \A i \in 1..p : u[i] \in Int, \A i \in 1..q : v[i] \in Int,
           \A i, j \in 1..p : i < j => u[i] < u[j],
           \A i, j \in 1..q : i < j => v[i] < v[j],
           \A i \in 1..p : \E j \in 1..q : v[j] = u[i]
    PROVE  p <= q /\ \A i \in 1..p : v[i] <= u[i]
<1> DEFINE P == {i \in 0..p : i <= q /\ (i > 0 => v[i] <= u[i])}
<1>1. 0 \in P
  OBVIOUS
<1>2. ASSUME NEW i \in 0..(p - 1), i \in P PROVE i + 1 \in P
  <2>1. i + 1 \in 1..p /\ i \in Nat /\ i <= q
    BY <1>2
  <2>2. PICK j \in 1..q : v[j] = u[i + 1]
    BY <2>1
  <2>3. i < j
    <3>1. CASE i = 0
      BY <3>1
    <3>2. CASE i # 0
      <4>1. i \in 1..p /\ i \in 1..q /\ i < i + 1
        BY <2>1, <3>2
      <4>2. v[i] <= u[i] /\ u[i] < u[i + 1]
        BY <1>2, <2>1, <4>1
      <4>3. u[i] \in Int /\ u[i + 1] \in Int /\ v[i] \in Int /\ v[j] \in Int
        BY <2>1, <4>1
      <4>4. v[i] < v[j]
        BY <2>2, <4>2, <4>3
      <4>5. j < i => v[j] < v[i]
        BY <4>1
      <4>6. ~(j < i) /\ j # i
        BY <4>3, <4>4, <4>5
      <4> QED BY <4>1, <4>6
    <3> QED BY <3>1, <3>2
  <2>4. i + 1 <= j /\ i + 1 \in 1..q
    BY <2>1, <2>3
  <2>5. v[i + 1] <= v[j]
    <3>1. v[i + 1] \in Int /\ v[j] \in Int
      BY <2>4
    <3>2. i + 1 < j => v[i + 1] < v[j]
      BY <2>4
    <3>3. i + 1 = j \/ i + 1 < j
      BY <2>1, <2>4
    <3>4. i + 1 = j => v[i + 1] = v[j]
      OBVIOUS
    <3> DEFINE a == v[i + 1]
               b == v[j]
    <3> HIDE DEF a, b
    <3>5. a <= b
      BY <3>1, <3>2, <3>3, <3>4 DEF a, b
    <3> QED BY <3>5 DEF a, b
  <2> QED BY <2>1, <2>2, <2>4, <2>5
<1>3. \A i \in 0..p : i \in P
  <2> HIDE DEF P
  <2> QED BY <1>1, <1>2, Upward
<1> QED BY <1>3

\* Two tables that ascend and have the same cells.
SameCells(p, u, q, v) ==
    /\ p \in Nat /\ q \in Nat
    /\ \A i \in 1..p : u[i] \in Int
    /\ \A i \in 1..q : v[i] \in Int
    /\ \A i, j \in 1..p : i < j => u[i] < u[j]
    /\ \A i, j \in 1..q : i < j => v[i] < v[j]
    /\ \A i \in 1..p : \E j \in 1..q : v[j] = u[i]
    /\ \A j \in 1..q : \E i \in 1..p : u[i] = v[j]

LEMMA OneOrder ==
    ASSUME NEW p, NEW q, NEW u, NEW v, SameCells(p, u, q, v)
    PROVE  p = q /\ \A i \in 1..p : u[i] = v[i]
<1> USE DEF SameCells
<1>1. p <= q /\ \A i \in 1..p : v[i] <= u[i]
  BY NotBehind
<1>2. q <= p /\ \A i \in 1..q : u[i] <= v[i]
  BY NotBehind
<1> QED BY <1>1, <1>2

\* What is picked of s by places B is what is picked of t by the places A they have there.
MovesTo(t, A, s, B, f) ==
    /\ f \in [1..Len(t) -> 1..Len(s)]
    /\ \A x, y \in 1..Len(t) : x < y => f[x] < f[y]
    /\ \A x \in 1..Len(t) : t[x] = s[f[x]]
    /\ \A x \in 1..Len(t) : x \in A <=> f[x] \in B
    /\ \A y \in 1..Len(s) : y \in B => \E x \in 1..Len(t) : f[x] = y

LEMMA PickedShift ==
    ASSUME NEW D, NEW s \in Seq(D), NEW t \in Seq(D), NEW f, NEW A, NEW B, MovesTo(t, A, s, B, f)
    PROVE  Picked(s, B) = Picked(t, A)
<1> USE DEF MovesTo
<1> DEFINE a == InTurn(Len(t), A)
           b == InTurn(Len(s), B)
           p == Len(a)
           q == Len(b)
           u == [i \in 1..p |-> f[a[i]]]
           T == Len(t)
           L == Len(s)
<1>1. T \in Nat /\ L \in Nat
  BY LenProperties
<1>2. /\ a \in Seq(1..T) /\ \A i, j \in 1..p : i < j => a[i] < a[j]
      /\ \A i \in 1..p : a[i] \in A /\ a[i] \in 1..T
      /\ \A o \in 1..T : o \in A => \E i \in 1..p : a[i] = o
  BY <1>1, InTurnIs
<1>3. /\ b \in Seq(1..L) /\ \A i, j \in 1..q : i < j => b[i] < b[j]
      /\ \A i \in 1..q : b[i] \in B /\ b[i] \in 1..L
      /\ \A o \in 1..L : o \in B => \E i \in 1..q : b[i] = o
  BY <1>1, InTurnIs
<1>4. p \in Nat /\ q \in Nat
  <2> HIDE DEF a, b
  <2> QED BY <1>2, <1>3, LenProperties
<1>5. Picked(s, B) = [k \in 1..q |-> s[b[k]]] /\ Picked(t, A) = [k \in 1..p |-> t[a[k]]]
  BY DEF Picked
<1> HIDE DEF a, b, p, q, T, L
<1>6. \A i \in 1..p : u[i] \in 1..L /\ u[i] \in B /\ u[i] = f[a[i]]
  BY <1>2 DEF T, L
<1>7. \A i \in 1..p : t[a[i]] = s[u[i]]
  BY <1>2, <1>6 DEF T
<1>8. \A i, j \in 1..p : i < j => u[i] < u[j]
  BY <1>2, <1>6 DEF T
<1>9. \A y \in 1..L : y \in B => \E x \in 1..T : x \in A /\ f[x] = y
  BY DEF T, L
<1>10. \A j \in 1..q : \E i \in 1..p : u[i] = b[j]
  <2> TAKE j \in 1..q
  <2>1. PICK x \in 1..T : x \in A /\ f[x] = b[j]
    BY <1>3, <1>9
  <2>2. PICK i \in 1..p : a[i] = x
    BY <1>2, <2>1
  <2> QED BY <1>6, <2>1, <2>2
<1>11. \A i \in 1..p : \E j \in 1..q : b[j] = u[i]
  BY <1>3, <1>6
<1>12. (\A i \in 1..p : u[i] \in Int) /\ \A j \in 1..q : b[j] \in Int
  BY <1>1, <1>3, <1>6
<1> HIDE DEF u
<1>13. p = q /\ \A i \in 1..p : u[i] = b[i]
  <2>1. \A i, j \in 1..q : i < j => b[i] < b[j]
    BY <1>3
  <2>2. \A i \in 1..p : u[i] \in Int
    BY <1>12
  <2>3. \A j \in 1..q : b[j] \in Int
    BY <1>12
  <2>4. SameCells(p, u, q, b)
    BY Zenon, <1>4, <1>8, <1>10, <1>11, <2>1, <2>2, <2>3 DEF SameCells
  <2> QED BY <2>4, OneOrder
<1>14. \A k \in 1..p : t[a[k]] = s[b[k]]
  BY <1>7, <1>13
<1> QED BY <1>5, <1>13, <1>14

\* What each alternative of the first group leaves is what its choice leaves of the whole.
LEMMA TakenPicks ==
    ASSUME NEW D, NEW t, NEW s, NEW left, NEW right, NEW n, NEW cut, NEW k, NEW h, NEW m, NEW c,
           Taken(D, t, s, left, right, n, cut, k, h, m, c), NEW pick \in Picks(s), pick[left] = k - 1
    PROVE  \E taken \in Picks(t) : Picked(s, Keep(s, pick)) = Picked(t, Keep(t, taken))
<1> DEFINE f == Origins(t, right, h, m, c)
           taken == [i \in Groups(t) |-> pick[f[i]]]
<1>1. pick \in [Groups(s) -> Nat] /\ \A i \in Groups(s) : pick[i] <= Cardinality(Separators(s, i))
  BY DEF Picks
<1>2. \A i \in Groups(t) : f[i] \in Groups(s) /\ Cardinality(Separators(t, i)) = Cardinality(Separators(s, f[i]))
  BY OriginGroups
<1>3. /\ f \in [1..Len(t) -> 1..Len(s)]
      /\ \A x, y \in 1..Len(t) : x < y => f[x] < f[y]
      /\ \A x \in 1..Len(t) : t[x] = s[f[x]]
  BY OriginsAre
<1>4. s \in Seq(D) /\ t \in Seq(D)
  BY DEF Taken
<1>5. taken \in [Groups(t) -> Nat] /\ \A i \in Groups(t) : taken[i] = pick[f[i]]
  <2> HIDE DEF f
  <2> QED BY <1>1, <1>2
<1>6. taken \in Picks(t)
  <2> HIDE DEF f, taken
  <2> QED BY <1>1, <1>2, <1>5 DEF Picks
<1> HIDE DEF taken
<1>7. /\ \A x \in 1..Len(t) : x \in Keep(t, taken) <=> f[x] \in Keep(s, pick)
      /\ \A y \in Keep(s, pick) : \E x \in 1..Len(t) : f[x] = y
  BY <1>1, <1>5, KeptShift
<1> HIDE DEF f
<1>8. Picked(s, Keep(s, pick)) = Picked(t, Keep(t, taken))
  <2>1. \A y \in 1..Len(s) : y \in Keep(s, pick) => \E x \in 1..Len(t) : f[x] = y
    BY <1>7
  <2>2. MovesTo(t, Keep(t, taken), s, Keep(s, pick), f)
    BY Zenon, <1>3, <1>7, <2>1 DEF MovesTo
  <2> QED BY <1>4, <2>2, PickedShift
<1> QED BY <1>6, <1>8

\* And of every choice of such an alternative there is one of the whole.
LEMMA PicksTaken ==
    ASSUME NEW D, NEW t, NEW s, NEW left, NEW right, NEW n, NEW cut, NEW k, NEW h, NEW m, NEW c,
           Taken(D, t, s, left, right, n, cut, k, h, m, c), NEW taken \in Picks(t)
    PROVE  \E pick \in Picks(s) : Picked(s, Keep(s, pick)) = Picked(t, Keep(t, taken))
<1> DEFINE f == Origins(t, right, h, m, c)
           from(i) == CHOOSE j \in Groups(t) : f[j] = i
           pick == [i \in Groups(s) |-> IF i = left THEN k - 1
                                        ELSE IF \E j \in Groups(t) : f[j] = i THEN taken[from(i)] ELSE 0]
<1>1. taken \in [Groups(t) -> Nat] /\ \A i \in Groups(t) : taken[i] <= Cardinality(Separators(t, i))
  BY DEF Picks
<1>2. \A i \in Groups(t) : /\ f[i] \in Groups(s) /\ f[i] # left
                           /\ Cardinality(Separators(t, i)) = Cardinality(Separators(s, f[i]))
  BY OriginGroups
<1>3. /\ f \in [1..Len(t) -> 1..Len(s)]
      /\ \A x, y \in 1..Len(t) : x < y => f[x] < f[y]
      /\ \A x \in 1..Len(t) : t[x] = s[f[x]]
  BY OriginsAre
<1>4. s \in Seq(D) /\ t \in Seq(D) /\ FirstDepths(s, left, right, n, cut) /\ k \in 1..(n + 1) /\ n \in Nat
  <2>1. n \in Nat
    BY TakenIs
  <2> QED BY <2>1 DEF Taken
<1>5. left \in Groups(s) /\ Cardinality(Separators(s, left)) = n
  <2>1. Len(s) \in Nat
    BY <1>4, LenProperties
  <2> QED BY <1>4, <2>1, FirstChosen
<1>6. Groups(t) \subseteq 1..Len(t) /\ \A x \in 1..Len(t), y \in 1..Len(t) : f[x] = f[y] => x = y
  <2>1. Groups(t) \subseteq 1..Len(t)
    BY GroupsAre
  <2> HIDE DEF f
  <2>2. ASSUME NEW x \in 1..Len(t), NEW y \in 1..Len(t), f[x] = f[y] PROVE x = y
    <3>1. f[x] \in Int /\ f[y] \in Int /\ x \in Int /\ y \in Int
      BY <1>3
    <3>2. ~(x < y) /\ ~(y < x)
      BY <1>3, <2>2, <3>1
    <3> QED BY <3>1, <3>2
  <2> QED BY <2>1, <2>2
<1> HIDE DEF f
<1>7. \A j \in Groups(t) : from(f[j]) = j
  <2> TAKE j \in Groups(t)
  <2>1. from(f[j]) \in Groups(t) /\ f[from(f[j])] = f[j]
    OBVIOUS
  <2> HIDE DEF from
  <2> QED BY <1>6, <2>1
<1>8. \A i \in Groups(s) : (\E j \in Groups(t) : f[j] = i) => from(i) \in Groups(t) /\ f[from(i)] = i
  OBVIOUS
<1> HIDE DEF from
<1>9. \A i \in Groups(t) : taken[i] = pick[f[i]]
  BY <1>2, <1>7
<1>10. pick[left] = k - 1
  BY <1>5
<1>11. \A i \in Groups(s) : Cardinality(Separators(s, i)) \in Nat
  <2>1. Len(s) \in Nat
    BY <1>4, LenProperties
  <2>2. \A i \in Groups(s) : Cardinality(Separators(s, i)) \in 0..Len(s)
    BY <1>4, GroupsAre, SeparatorsFew
  <2> QED BY <2>1, <2>2
<1>12. \A i \in Groups(s) : pick[i] \in Nat /\ pick[i] <= Cardinality(Separators(s, i))
  <2> TAKE i \in Groups(s)
  <2>1. CASE i = left
    BY <1>4, <1>5, <2>1
  <2>2. CASE i # left /\ \E j \in Groups(t) : f[j] = i
    <3>1. from(i) \in Groups(t) /\ f[from(i)] = i /\ pick[i] = taken[from(i)]
      BY <1>8, <2>2
    <3> QED BY <1>1, <1>2, <3>1
  <2>3. CASE i # left /\ ~\E j \in Groups(t) : f[j] = i
    BY <1>11, <2>3
  <2> QED BY <2>1, <2>2, <2>3
<1>13. pick \in Picks(s) /\ pick \in [Groups(s) -> Nat]
  <2>1. pick = [i \in Groups(s) |-> pick[i]]
    OBVIOUS
  <2> HIDE DEF pick
  <2> QED BY <1>12, <2>1 DEF Picks
<1> HIDE DEF pick
<1>14. /\ \A x \in 1..Len(t) : x \in Keep(t, taken) <=> f[x] \in Keep(s, pick)
       /\ \A y \in Keep(s, pick) : \E x \in 1..Len(t) : f[x] = y
  BY <1>1, <1>9, <1>10, <1>13, KeptShift DEF f
<1>15. Picked(s, Keep(s, pick)) = Picked(t, Keep(t, taken))
  <2>1. \A y \in 1..Len(s) : y \in Keep(s, pick) => \E x \in 1..Len(t) : f[x] = y
    BY <1>14
  <2>2. MovesTo(t, Keep(t, taken), s, Keep(s, pick), f)
    BY Zenon, <1>3, <1>14, <2>1 DEF MovesTo
  <2> QED BY <1>4, <2>2, PickedShift
<1> QED BY <1>13, <1>15

\* A pattern means what the patterns of its first group mean together.
LEMMA AlternativesUnfold ==
    ASSUME NEW D, NEW s \in Seq(D), Grouped(s), FirstGroup(s) # <<>>
    PROVE  /\ \A k \in 1..Len(FirstGroup(s)) : Grouped(FirstGroup(s)[k]) /\ FirstGroup(s)[k] \in Seq(D)
           /\ \A r : r \in Alternatives(s) <=> \E k \in 1..Len(FirstGroup(s)) : r \in Alternatives(FirstGroup(s)[k])
<1> DEFINE t(k) == FirstGroup(s)[k]
<1>1. PICK left, right, n, cut : IsGroup(s, left, right, n, cut)
  BY GroupedFirst
<1>2. FirstDepths(s, left, right, n, cut)
  BY <1>1, FirstDepthsIs
<1>3. n \in Nat /\ Len(FirstGroup(s)) = n + 1
  BY <1>1, <1>2 DEF IsGroup, FirstDepths
<1>4. ASSUME NEW k \in 1..(n + 1)
      PROVE  /\ Taken(D, t(k), s, left, right, n, cut, k, left - 1, Middle(cut, k), left + cut[k])
             /\ Grouped(t(k)) /\ t(k) \in Seq(D)
  <2>1. t(k) \in Seq(D) /\ Spliced(t(k), s, left, right, cut, k, left - 1, Middle(cut, k))
    BY <1>1, <1>2, SplicedIs
  <2> HIDE DEF t
  <2>2. Grouped(t(k))
    BY <1>2, <2>1, SplicedGrouped
  <2> QED BY <1>2, <2>1, <2>2 DEF Taken
<1> HIDE DEF t
<1>5. \A r : r \in Alternatives(s) <=> \E pick \in Picks(s) : r = Picked(s, Keep(s, pick))
  BY AlternativesAre
<1>6. \A k \in 1..(n + 1) : \A r : r \in Alternatives(t(k)) <=> \E pick \in Picks(t(k)) : r = Picked(t(k), Keep(t(k), pick))
  BY <1>4, AlternativesAre
<1>7. ASSUME NEW pick \in Picks(s)
      PROVE  \E k \in 1..(n + 1) : Picked(s, Keep(s, pick)) \in Alternatives(t(k))
  <2>1. left \in Groups(s) /\ Cardinality(Separators(s, left)) = n
    <3>1. Len(s) \in Nat
      BY LenProperties
    <3> QED BY <1>2, <3>1, FirstChosen
  <2>2. pick[left] \in Nat /\ pick[left] <= n
    BY <2>1 DEF Picks
  <2>3. PICK k \in 1..(n + 1) : pick[left] = k - 1
    <3> DEFINE w == pick[left]
    <3> HIDE DEF w
    <3>1. w + 1 \in 1..(n + 1) /\ w = (w + 1) - 1
      BY <1>3, <2>2 DEF w
    <3> QED BY <3>1 DEF w
  <2>4. Taken(D, t(k), s, left, right, n, cut, k, left - 1, Middle(cut, k), left + cut[k])
    BY <1>4
  <2>5. \E taken \in Picks(t(k)) : Picked(s, Keep(s, pick)) = Picked(t(k), Keep(t(k), taken))
    BY <2>3, <2>4, TakenPicks
  <2> QED BY <1>6, <2>5
<1>8. ASSUME NEW k \in 1..(n + 1), NEW taken \in Picks(t(k))
      PROVE  Picked(t(k), Keep(t(k), taken)) \in Alternatives(s)
  <2>1. Taken(D, t(k), s, left, right, n, cut, k, left - 1, Middle(cut, k), left + cut[k])
    BY <1>4
  <2>2. \E pick \in Picks(s) : Picked(s, Keep(s, pick)) = Picked(t(k), Keep(t(k), taken))
    BY <2>1, PicksTaken
  <2> QED BY <1>5, <2>2
<1>9. \A r : r \in Alternatives(s) <=> \E k \in 1..(n + 1) : r \in Alternatives(t(k))
  <2>1. ASSUME NEW r \in Alternatives(s) PROVE \E k \in 1..(n + 1) : r \in Alternatives(t(k))
    BY <1>5, <1>7
  <2>2. ASSUME NEW k \in 1..(n + 1), NEW r \in Alternatives(t(k)) PROVE r \in Alternatives(s)
    BY <1>6, <1>8
  <2> QED BY <2>1, <2>2
<1> QED BY Zenon, <1>3, <1>4, <1>9 DEF t

\* To pick every place is to pick the whole.
LEMMA PickedAll ==
    ASSUME NEW D, NEW s \in Seq(D), NEW A, 1..Len(s) \subseteq A
    PROVE  Picked(s, A) = s
<1> DEFINE L == Len(s)
           b == InTurn(L, A)
           q == Len(b)
           u == [i \in 1..L |-> i]
<1>1. L \in Nat /\ s = [i \in 1..L |-> s[i]]
  BY LenProperties
<1>2. /\ b \in Seq(1..L) /\ \A i, j \in 1..q : i < j => b[i] < b[j]
      /\ \A i \in 1..q : b[i] \in A /\ b[i] \in 1..L
      /\ \A o \in 1..L : o \in A => \E i \in 1..q : b[i] = o
  BY <1>1, InTurnIs
<1>3. q \in Nat
  <2> HIDE DEF b
  <2> QED BY <1>2, LenProperties
<1>4. Picked(s, A) = [k \in 1..q |-> s[b[k]]]
  BY DEF Picked
<1>5. \A o \in 1..L : o \in A
  OBVIOUS
<1> HIDE DEF b, q, L
<1>6. SameCells(q, b, L, u)
  <2>1. /\ \A i \in 1..q : b[i] \in Int
        /\ \A i \in 1..L : u[i] \in Int
        /\ \A i, j \in 1..L : i < j => u[i] < u[j]
        /\ \A i \in 1..q : \E j \in 1..L : u[j] = b[i]
        /\ \A j \in 1..L : \E i \in 1..q : b[i] = u[j]
    BY <1>1, <1>2, <1>5
  <2> HIDE DEF u
  <2> QED BY <1>1, <1>2, <1>3, <2>1 DEF SameCells
<1>7. q = L /\ \A i \in 1..q : b[i] = u[i]
  <2> HIDE DEF u
  <2> QED BY <1>6, OneOrder
<1>8. \A k \in 1..q : s[b[k]] = s[k]
  BY <1>7
<1> QED BY <1>1, <1>4, <1>7, <1>8

\* A pattern without a brace means itself.
LEMMA PlainIsItself ==
    ASSUME NEW D, NEW s \in Seq(D), Grouped(s), \A i \in 1..Len(s) : ~IsOpen(s[i])
    PROVE  \A r : r \in Alternatives(s) <=> r = s
<1> DEFINE L == Len(s)
           T == {i \in 0..L : Depth(s, i) = 0}
<1>1. L \in Nat
  BY LenProperties
<1>2. /\ Depth(s, 0) = 0
      /\ \A i \in 0..L : Depth(s, i) \in Int
      /\ \A i \in 1..L : Depth(s, i) = Depth(s, i - 1) + Turn(s[i])
  BY DepthIs
<1>3. \A i \in 1..L : Depth(s, i) >= 0 /\ Turn(s[i]) <= 0
  <2>1. \A i \in 1..L : Depth(s, i) >= 0
    BY Zenon DEF Grouped, L
  <2>2. \A i \in 1..L : Turn(s[i]) <= 0
    <3> TAKE i \in 1..L
    <3>1. Turn(s[i]) \in {-1, 0, 1} /\ ~(Turn(s[i]) > 0)
      BY TurnIs DEF L
    <3> QED BY <3>1
  <2> QED BY <2>1, <2>2
<1>4. \A i \in 0..L : i \in T
  <2>1. 0 \in T
    BY <1>1, <1>2
  <2>2. ASSUME NEW i \in 0..(L - 1), i \in T PROVE i + 1 \in T
    <3>1. i + 1 \in 1..L /\ (i + 1) - 1 = i /\ Depth(s, i) = 0
      BY <1>1, <2>2
    <3>2. Depth(s, i + 1) = 0 + Turn(s[i + 1]) /\ Depth(s, i + 1) >= 0 /\ Turn(s[i + 1]) <= 0
      BY <1>2, <1>3, <3>1
    <3>3. Turn(s[i + 1]) \in {-1, 0, 1}
      BY TurnIs
    <3> DEFINE u == Turn(s[i + 1])
               v == Depth(s, i + 1)
    <3> HIDE DEF u, v
    <3>4. v = 0
      <4>1. u \in {-1, 0, 1} /\ v = 0 + u /\ v >= 0 /\ u <= 0
        BY <3>2, <3>3 DEF u, v
      <4> QED BY <4>1
    <3> QED BY <1>1, <3>1, <3>4 DEF v
  <2> HIDE DEF T, L
  <2> QED BY <1>1, <2>1, <2>2, Upward
<1>5. \A i \in 1..L : ~IsClose(s[i])
  <2> TAKE i \in 1..L
  <2>1. i \in 0..L /\ i - 1 \in 0..L
    BY <1>1
  <2>2. Depth(s, i) = 0 /\ Depth(s, i - 1) = 0
    BY <1>4, <2>1
  <2>3. 0 = 0 + Turn(s[i]) /\ Turn(s[i]) \in {-1, 0, 1}
    BY <1>2, <2>2, TurnIs
  <2>4. IsClose(s[i]) => Turn(s[i]) = -1
    BY TurnIs
  <2> DEFINE u == Turn(s[i])
  <2> HIDE DEF u
  <2>5. ~(u = -1)
    BY <2>3 DEF u
  <2> QED BY <2>4, <2>5 DEF u
<1>6. Groups(s) = {}
  BY GroupsAre
<1>7. \A pick : 1..L \subseteq Keep(s, pick)
  BY <1>5, <1>6 DEF Keep, IsKept
<1>8. \A pick : Picked(s, Keep(s, pick)) = s
  BY <1>7, PickedAll
<1>9. Picks(s) # {}
  <2>1. [i \in {} |-> 0] \in [{} -> Nat]
    OBVIOUS
  <2>2. [i \in {} |-> 0] \in Picks(s)
    BY <1>6, <2>1 DEF Picks
  <2> QED BY <2>2
<1> QED BY <1>8, <1>9, AlternativesAre

\* The patterns an expansion lists, against what the pattern means.
Lists(all, s) ==
    /\ \A r \in ToSet(all) : r \in Alternatives(s)
    /\ Len(all) < MaxGlobExpansions => \A r \in Alternatives(s) : r \in ToSet(all)

LEMMA ExpansionLists ==
    ASSUME NEW e, NEW pattern, NEW D, pattern \in Seq(D), IsExpansion(e, pattern)
    PROVE  \A s \in Shorter(pattern) : Grouped(s) => Lists(e[s], s)
<1> DEFINE C == Characters(pattern)
           S == Shorter(pattern)
           B == Seq(Seq(C))
           U == {s \in S : Grouped(s) => Lists(e[s], s)}
           rank == [s \in S |-> Len(s)]
<1>1. e \in [S -> B] /\ \A s \in S : e[s] = Expanded(e, s)
  BY Zenon DEF IsExpansion
<1>2. Len(pattern) \in Nat
  BY LenProperties
<1>3. \A s : s \in S <=> s \in Seq(C) /\ Len(s) <= Len(pattern)
  BY Zenon DEF Shorter, Characters
<1> HIDE DEF C, S, B
<1>4. ASSUME NEW s \in S, \A t \in S : rank[t] < rank[s] => t \in U, Grouped(s) PROVE Lists(e[s], s)
  <2> DEFINE G == FirstGroup(s)
  <2>1. s \in Seq(C) /\ Len(s) \in Nat /\ Len(s) <= Len(pattern)
    BY <1>3, LenProperties
  <2>2. e[s] = IF G = <<>> THEN <<s>> ELSE Capped(FlattenSeq([k \in 1..Len(G) |-> e[G[k]]]))
    BY Zenon, <1>1 DEF Expanded
  <2>3. CASE G = <<>>
    <3>1. \A i \in 1..Len(s) : ~IsOpen(s[i])
      BY <1>4, <2>1, <2>3, GroupedFirst
    <3>2. \A r : r \in Alternatives(s) <=> r = s
      BY <1>4, <2>1, <3>1, PlainIsItself
    <3>3. e[s] = <<s>>
      BY <2>2, <2>3
    <3>4. \A r : r \in ToSet(<<s>>) <=> r = s
      BY DEF ToSet
    <3> QED BY Zenon, <3>2, <3>3, <3>4 DEF Lists
  <2>4. CASE G # <<>>
    <3> DEFINE m == Len(G)
               parts == [k \in 1..m |-> e[G[k]]]
               whole == FlattenSeq(parts)
    <3>1. /\ \A k \in 1..m : Grouped(G[k]) /\ G[k] \in Seq(C)
          /\ \A r : r \in Alternatives(s) <=> \E k \in 1..m : r \in Alternatives(G[k])
      BY <1>4, <2>1, <2>4, AlternativesUnfold
    <3>2. m \in Nat /\ \A k \in 1..m : Len(G[k]) < Len(s)
      <4>1. G \in Seq({t \in Seq(C) : Len(t) < Len(s)})
        BY <2>1, GroupsShrink
      <4> HIDE DEF G
      <4> QED BY <4>1, LenProperties
    <3>3. e[s] = Capped(whole)
      BY <2>2, <2>4
    <3> HIDE DEF G, m
    <3>4. \A k \in 1..m : G[k] \in S /\ Lists(e[G[k]], G[k])
      <4> TAKE k \in 1..m
      <4>1. G[k] \in Seq(C) /\ Grouped(G[k]) /\ Len(G[k]) \in Nat /\ Len(G[k]) < Len(s)
        BY <3>1, <3>2, LenProperties
      <4>2. Len(G[k]) <= Len(pattern)
        BY <1>2, <2>1, <4>1
      <4>3. G[k] \in S
        BY <1>3, <4>1, <4>2
      <4>4. rank[G[k]] < rank[s]
        BY <4>1, <4>3
      <4> HIDE DEF rank
      <4> QED BY <1>4, <4>1, <4>3, <4>4
    <3>5. parts \in [1..m -> B]
      BY <1>1, <3>4
    <3>6. \A k \in 1..m : parts[k] = e[G[k]]
      OBVIOUS
    <3> HIDE DEF parts
    <3>7. /\ whole \in B
          /\ \A k \in 1..m : Len(parts[k]) <= Len(whole)
          /\ ToSet(whole) = UNION {ToSet(parts[k]) : k \in 1..m}
      BY <3>2, <3>5, FlattenSeqIs DEF B
    <3> HIDE DEF whole
    <3>8. /\ Len(Capped(whole)) <= Len(whole) /\ ToSet(Capped(whole)) \subseteq ToSet(whole)
          /\ Len(Capped(whole)) < MaxGlobExpansions => Capped(whole) = whole
      BY <3>7, CappedIs DEF B
    <3>9. \A r : r \in ToSet(whole) <=> \E k \in 1..m : r \in ToSet(parts[k])
      BY <3>7
    <3>10. \A r \in ToSet(Capped(whole)) : r \in Alternatives(s)
      <4> TAKE r \in ToSet(Capped(whole))
      <4>1. PICK k \in 1..m : r \in ToSet(parts[k])
        BY <3>8, <3>9
      <4>2. r \in Alternatives(G[k])
        BY <3>4, <3>6, <4>1 DEF Lists
      <4> QED BY <3>1, <4>2
    <3>11. ASSUME Len(Capped(whole)) < MaxGlobExpansions, NEW r \in Alternatives(s) PROVE r \in ToSet(Capped(whole))
      <4>1. Capped(whole) = whole /\ Len(whole) < MaxGlobExpansions
        BY <3>8, <3>11
      <4>2. PICK k \in 1..m : r \in Alternatives(G[k])
        BY <3>1
      <4>3. Len(parts[k]) < MaxGlobExpansions
        <5>1. Len(parts[k]) <= Len(whole) /\ Len(whole) \in Nat /\ Len(parts[k]) \in Nat
          BY <3>5, <3>7, LenProperties DEF B
        <5> QED BY <4>1, <5>1, GlobAssumption
      <4>4. r \in ToSet(parts[k])
        BY <3>4, <3>6, <4>2, <4>3 DEF Lists
      <4> QED BY <3>9, <4>1, <4>4
    <3> QED BY <3>3, <3>10, <3>11 DEF Lists
  <2> QED BY <2>3, <2>4
<1>5. S \subseteq U
  <2>1. rank \in [S -> Nat]
    <3>1. \A s \in S : Len(s) \in Nat
      BY <1>3, LenProperties
    <3> QED BY <3>1
  <2>2. \A s \in S : (\A t \in S : rank[t] < rank[s] => t \in U) => s \in U
    BY <1>4
  <2> HIDE DEF U, rank
  <2> QED BY <2>1, <2>2, RankedInduction
<1> QED BY <1>5 DEF S

\* Of a nested brace set every alternative is listed, and no other, up to the cap.
LEMMA BracesAreListed ==
    ASSUME NEW D, NEW q \in Seq(D), Grouped(q)
    PROVE  /\ ToSet(ExpandBraces(q)) \subseteq Alternatives(q)
           /\ Len(ExpandBraces(q)) < MaxGlobExpansions => ToSet(ExpandBraces(q)) = Alternatives(q)
<1>1. PICK e : IsExpansion(e, q) /\ ExpandBraces(q) = e[q]
  BY ExpandBracesIs
<1>2. q \in Shorter(q)
  <2>1. q \in [1..Len(q) -> Characters(q)] /\ Len(q) \in Nat
    BY LenProperties DEF Characters
  <2>2. q \in Seq(Characters(q)) /\ Len(q) <= Len(q)
    BY <2>1
  <2> QED BY Zenon, <2>2 DEF Shorter, Characters
<1>3. Lists(ExpandBraces(q), q)
  BY <1>1, <1>2, ExpansionLists
<1> QED BY <1>3 DEF Lists

\* The matcher every search uses answers as the one that splits pattern and path, and a brace
\* set is expanded to what it means (scanner.go:336-559), for every pattern and every path.
THEOREM GlobsAlwaysAgree == TextSpec => []GlobsAgree
<1>1. TextInv => GlobsAgree
  <2> SUFFICES ASSUME TextInv, tool = "glob" PROVE GlobsAgree
    BY DEF GlobsAgree
  <2>1. text \in Seq(Letters("glob"))
    <3>1. "glob" \in DOMAIN Pieces
      BY DEF TextInv
    <3> QED BY <3>1 DEF TextInv
  <2>2. \E C : query \in Seq(C)
    <3>1. CASE "glob" \in DOMAIN Asked
      <4>1. query \in Asked["glob"]
        BY <3>1 DEF TextInv
      <4>2. query \in Seq({query[k] : k \in DOMAIN query})
        BY <3>1, <4>1, TextAssumption
      <4> QED BY <4>2
    <3>2. CASE "glob" \notin DOMAIN Asked
      <4>1. query = <<>>
        BY <3>2 DEF TextInv
      <4>2. query \in Seq({})
        BY <4>1
      <4> QED BY <4>2
    <3> QED BY <3>1, <3>2
  <2>3. PICK C : query \in Seq(C)
    BY <2>2
  <2>4. Named(query) /\ Relative(text) => Match(CompileGlob(query), text) = MatchGlob(query, text)
    BY <2>1, <2>3, MatchersAgree
  <2>5. Grouped(query) =>
           /\ ToSet(ExpandBraces(query)) \subseteq Alternatives(query)
           /\ Len(ExpandBraces(query)) < MaxGlobExpansions => ToSet(ExpandBraces(query)) = Alternatives(query)
    BY <2>3, BracesAreListed
  <2> QED BY Zenon, <2>4, <2>5 DEF GlobsAgree
<1> QED BY <1>1, TextHolds, PTL

-----------------------------------------------------------------------------
(* The pages of grep_func *)

LEMMA MinOfTwo ==
    ASSUME NEW a \in Int, NEW b \in Int
    PROVE  Min({a, b}) = IF a <= b THEN a ELSE b
<1> DEFINE S == {a, b}
           m == IF a <= b THEN a ELSE b
<1>1. S \in SUBSET Int /\ m \in S /\ \A k \in S : m <= k
  OBVIOUS
<1> HIDE DEF S, m
<1>2. Min(S) = m
  BY <1>1, MinIs
<1> QED BY <1>2 DEF S, m

\* The first k of a sequence.
Lead(s, k) == SubSeq(s, 1, k)

LEMMA LeadIs ==
    ASSUME NEW D, NEW s \in Seq(D), NEW k \in 0..Len(s)
    PROVE  Lead(s, k) \in Seq(D) /\ Len(Lead(s, k)) = k /\ \A i \in 1..k : Lead(s, k)[i] = s[i]
<1> DEFINE L == Len(s)
<1>1. L \in Nat
  BY LenProperties
<1>2. 1 \in 1..(L + 1) /\ k \in (1 - 1)..L /\ (k - 1) + 1 = k /\ \A i : (1 - 1) + i = 0 + i
  BY <1>1 DEF L
<1>3. /\ SubSeq(s, 1, k) \in Seq(D) /\ Len(SubSeq(s, 1, k)) = (k - 1) + 1
      /\ \A i \in 1..((k - 1) + 1) : SubSeq(s, 1, k)[i] = s[(1 - 1) + i]
  BY <1>2, SubSeqIs DEF L
<1>4. \A i \in 1..k : (1 - 1) + i = i
  OBVIOUS
<1> HIDE DEF L
<1> QED BY <1>2, <1>3, <1>4 DEF Lead

\* Of the places of a set as many are before the j-th as j tells.
LEMMA InTurnSizes ==
    ASSUME NEW n \in Nat, NEW S \in SUBSET (1..n)
    PROVE  /\ Len(InTurn(n, S)) = Cardinality(S) /\ IsFiniteSet(S)
           /\ \A j \in 1..Len(InTurn(n, S)) : Cardinality({x \in S : x < InTurn(n, S)[j]}) = j - 1
<1> DEFINE b == InTurn(n, S)
           q == Len(b)
<1>1. /\ b \in Seq(1..n) /\ \A i, j \in 1..q : i < j => b[i] < b[j]
      /\ \A i \in 1..q : b[i] \in S /\ b[i] \in 1..n
      /\ \A o \in 1..n : o \in S => \E i \in 1..q : b[i] = o
  BY InTurnIs
<1>2. q \in Nat
  <2> HIDE DEF b
  <2> QED BY <1>1, LenProperties
<1> HIDE DEF b, q
<1>3. \A i, j \in 1..q : b[i] < b[j] => i < j
  <2> TAKE i, j \in 1..q
  <2>1. b[i] \in Int /\ b[j] \in Int /\ i \in Int /\ j \in Int
    BY <1>1
  <2>2. j < i => b[j] < b[i]
    BY <1>1
  <2>3. i = j => b[i] = b[j]
    OBVIOUS
  <2> DEFINE u == b[i]
             v == b[j]
  <2> HIDE DEF u, v
  <2>4. u < v => i < j
    BY <2>1, <2>2, <2>3 DEF u, v
  <2> QED BY <2>4 DEF u, v
<1>4. ASSUME NEW k \in 0..q, NEW A, \A x : x \in A <=> \E i \in 1..k : x = b[i]
      PROVE  Cardinality(A) = k /\ IsFiniteSet(A)
  <2> DEFINE g == [i \in 1..k |-> b[i]]
  <2>1. IsFiniteSet(1..k) /\ Cardinality(1..k) = k
    <3>1. 1 \in Int /\ k \in Int
      BY <1>2
    <3>2. IsFiniteSet(1..k) /\ Cardinality(1..k) = IF 1 > k THEN 0 ELSE (k - 1) + 1
      BY <3>1, FS_Interval
    <3>3. (1 > k => k = 0) /\ (k - 1) + 1 = k
      BY <1>2
    <3> QED BY <3>2, <3>3
  <2>2. g \in [1..k -> A]
    BY <1>4
  <2>3. \A i, j \in 1..k : g[i] = g[j] => i = j
    <3> TAKE i, j \in 1..k
    <3>1. i \in 1..q /\ j \in 1..q /\ i \in Int /\ j \in Int
      BY <1>2
    <3>2. b[i] \in Int /\ b[j] \in Int
      BY <1>1, <3>1
    <3>3. (i < j => b[i] < b[j]) /\ (j < i => b[j] < b[i])
      BY <1>1, <3>1
    <3> QED BY <3>1, <3>2, <3>3
  <2>4. \A x \in A : \E i \in 1..k : g[i] = x
    BY <1>4
  <2> HIDE DEF g
  <2>5. ExistsBijection(1..k, A)
    <3>1. g \in Bijection(1..k, A)
      BY <2>2, <2>3, <2>4 DEF Bijection, Injection, Surjection, IsInjective
    <3> QED BY <3>1 DEF ExistsBijection
  <2> QED BY <2>1, <2>5, FS_Bijection
<1>5. \A x : x \in S <=> \E i \in 1..q : x = b[i]
  BY <1>1
<1>6. Cardinality(S) = q /\ IsFiniteSet(S)
  <2>1. q \in 0..q
    BY <1>2
  <2> QED BY <1>4, <1>5, <2>1
<1>7. ASSUME NEW j \in 1..q PROVE Cardinality({x \in S : x < b[j]}) = j - 1
  <2> DEFINE A == {x \in S : x < b[j]}
  <2>1. j - 1 \in 0..q /\ \A i : i \in 1..(j - 1) <=> i \in 1..q /\ i < j
    BY <1>2
  <2>2. \A x : x \in A <=> \E i \in 1..q : x = b[i] /\ b[i] < b[j]
    BY <1>5
  <2>3. \A i \in 1..q : b[i] < b[j] <=> i < j
    BY <1>1, <1>3
  <2> HIDE DEF A
  <2>4. \A x : x \in A <=> \E i \in 1..(j - 1) : x = b[i]
    BY <2>1, <2>2, <2>3
  <2>5. Cardinality(A) = j - 1
    BY <1>4, <2>1, <2>4
  <2> QED BY <2>5 DEF A
<1> QED BY <1>6, <1>7 DEF b, q

\* The first w places of a set are the first w of its sequence.
LEMMA LeadInTurn ==
    ASSUME NEW n \in Nat, NEW S \in SUBSET (1..n), NEW w \in Nat
    PROVE  LET N == Len(InTurn(n, S)) IN
           InTurn(n, {i \in S : Cardinality({j \in S : j < i}) < w})
              = Lead(InTurn(n, S), IF w <= N THEN w ELSE N)
<1> DEFINE b == InTurn(n, S)
           q == Len(b)
           m == IF w <= q THEN w ELSE q
           P == {i \in S : Cardinality({j \in S : j < i}) < w}
           a == InTurn(n, P)
           p == Len(a)
           v == Lead(b, m)
<1>1. /\ b \in Seq(1..n) /\ \A i, j \in 1..q : i < j => b[i] < b[j]
      /\ \A i \in 1..q : b[i] \in S /\ b[i] \in 1..n
      /\ \A o \in 1..n : o \in S => \E i \in 1..q : b[i] = o
  BY InTurnIs
<1>2. \A j \in 1..q : Cardinality({x \in S : x < b[j]}) = j - 1
  BY InTurnSizes
<1>3. /\ a \in Seq(1..n) /\ \A i, j \in 1..p : i < j => a[i] < a[j]
      /\ \A i \in 1..p : a[i] \in P /\ a[i] \in 1..n
      /\ \A o \in 1..n : o \in P => \E i \in 1..p : a[i] = o
  <2> HIDE DEF P
  <2> QED BY InTurnIs
<1>4. \A x : x \in P <=> x \in S /\ Cardinality({j \in S : j < x}) < w
  OBVIOUS
<1> HIDE DEF P
<1>5. p \in Nat /\ q \in Nat
  <2> HIDE DEF a, b
  <2> QED BY <1>1, <1>3, LenProperties
<1> HIDE DEF a, b, p
<1>6. m \in 0..q /\ m \in Nat /\ m <= w /\ \A j \in 1..q : j - 1 < w <=> j <= m
  <2> HIDE DEF q
  <2> QED BY <1>5
<1> HIDE DEF m
<1>7. v \in Seq(1..n) /\ Len(v) = m /\ \A i \in 1..m : v[i] = b[i]
  BY <1>1, <1>6, LeadIs DEF q
<1> HIDE DEF v, q
<1>8. \A i \in 1..m : i \in 1..q
  BY <1>5, <1>6
<1>9. \A j \in 1..q : b[j] \in P <=> j <= m
  <2> TAKE j \in 1..q
  <2>1. b[j] \in S /\ Cardinality({x \in S : x < b[j]}) = j - 1
    BY <1>1, <1>2
  <2> QED BY <1>4, <1>6, <2>1
<1>10. \A i \in 1..p : \E j \in 1..m : v[j] = a[i]
  <2> TAKE i \in 1..p
  <2>1. a[i] \in P /\ a[i] \in S /\ a[i] \in 1..n
    BY <1>3, <1>4
  <2>2. PICK j \in 1..q : b[j] = a[i]
    BY <1>1, <2>1
  <2>3. j \in 1..m
    BY <1>5, <1>6, <1>9, <2>1, <2>2
  <2> QED BY <1>7, <2>2, <2>3
<1>11. \A j \in 1..m : \E i \in 1..p : a[i] = v[j]
  <2> TAKE j \in 1..m
  <2>1. v[j] = b[j] /\ j \in 1..q /\ j <= m
    BY <1>6, <1>7, <1>8
  <2>2. b[j] \in P /\ b[j] \in 1..n
    BY <1>1, <1>9, <2>1
  <2> QED BY <1>3, <2>1, <2>2
<1>12. SameCells(p, a, m, v)
  <2>1. \A i \in 1..p : a[i] \in Int
    BY <1>3
  <2>2. \A i \in 1..m : v[i] \in Int
    BY <1>1, <1>7, <1>8
  <2>3. \A i, j \in 1..m : i < j => v[i] < v[j]
    BY <1>1, <1>7, <1>8
  <2>4. \A i, j \in 1..p : i < j => a[i] < a[j]
    BY <1>3
  <2> QED BY Zenon, <1>5, <1>6, <1>10, <1>11, <2>1, <2>2, <2>3, <2>4 DEF SameCells
<1>13. p = m /\ \A i \in 1..p : a[i] = v[i]
  BY <1>12, OneOrder
<1>14. a = v
  <2>1. a \in Seq(1..n) /\ v \in Seq(1..n) /\ Len(a) = Len(v) /\ \A i \in 1..Len(a) : a[i] = v[i]
    BY <1>3, <1>7, <1>13 DEF p
  <2> QED BY <2>1
<1> QED BY <1>14 DEF a, b, m, v, q, P

LEMMA LeadGrows ==
    ASSUME NEW D, NEW s \in Seq(D), NEW a \in Nat, NEW b \in Nat, a <= b, b <= Len(s)
    PROVE  SubSeq(s, a + 1, b) \in Seq(D) /\ Lead(s, a) \o SubSeq(s, a + 1, b) = Lead(s, b)
<1> DEFINE L == Len(s)
           x == Lead(s, a)
           y == SubSeq(s, a + 1, b)
           z == Lead(s, b)
           o == b - a
<1>1. L \in Nat /\ b <= L
  BY LenProperties
<1>2. x \in Seq(D) /\ Len(x) = a /\ \A i \in 1..a : x[i] = s[i]
  <2>1. a \in 0..Len(s)
    BY <1>1
  <2> QED BY <2>1, LeadIs
<1>3. z \in Seq(D) /\ Len(z) = b /\ \A i \in 1..b : z[i] = s[i]
  <2>1. b \in 0..Len(s)
    BY <1>1
  <2> QED BY <2>1, LeadIs
<1> HIDE DEF L
<1>4. a + 1 \in 1..(L + 1) /\ b \in ((a + 1) - 1)..L /\ (b - (a + 1)) + 1 = o /\ (a + 1) - 1 = a /\ o \in Nat
  BY <1>1
<1>5. y \in Seq(D) /\ Len(y) = o /\ \A i \in 1..o : y[i] = s[a + i]
  <2>1. /\ y \in Seq(D) /\ Len(y) = (b - (a + 1)) + 1
        /\ \A i \in 1..((b - (a + 1)) + 1) : y[i] = s[((a + 1) - 1) + i]
    BY <1>4, SubSeqIs DEF L
  <2> HIDE DEF y, o
  <2> QED BY Zenon, <1>4, <2>1
<1> HIDE DEF x, y, z
<1>6. /\ x \o y \in Seq(D) /\ Len(x \o y) = a + o
      /\ \A i \in 1..(a + o) : (x \o y)[i] = IF i <= a THEN x[i] ELSE y[i - a]
  <2>1. /\ x \o y \in Seq(D) /\ Len(x \o y) = Len(x) + Len(y)
        /\ \A i \in 1..(Len(x) + Len(y)) : (x \o y)[i] = IF i <= Len(x) THEN x[i] ELSE y[i - Len(x)]
    BY <1>2, <1>5, ConcatProperties
  <2> HIDE DEF o
  <2> QED BY <1>2, <1>5, <2>1
<1>7. a + o = b
  OBVIOUS
<1>8. \A i \in 1..b : (x \o y)[i] = z[i]
  <2> TAKE i \in 1..b
  <2>1. CASE i <= a
    <3>1. i \in 1..a
      BY <2>1
    <3> QED BY <1>2, <1>3, <1>6, <1>7, <2>1, <3>1
  <2>2. CASE ~(i <= a)
    <3>1. i - a \in 1..o /\ a + (i - a) = i
      BY <2>2
    <3> HIDE DEF o
    <3> QED BY <1>3, <1>5, <1>6, <1>7, <2>2, <3>1
  <2> QED BY <2>1, <2>2
<1> HIDE DEF o
<1>9. x \o y = z
  <2>1. x \o y \in Seq(D) /\ Len(x \o y) = b
    BY <1>6, <1>7
  <2> DEFINE c == x \o y
  <2>2. c \in Seq(D) /\ Len(c) = Len(z) /\ z \in Seq(D) /\ \A i \in 1..Len(c) : c[i] = z[i]
    BY <1>3, <1>8, <2>1
  <2> HIDE DEF c
  <2>3. c = z
    BY <2>2
  <2> QED BY <2>3 DEF c
<1> QED BY <1>5, <1>9 DEF x, y, z

\* A sequence cut at ascending places, piece behind piece.
Tiles(w, at, m) == [k \in 1..m |-> SubSeq(w, at[k - 1] + 1, at[k])]

LEMMA TilesAreLead ==
    ASSUME NEW D, NEW w \in Seq(D), NEW m \in Nat, NEW at \in [0..m -> 0..Len(w)], at[0] = 0,
           \A j \in 1..m : at[j - 1] <= at[j]
    PROVE  FlattenSeq(Tiles(w, at, m)) = Lead(w, at[m])
<1> DEFINE ss == Tiles(w, at, m)
           L == Len(w)
<1>1. L \in Nat
  BY LenProperties
<1>2. ASSUME NEW j \in 1..m
      PROVE  /\ j - 1 \in 0..m /\ j \in 0..m /\ ss[j] = SubSeq(w, at[j - 1] + 1, at[j]) /\ ss[j] \in Seq(D)
             /\ Lead(w, at[j - 1]) \o ss[j] = Lead(w, at[j])
  <2>1. j - 1 \in 0..m /\ j \in 0..m
    OBVIOUS
  <2> DEFINE a == at[j - 1]
             b == at[j]
  <2>2. a \in Nat /\ b \in Nat /\ a <= b /\ b <= Len(w)
    <3>1. a \in 0..L /\ b \in 0..L
      BY <2>1
    <3> QED BY <1>1, <3>1
  <2>3. ss[j] = SubSeq(w, a + 1, b)
    BY DEF Tiles
  <2> HIDE DEF a, b, ss
  <2>4. SubSeq(w, a + 1, b) \in Seq(D) /\ Lead(w, a) \o SubSeq(w, a + 1, b) = Lead(w, b)
    BY <2>2, LeadGrows
  <2>5. ss[j] \in Seq(D) /\ Lead(w, a) \o ss[j] = Lead(w, b)
    BY Zenon, <2>3, <2>4
  <2> QED BY Zenon, <2>1, <2>3, <2>5 DEF a, b
<1>3. ss \in [1..m -> Seq(D)]
  <2>1. ss = [j \in 1..m |-> ss[j]]
    BY DEF Tiles
  <2> HIDE DEF ss
  <2> QED BY <1>2, <2>1
<1> HIDE DEF ss
<1>4. PICK g : IsFlattening(g, D, ss, m)
  BY <1>3, FlattenGrows
<1>7. g \in [0..m -> Seq(D)] /\ g[0] = <<>> /\ FlattenSeq(ss) = g[m] /\ \A j \in 1..m : g[j] = g[j - 1] \o ss[j]
  BY <1>4 DEF IsFlattening
<1> DEFINE T == {k \in 0..m : g[k] = Lead(w, at[k])}
<1>5. \A k \in 0..m : k \in T
  <2>1. 0 \in T
    <3>1. Lead(w, 0) = <<>>
      BY SubSeqEmpty DEF Lead
    <3> QED BY <1>7, <3>1
  <2>2. ASSUME NEW k \in 0..(m - 1), k \in T PROVE k + 1 \in T
    <3>1. k + 1 \in 1..m /\ (k + 1) - 1 = k /\ k + 1 \in 0..m
      OBVIOUS
    <3>2. g[k + 1] = g[k] \o ss[k + 1] /\ Lead(w, at[k]) \o ss[k + 1] = Lead(w, at[k + 1])
      BY <1>2, <1>7, <3>1
    <3> QED BY <2>2, <3>1, <3>2
  <2> HIDE DEF T
  <2> QED BY <2>1, <2>2, Upward
<1>6. m \in T
  BY <1>5
<1> QED BY <1>6, <1>7 DEF ss

\* A sequence whose every member is in the set.
LEMMA ThoseAll ==
    ASSUME NEW D, NEW s \in Seq(D), NEW S, \A i \in 1..Len(s) : s[i] \in S
    PROVE  Those(s, S) = s
<1> DEFINE n == Len(s)
           t == Those(s, S)
           p == Len(t)
           u == [i \in 1..n |-> i]
<1>1. n \in Nat /\ t \in Seq(D) /\ p \in Nat
  <2>1. t \in Seq(D)
    BY ThoseTyped
  <2> HIDE DEF t
  <2> QED BY <2>1, LenProperties
<1>2. PICK place :
         /\ place \in [1..p -> (0 + 1)..n]
         /\ \A i, j \in 1..p : i < j => place[i] < place[j]
         /\ \A i \in 1..p : t[i] = s[place[i]] /\ t[i] \in S
         /\ \A o \in (0 + 1)..n : s[o] \in S => \E i \in 1..p : place[i] = o
  <2>1. Places(s, t, S, 0, n)
    BY ThosePlaces
  <2> HIDE DEF t, n
  <2> QED BY <2>1 DEF Places
<1>3. \A i \in 1..n : s[i] \in S
  OBVIOUS
<1> HIDE DEF t, n, p
<1>4. \A i \in 1..p : place[i] \in 1..n /\ place[i] \in Int
  <2>1. \A o \in (0 + 1)..n : o \in 1..n /\ o \in Int
    BY <1>1
  <2>2. \A i \in 1..p : place[i] \in (0 + 1)..n
    BY <1>2
  <2> QED BY <2>1, <2>2
<1>5. \A o \in 1..n : \E i \in 1..p : place[i] = o
  <2>1. 0 + 1 = 1
    OBVIOUS
  <2> QED BY <1>2, <1>3, <2>1
<1>6. SameCells(p, place, n, u)
  <2>1. /\ \A i \in 1..n : u[i] \in Int
        /\ \A i, j \in 1..n : i < j => u[i] < u[j]
        /\ \A i \in 1..p : \E j \in 1..n : u[j] = place[i]
        /\ \A j \in 1..n : \E i \in 1..p : place[i] = u[j]
    BY <1>1, <1>4, <1>5
  <2>2. \A i \in 1..p : place[i] \in Int
    BY <1>4
  <2>3. \A i, j \in 1..p : i < j => place[i] < place[j]
    BY <1>2
  <2> HIDE DEF u
  <2> QED BY Zenon, <1>1, <2>1, <2>2, <2>3 DEF SameCells
<1> HIDE DEF u
<1>7. p = n /\ \A i \in 1..p : place[i] = u[i]
  BY <1>6, OneOrder
<1>8. \A i \in 1..p : t[i] = s[i]
  BY <1>2, <1>7 DEF u
<1>9. t = s
  BY <1>1, <1>7, <1>8 DEF n, p
<1> QED BY <1>9 DEF t

LEMMA InTurnNone ==
    ASSUME NEW n \in Nat
    PROVE  InTurn(n, {}) = <<>>
<1> DEFINE s == [i \in 1..n |-> i]
<1>1. s \in Seq(1..n)
  OBVIOUS
<1> HIDE DEF s
<1>2. Those(s, {}) = <<>>
  BY <1>1, ThoseNone
<1> QED BY <1>2 DEF InTurn, s

\* How much a call fetches, and how much of it is a page.
LEMMA CallIs ==
    ASSUME NEW arg \in Calls
    PROVE  /\ MaxResults(arg) \in Nat \ {0} /\ MaxResults(arg) <= FetchCap
           /\ FetchMax(arg) \in Nat \ {0} /\ Wanted(arg) \in Nat /\ FetchMax(arg) <= Wanted(arg)
           /\ FetchMax(arg) = Min({arg.offset + MaxResults(arg), FetchCap})
           /\ ~arg.types => Wanted(arg) = FetchMax(arg)
<1> DEFINE max == MaxResults(arg)
           fetch == FetchMax(arg)
<1>1. /\ MaxResultsCap \in Nat \ {0} /\ DefaultMax \in Nat \ {0} /\ SearchBothFactor \in Nat \ {0}
      /\ FetchCap \in Nat /\ MaxResultsCap <= FetchCap /\ DefaultMax <= FetchCap
  BY PagesAssumption
<1>2. arg.max \in Int /\ arg.offset \in Nat /\ arg.types \in BOOLEAN
  BY DEF Calls
<1>3. max \in Nat \ {0} /\ max <= FetchCap
  <2>1. Min({arg.max, MaxResultsCap}) = IF arg.max <= MaxResultsCap THEN arg.max ELSE MaxResultsCap
    BY <1>1, <1>2, MinOfTwo
  <2> QED BY <1>1, <1>2, <2>1 DEF MaxResults
<1>4. fetch = IF arg.offset > 0 THEN Min({arg.offset + max, FetchCap}) ELSE max
  BY DEF FetchMax
<1> HIDE DEF max, fetch
<1>5. Min({arg.offset + max, FetchCap}) = IF arg.offset + max <= FetchCap THEN arg.offset + max ELSE FetchCap
  BY <1>1, <1>2, <1>3, MinOfTwo
<1>6. fetch = Min({arg.offset + max, FetchCap}) /\ fetch \in Nat \ {0}
  BY <1>1, <1>2, <1>3, <1>4, <1>5
<1>7. Wanted(arg) = IF arg.types THEN fetch * SearchBothFactor ELSE fetch
  BY DEF Wanted, fetch
<1>8. fetch * SearchBothFactor \in Nat /\ fetch <= fetch * SearchBothFactor
  <2> DEFINE f == SearchBothFactor - 1
  <2>1. f \in Nat /\ SearchBothFactor = f + 1
    BY <1>1
  <2> HIDE DEF f
  <2>2. fetch * f \in Nat /\ fetch * (f + 1) = fetch * f + fetch
    BY <1>6, <2>1
  <2>3. fetch * SearchBothFactor = fetch * f + fetch
    BY <2>1, <2>2
  <2> DEFINE z == fetch * f
             y == fetch * SearchBothFactor
  <2> HIDE DEF z, y
  <2>4. z \in Nat /\ y = z + fetch
    BY <2>2, <2>3 DEF z, y
  <2>5. y \in Nat /\ fetch <= y
    BY <1>6, <2>4
  <2> QED BY <2>5 DEF y
<1>9. Wanted(arg) \in Nat /\ fetch <= Wanted(arg) /\ (~arg.types => Wanted(arg) = fetch)
  <2> DEFINE y == fetch * SearchBothFactor
  <2> HIDE DEF y
  <2> QED BY <1>2, <1>6, <1>7, <1>8 DEF y
<1> QED BY <1>3, <1>6, <1>9 DEF max, fetch

\* The matches of a tree, functions and types.
OfKind(tree, places, kind) == {i \in places : tree[i].kind = kind}
IsTree(tree, n) ==
    /\ n \in Nat /\ DOMAIN tree = 1..n /\ Len(tree) = n
    /\ \A i \in 1..n : tree[i].kind \in {"func", "type"} /\ tree[i].before \in Nat

LEMMA SetKindsIs ==
    ASSUME NEW tree, NEW n, IsTree(tree, n), NEW places \in SUBSET (1..n)
    PROVE  /\ SetKinds(tree, places) = InTurn(n, OfKind(tree, places, "func")) \o InTurn(n, OfKind(tree, places, "type"))
           /\ SetKinds(tree, places) \in Seq(1..n)
           /\ Len(SetKinds(tree, places)) = Cardinality(places) /\ IsFiniteSet(places)
<1> DEFINE F == OfKind(tree, places, "func")
           G == OfKind(tree, places, "type")
           a == InTurn(n, F)
           b == InTurn(n, G)
<1>1. n \in Nat /\ Len(tree) = n /\ \A i \in 1..n : tree[i].kind \in {"func", "type"}
  BY DEF IsTree
<1>2. F \in SUBSET (1..n) /\ G \in SUBSET (1..n) /\ F \cap G = {} /\ F \cup G = places
  BY <1>1 DEF OfKind
<1>3. SetKinds(tree, places) = a \o b
  BY <1>1 DEF SetKinds, OfKind
<1> HIDE DEF F, G
<1>4. a \in Seq(1..n) /\ Len(a) = Cardinality(F) /\ IsFiniteSet(F)
  BY <1>1, <1>2, InTurnIs, InTurnSizes
<1>5. b \in Seq(1..n) /\ Len(b) = Cardinality(G) /\ IsFiniteSet(G)
  BY <1>1, <1>2, InTurnIs, InTurnSizes
<1> HIDE DEF a, b
<1>6. a \o b \in Seq(1..n) /\ Len(a \o b) = Len(a) + Len(b)
  BY <1>4, <1>5, ConcatProperties
<1>7. Cardinality(places) = Cardinality(F) + Cardinality(G) /\ IsFiniteSet(places)
  BY <1>2, <1>4, <1>5, TogetherAtMost
<1> QED BY <1>3, <1>4, <1>5, <1>6, <1>7 DEF a, b, F, G

LEMMA UnfilteredIs ==
    ASSUME NEW tree, NEW n, IsTree(tree, n), NEW all \in Seq(1..n), NEW arg, Unfiltered(arg)
    PROVE  Filtered(tree, all, arg) = all
<1> DEFINE S == {i \in DOMAIN tree : Passes(tree[i], arg)}
<1>1. \A i \in 1..n : i \in S
  BY DEF Passes, Unfiltered, IsTree
<1>2. \A k \in 1..Len(all) : all[k] \in 1..n
  BY ElementOfSeq
<1> HIDE DEF S
<1>3. Those(all, S) = all
  BY <1>1, <1>2, ThoseAll
<1> QED BY <1>3 DEF Filtered, S

\* The page of what a search collected, as the call says it.
LEMMA RenderedIs ==
    ASSUME NEW tree, NEW n, IsTree(tree, n), NEW places \in SUBSET (1..n), NEW arg \in Calls, Unfiltered(arg)
    PROVE  LET all == SetKinds(tree, places)
               answer == RenderPaged(tree, places, arg)
               start == PageStart(Len(all), arg)
           IN /\ answer.total = Len(all)
              /\ answer.page = SubSeq(all, start + 1, Min({start + MaxResults(arg), Len(all)}))
              /\ answer.marked <=> FetchMax(arg) > 0 /\ Len(all) >= FetchMax(arg)
<1> DEFINE all == SetKinds(tree, places)
<1>1. Filtered(tree, all, arg) = all
  <2>1. all \in Seq(1..n)
    BY SetKindsIs
  <2> HIDE DEF all
  <2> QED BY <2>1, UnfilteredIs
<1> HIDE DEF all
<1> QED BY <1>1 DEF RenderPaged, Truncated, all

LEMMA EligibleIs ==
    ASSUME NEW tree, NEW n, IsTree(tree, n), NEW arg
    PROVE  /\ Eligible(tree, arg) \in SUBSET (1..n)
           /\ IsFiniteSet(Eligible(tree, arg)) /\ Cardinality(Eligible(tree, arg)) \in Nat
<1>1. Eligible(tree, arg) \in SUBSET (1..n)
  BY DEF Eligible, IsTree
<1>2. n \in Int /\ 1 \in Int
  BY DEF IsTree
<1>3. IsFiniteSet(1..n)
  BY <1>2, FS_Interval
<1> QED BY <1>1, <1>3, FS_Subset, FS_CardinalityType

\* What a search may collect is among what is asked for, and at most what is wanted.
LEMMA CollectedIs ==
    ASSUME NEW tree, NEW n, IsTree(tree, n), NEW arg, NEW places \in Collectable(tree, arg)
    PROVE  /\ places \in SUBSET Eligible(tree, arg) /\ places \in SUBSET (1..n)
           /\ IsFiniteSet(places) /\ Cardinality(places) \in Nat
<1>1. places \in SUBSET Eligible(tree, arg)
  BY DEF Collectable
<1>2. Eligible(tree, arg) \in SUBSET (1..n) /\ IsFiniteSet(Eligible(tree, arg))
  BY EligibleIs
<1>3. IsFiniteSet(places)
  BY <1>1, <1>2, FS_Subset
<1> QED BY <1>1, <1>2, <1>3, FS_CardinalityType

\* A search that spends no hit but on a match of its own leaves none out below its limit.
LEMMA NoneLeftOut ==
    ASSUME NEW tree, NEW n, IsTree(tree, n), NEW arg, Wanted(arg) \in Nat, HitsApart(tree, arg),
           NEW places \in Collectable(tree, arg), Cardinality(places) < Wanted(arg)
    PROVE  places = Eligible(tree, arg)
<1> DEFINE E == Eligible(tree, arg)
           W == Wanted(arg)
           D == E \ places
           Hits == {tree[i].before : i \in D}
<1>1. E \in SUBSET (1..n) /\ places \in SUBSET E /\ IsFiniteSet(places) /\ Cardinality(places) \in Nat
  BY EligibleIs, CollectedIs
<1>2. \A i \in E : tree[i].before \in Nat
  BY <1>1 DEF IsTree
<1> SUFFICES ASSUME D # {} PROVE FALSE
  BY <1>1
<1>3. Hits \in SUBSET Int /\ Hits # {} /\ \A k \in Hits : 0 <= k
  BY <1>2
<1>4. PICK h \in Hits : \A k \in Hits : h <= k
  <2> HIDE DEF Hits
  <2> QED BY <1>3, LeastExists
<1>5. PICK i \in D : \A j \in D : tree[i].before <= tree[j].before
  BY <1>4
<1> DEFINE F == FileOf(tree, i)
           X == {j \in E \cap F : tree[j].before < tree[i].before}
           Y == places \ F
<1>6. tree[i].before = Cardinality(X)
  BY DEF HitsApart
<1>7. tree[i].before + Cardinality(Y) >= W
  BY DEF Collectable
<1>8. X \subseteq places /\ X \cap Y = {}
  <2> SUFFICES ASSUME NEW j \in X PROVE j \in places /\ j \in F
    OBVIOUS
  <2>1. j \in E /\ tree[j].before < tree[i].before
    OBVIOUS
  <2>2. tree[j].before \in Nat /\ tree[i].before \in Nat
    BY <1>2, <2>1
  <2>3. ~(tree[i].before <= tree[j].before)
    BY <2>1, <2>2
  <2> QED BY <1>5, <2>1, <2>3
<1> HIDE DEF X, F, Hits, D
<1>9. Y \subseteq places
  OBVIOUS
<1> HIDE DEF Y, E, W
<1>10. IsFiniteSet(X) /\ IsFiniteSet(Y)
  BY <1>1, <1>8, <1>9, FS_Subset
<1>11. Cardinality(X \cup Y) = Cardinality(X) + Cardinality(Y) /\ Cardinality(X \cup Y) \in Nat
  BY <1>8, <1>10, TogetherAtMost
<1>12. Cardinality(X \cup Y) <= Cardinality(places)
  <2>1. X \cup Y \in SUBSET places
    BY <1>8, <1>9
  <2> QED BY <1>1, <2>1, FS_Subset
<1>13. Cardinality(X) \in Nat /\ Cardinality(Y) \in Nat /\ W \in Nat /\ Cardinality(places) < W
  BY <1>10, FS_CardinalityType DEF W
<1> QED BY <1>1, <1>6, <1>7, <1>11, <1>12, <1>13

\* An answer without the mark comes of a search that found all there is.
LEMMA UnmarkedIsWhole ==
    ASSUME NEW tree, NEW n, IsTree(tree, n), NEW arg \in Calls, HitsApart(tree, arg),
           NEW places \in Collectable(tree, arg), ~(Len(SetKinds(tree, places)) >= FetchMax(arg))
    PROVE  places = Eligible(tree, arg)
<1> DEFINE W == Wanted(arg)
           F == FetchMax(arg)
           c == Cardinality(places)
<1>1. W \in Nat /\ F \in Nat /\ F <= W
  BY CallIs
<1>2. places \in SUBSET (1..n) /\ c \in Nat
  BY CollectedIs
<1>3. Len(SetKinds(tree, places)) = c
  BY <1>2, SetKindsIs
<1>4. ~(c >= F)
  BY <1>3
<1>5. c < W
  <2> HIDE DEF c, W, F
  <2> QED BY <1>1, <1>2, <1>4
<1> QED BY <1>1, <1>5, NoneLeftOut

\* The page of a sequence, and the page its cut offset gives.
PageOf(s, o, m, N) == SubSeq(s, o + 1, Min({o + m, N}))
CutPage(s, o, m, N) == SubSeq(s, Min({o, N}) + 1, Min({Min({o, N}) + m, N}))

LEMMA PageFrom ==
    ASSUME NEW s, NEW N \in Nat, NEW o \in Nat, NEW m \in Nat
    PROVE  CutPage(s, o, m, N) = PageOf(s, o, m, N)
<1> USE DEF CutPage, PageOf
<1> DEFINE x == Min({o, N})
           y == Min({x + m, N})
           z == Min({o + m, N})
<1>1. x = IF o <= N THEN o ELSE N
  BY MinOfTwo
<1> HIDE DEF x
<1>2. x \in Nat
  BY <1>1
<1>3. y = IF x + m <= N THEN x + m ELSE N
  BY <1>2, MinOfTwo
<1>4. z = IF o + m <= N THEN o + m ELSE N
  BY MinOfTwo
<1> HIDE DEF y, z
<1>5. CASE o <= N
  <2>1. x = o /\ y = z
    BY <1>1, <1>3, <1>4, <1>5
  <2> QED BY <2>1 DEF x, y, z
<1>6. CASE ~(o <= N)
  <2>1. x + 1 \in Int /\ y \in Int /\ y < x + 1
    BY <1>1, <1>2, <1>3, <1>6
  <2>2. o + 1 \in Int /\ z \in Int /\ z < o + 1
    BY <1>4, <1>6
  <2>3. SubSeq(s, x + 1, y) = <<>>
    BY <2>1, SubSeqEmpty
  <2>4. SubSeq(s, o + 1, z) = <<>>
    BY <2>2, SubSeqEmpty
  <2> QED BY <2>3, <2>4 DEF x, y, z
<1> QED BY <1>5, <1>6

LEMMA UnmarkedIsComplete ==
    ASSUME NEW tree, NEW n, IsTree(tree, n), NEW arg \in Calls
    PROVE  UnmarkedComplete(tree, arg)
<1> SUFFICES ASSUME HitsApart(tree, arg), NEW places \in Collectable(tree, arg), Unfiltered(arg),
                    ~RenderPaged(tree, places, arg).marked
             PROVE  LET answer == RenderPaged(tree, places, arg)
                        whole == Whole(tree, arg)
                    IN /\ answer.total = Len(whole)
                       /\ answer.page = SubSeq(whole, arg.offset + 1, Min({arg.offset + MaxResults(arg), Len(whole)}))
  BY DEF UnmarkedComplete
<1> DEFINE all == SetKinds(tree, places)
           answer == RenderPaged(tree, places, arg)
           start == PageStart(Len(all), arg)
<1>1. Eligible(tree, arg) \in SUBSET (1..n)
  BY EligibleIs
<1>2. places \in SUBSET (1..n)
  BY CollectedIs
<1>3. /\ answer.total = Len(all)
      /\ answer.page = SubSeq(all, start + 1, Min({start + MaxResults(arg), Len(all)}))
      /\ answer.marked <=> FetchMax(arg) > 0 /\ Len(all) >= FetchMax(arg)
  BY <1>2, RenderedIs
<1>4. FetchMax(arg) \in Nat \ {0} /\ MaxResults(arg) \in Nat /\ arg.offset \in Nat
  BY CallIs DEF Calls
<1>5. ~(Len(all) >= FetchMax(arg))
  <2> HIDE DEF all, answer, start
  <2> DEFINE f == FetchMax(arg)
  <2>1. f > 0
    BY <1>4
  <2> QED BY <1>3, <2>1 DEF answer
<1>6. all = Whole(tree, arg)
  BY <1>5, UnmarkedIsWhole DEF Whole
<1>7. Len(all) \in Nat
  <2>1. all \in Seq(1..n)
    BY <1>2, SetKindsIs
  <2> HIDE DEF all
  <2> QED BY <2>1, LenProperties
<1> HIDE DEF all, answer
<1>8. answer.page = SubSeq(all, arg.offset + 1, Min({arg.offset + MaxResults(arg), Len(all)}))
  <2> DEFINE N == Len(all)
             o == arg.offset
             m == MaxResults(arg)
  <2>1. N \in Nat /\ o \in Nat /\ m \in Nat
    BY <1>4, <1>7
  <2>2. answer.page = CutPage(all, o, m, N)
    BY Zenon, <1>3 DEF PageStart, CutPage
  <2> HIDE DEF N, o, m
  <2>3. CutPage(all, o, m, N) = PageOf(all, o, m, N)
    BY <2>1, PageFrom
  <2>4. answer.page = PageOf(all, o, m, N)
    BY Zenon, <2>2, <2>3
  <2> QED BY Zenon, <2>4 DEF N, o, m, PageOf
<1> QED BY <1>3, <1>6, <1>8 DEF answer

\* The beginning of a beginning.
LEMMA SubSeqLead ==
    ASSUME NEW D, NEW s \in Seq(D), NEW c \in 0..Len(s), NEW a \in 0..c
    PROVE  SubSeq(Lead(s, c), a + 1, c) = SubSeq(s, a + 1, c)
<1> DEFINE L == Len(s)
           v == Lead(s, c)
           x == SubSeq(v, a + 1, c)
           y == SubSeq(s, a + 1, c)
           o == c - a
<1>1. L \in Nat
  BY LenProperties
<1>2. v \in Seq(D) /\ Len(v) = c /\ \A i \in 1..c : v[i] = s[i]
  BY LeadIs
<1> HIDE DEF L, v
<1>3. c \in 0..L /\ c \in Nat /\ a \in Nat /\ o \in Nat /\ \A i \in 1..o : a + i \in 1..c
  BY <1>1 DEF L
<1>4. /\ a + 1 \in 1..(c + 1) /\ a + 1 \in 1..(L + 1) /\ c \in ((a + 1) - 1)..c /\ c \in ((a + 1) - 1)..L
      /\ (c - (a + 1)) + 1 = o /\ (a + 1) - 1 = a
  BY <1>1, <1>3
<1>5. x \in Seq(D) /\ Len(x) = o /\ \A i \in 1..o : x[i] = v[a + i]
  <2>1. /\ x \in Seq(D) /\ Len(x) = (c - (a + 1)) + 1
        /\ \A i \in 1..((c - (a + 1)) + 1) : x[i] = v[((a + 1) - 1) + i]
    BY <1>2, <1>4, SubSeqIs
  <2> HIDE DEF x, o
  <2> QED BY Zenon, <1>4, <2>1
<1>6. y \in Seq(D) /\ Len(y) = o /\ \A i \in 1..o : y[i] = s[a + i]
  <2>1. /\ y \in Seq(D) /\ Len(y) = (c - (a + 1)) + 1
        /\ \A i \in 1..((c - (a + 1)) + 1) : y[i] = s[((a + 1) - 1) + i]
    BY <1>4, SubSeqIs DEF L
  <2> HIDE DEF y, o
  <2> QED BY Zenon, <1>4, <2>1
<1> HIDE DEF x, y, o
<1>7. \A i \in 1..o : x[i] = y[i]
  BY <1>2, <1>3, <1>5, <1>6
<1>8. x = y
  BY <1>5, <1>6, <1>7
<1> QED BY <1>8 DEF x, y, v

LEMMA OnlyFunctions ==
    ASSUME NEW tree, NEW n, IsTree(tree, n), NEW P \in SUBSET (1..n), \A i \in P : tree[i].kind = "func"
    PROVE  SetKinds(tree, P) = InTurn(n, P)
<1>1. OfKind(tree, P, "func") = P /\ OfKind(tree, P, "type") = {}
  BY DEF OfKind
<1>2. n \in Nat
  BY DEF IsTree
<1>3. InTurn(n, {}) = <<>>
  BY <1>2, InTurnNone
<1> DEFINE a == InTurn(n, P)
<1>4. SetKinds(tree, P) = a \o <<>>
  BY <1>1, <1>3, SetKindsIs
<1>5. a \in Seq(1..n)
  BY <1>2, InTurnIs
<1> HIDE DEF a
<1>6. a \o <<>> = a
  BY <1>5
<1> QED BY <1>4, <1>6 DEF a

\* A number up to the end of what can be shown.
Cap(x, M) == IF x <= M THEN x ELSE M
CallAt(arg, o) == [arg EXCEPT !.offset = o]

LEMMA CallAtIs ==
    ASSUME NEW arg \in Calls, NEW o \in Nat
    PROVE  /\ CallAt(arg, o) \in Calls /\ CallAt(arg, o).offset = o /\ CallAt(arg, o).types = arg.types
           /\ MaxResults(CallAt(arg, o)) = MaxResults(arg)
           /\ Unfiltered(arg) => Unfiltered(CallAt(arg, o))
           /\ \A tree : Eligible(tree, CallAt(arg, o)) = Eligible(tree, arg)
<1>1. /\ CallAt(arg, o) \in Calls /\ CallAt(arg, o).offset = o /\ CallAt(arg, o).types = arg.types
      /\ CallAt(arg, o).max = arg.max /\ CallAt(arg, o).receiver = arg.receiver /\ CallAt(arg, o).exclude = arg.exclude
  BY DEF CallAt, Calls
<1>2. MaxResults(CallAt(arg, o)) = MaxResults(arg)
  BY Zenon, <1>1 DEF MaxResults
<1>3. \A tree : Eligible(tree, CallAt(arg, o)) = Eligible(tree, arg)
  BY Zenon, <1>1 DEF Eligible
<1> QED BY <1>1, <1>2, <1>3 DEF Unfiltered

\* A page of functions, found in the order of the walk, is a piece of them all.
LEMMA PageAt ==
    ASSUME NEW tree, NEW n, IsTree(tree, n), NEW arg \in Calls, ~arg.types, Unfiltered(arg), NEW o \in Nat
    PROVE  LET whole == Whole(tree, arg)
               M == Cap(Len(whole), FetchCap)
           IN RenderPaged(tree, InWalkOrder(tree, CallAt(arg, o)), CallAt(arg, o)).page
                 = SubSeq(whole, Cap(o, M) + 1, Cap(o + MaxResults(arg), M))
<1> DEFINE a == CallAt(arg, o)
           E == Eligible(tree, arg)
           P == InWalkOrder(tree, a)
           max == MaxResults(arg)
           w == Wanted(a)
           whole == Whole(tree, arg)
           N == Len(whole)
           all == SetKinds(tree, P)
           M == Cap(N, FetchCap)
           c == Cap(o + max, M)
           page == RenderPaged(tree, P, a).page
<1>1. /\ a \in Calls /\ a.offset = o /\ ~a.types /\ MaxResults(a) = max /\ Unfiltered(a)
      /\ Eligible(tree, a) = E
  BY CallAtIs
<1>2. n \in Nat /\ E \in SUBSET (1..n) /\ \A i \in E : tree[i].kind = "func"
  BY EligibleIs DEF IsTree, Eligible
<1>3. FetchCap \in Nat /\ max \in Nat
  BY CallIs, PagesAssumption
<1>4. w = Min({o + max, FetchCap}) /\ w \in Nat
  <2> HIDE DEF a
  <2>1. w = FetchMax(a) /\ w \in Nat /\ FetchMax(a) = Min({a.offset + MaxResults(a), FetchCap})
    BY <1>1, CallIs
  <2> QED BY <1>1, <2>1
<1>5. P = {i \in E : Cardinality({j \in E : j < i}) < w}
  BY <1>1 DEF InWalkOrder
<1> HIDE DEF E, max, w, P
<1>6. whole = InTurn(n, E)
  BY <1>2, OnlyFunctions DEF Whole, E
<1>7. P \in SUBSET (1..n) /\ \A i \in P : tree[i].kind = "func"
  BY <1>2, <1>5
<1>8. all = InTurn(n, P)
  BY <1>7, OnlyFunctions
<1>9. whole \in Seq(1..n) /\ N \in Nat
  <2>1. whole \in Seq(1..n)
    BY <1>2, <1>6, InTurnIs
  <2> HIDE DEF whole
  <2> QED BY <2>1, LenProperties
<1> HIDE DEF whole
<1>10. all = Lead(whole, IF w <= N THEN w ELSE N)
  BY <1>2, <1>4, <1>5, <1>6, <1>8, LeadInTurn
<1> HIDE DEF all, N
<1>11. w = IF o + max <= FetchCap THEN o + max ELSE FetchCap
  BY <1>3, <1>4, MinOfTwo
<1>12. M \in 0..N /\ M <= FetchCap /\ c \in 0..M /\ c = IF w <= N THEN w ELSE N
  BY <1>3, <1>4, <1>9, <1>11 DEF Cap
<1>13. all = Lead(whole, c) /\ c \in 0..N /\ c \in Nat
  BY <1>10, <1>12
<1>14. Len(all) = c
  <2> HIDE DEF c
  <2> QED BY <1>9, <1>13, LeadIs DEF N
<1>15. page = PageOf(all, o, max, c)
  <2> HIDE DEF a, c
  <2> DEFINE start == PageStart(Len(all), a)
  <2>1. page = SubSeq(all, start + 1, Min({start + MaxResults(a), Len(all)}))
    BY <1>1, <1>7, RenderedIs DEF all
  <2>2. page = CutPage(all, o, max, c)
    BY Zenon, <1>1, <1>14, <2>1 DEF PageStart, CutPage
  <2>3. CutPage(all, o, max, c) = PageOf(all, o, max, c)
    BY <1>3, <1>13, PageFrom
  <2> QED BY Zenon, <2>2, <2>3
<1>16. Min({o + max, c}) = c
  <2>1. o + max \in Int /\ c <= o + max
    BY <1>3, <1>9, <1>12 DEF Cap
  <2> HIDE DEF c
  <2> QED BY <1>13, <2>1, MinOfTwo
<1>17. page = SubSeq(all, o + 1, c)
  BY Zenon, <1>15, <1>16 DEF PageOf
<1>18. CASE o <= M
  <2>1. Cap(o, M) = o /\ o \in 0..c
    BY <1>3, <1>12, <1>18 DEF Cap
  <2> HIDE DEF c
  <2>2. SubSeq(all, o + 1, c) = SubSeq(whole, o + 1, c)
    BY <1>9, <1>13, <2>1, SubSeqLead DEF N
  <2> QED BY Zenon, <1>17, <2>1, <2>2 DEF c, N, max, P, a, whole
<1>19. CASE ~(o <= M)
  <2>1. Cap(o, M) = M /\ c = M /\ M \in Nat
    BY <1>3, <1>12, <1>19 DEF Cap
  <2> HIDE DEF c, M
  <2>2. c \in Int /\ o + 1 \in Int /\ c < o + 1 /\ M + 1 \in Int /\ c < M + 1
    BY <1>19, <2>1
  <2>3. SubSeq(all, o + 1, c) = <<>>
    BY <2>2, SubSeqEmpty
  <2>4. SubSeq(whole, M + 1, c) = <<>>
    BY <2>2, SubSeqEmpty
  <2>5. page = SubSeq(whole, Cap(o, M) + 1, c)
    BY Zenon, <1>17, <2>1, <2>3, <2>4
  <2> QED BY Zenon, <2>5 DEF c, M, N, max, P, a, whole
<1> QED BY <1>18, <1>19

LEMMA PagesAreTiled ==
    ASSUME NEW tree, NEW n, IsTree(tree, n), NEW arg \in Calls
    PROVE  PagesTile(tree, arg)
<1> DEFINE max == MaxResults(arg)
           whole == Whole(tree, arg)
           N == Len(whole)
           M == Cap(N, FetchCap)
           at == [j \in 0..n |-> Cap(j * max, M)]
           Page(o) == RenderPaged(tree, InWalkOrder(tree, CallAt(arg, o)), CallAt(arg, o)).page
           pages == [k \in 1..n |-> Page((k - 1) * max)]
<1> SUFFICES ASSUME Unfiltered(arg), ~arg.types
             PROVE  FlattenSeq(pages) = SubSeq(whole, 1, Min({N, FetchCap}))
  BY Zenon DEF PagesTile, CallAt, IsTree
<1>1. n \in Nat /\ max \in Nat \ {0} /\ FetchCap \in Nat
  BY CallIs, PagesAssumption DEF IsTree
<1>2. whole \in Seq(1..n) /\ N \in 0..n
  <2> DEFINE E == Eligible(tree, arg)
  <2>1. E \in SUBSET (1..n)
    BY EligibleIs
  <2>2. whole \in Seq(1..n) /\ N = Cardinality(E) /\ IsFiniteSet(E)
    BY <2>1, SetKindsIs DEF Whole
  <2>3. IsFiniteSet(1..n) /\ Cardinality(1..n) <= n
    <3>1. 1 \in Int /\ n \in Int
      BY <1>1
    <3>2. IsFiniteSet(1..n) /\ Cardinality(1..n) = IF 1 > n THEN 0 ELSE (n - 1) + 1
      BY <3>1, FS_Interval
    <3> QED BY <1>1, <3>2
  <2> HIDE DEF E, whole
  <2>4. Cardinality(E) <= Cardinality(1..n) /\ Cardinality(1..n) \in Nat /\ Cardinality(E) \in Nat
    BY <2>1, <2>2, <2>3, FS_Subset, FS_CardinalityType
  <2> QED BY <1>1, <2>2, <2>3, <2>4
<1> HIDE DEF whole
<1>3. \A x, y \in Nat : x * max \in Nat /\ (x < y => x * max + max <= y * max)
  BY <1>1, Multiples
<1>4. \A k \in 1..n : k - 1 \in Nat /\ (k - 1) * max \in Nat /\ (k - 1) * max + max = k * max
  <2> TAKE k \in 1..n
  <2> DEFINE x == k - 1
  <2>1. x \in Nat /\ k = x + 1
    BY <1>1
  <2> HIDE DEF x
  <2>2. (x + 1) * max = x * max + max
    BY <1>1, <2>1
  <2>3. x * max \in Nat
    BY <1>3, <2>1
  <2>4. x * max + max = k * max
    BY <2>1, <2>2
  <2> QED BY <2>1, <2>3, <2>4 DEF x
<1> HIDE DEF max, N
<1>5. M \in 0..N /\ M \in Nat /\ M = Min({N, FetchCap})
  <2>1. N \in Nat
    BY <1>2
  <2> QED BY <1>1, <2>1, MinOfTwo DEF Cap
<1> HIDE DEF M
<1>6. \A k \in 1..n : Page((k - 1) * max) = SubSeq(whole, Cap((k - 1) * max, M) + 1, Cap(k * max, M))
  <2> TAKE k \in 1..n
  <2> DEFINE o == (k - 1) * max
  <2>1. o \in Nat /\ o + max = k * max
    BY <1>4
  <2> HIDE DEF o
  <2>2. Page(o) = SubSeq(whole, Cap(o, M) + 1, Cap(o + max, M))
    BY <2>1, PageAt DEF M, N, whole, max
  <2> QED BY Zenon, <2>1, <2>2 DEF o
<1> HIDE DEF Page
<1>7. pages = Tiles(whole, at, n)
  <2>1. \A k \in 1..n : k \in 0..n /\ k - 1 \in 0..n
    BY <1>1
  <2>2. \A k \in 1..n : at[k] = Cap(k * max, M) /\ at[k - 1] = Cap((k - 1) * max, M)
    BY Zenon, <2>1
  <2> HIDE DEF at
  <2>3. \A k \in 1..n : Page((k - 1) * max) = SubSeq(whole, at[k - 1] + 1, at[k])
    BY Zenon, <1>6, <2>2
  <2> QED BY Zenon, <2>3 DEF Tiles
<1>8. at \in [0..n -> 0..N] /\ at[0] = 0 /\ at[n] = M /\ \A j \in 1..n : at[j - 1] <= at[j]
  <2>1. ASSUME NEW j \in 0..n PROVE j * max \in Nat /\ at[j] = Cap(j * max, M) /\ Cap(j * max, M) \in 0..N
    <3> DEFINE x == j * max
    <3>1. x \in Nat
      BY <1>1, <1>3
    <3>2. at[j] = Cap(j * max, M)
      OBVIOUS
    <3> HIDE DEF x, at
    <3>3. Cap(x, M) \in 0..N
      BY <1>2, <1>5, <3>1 DEF Cap
    <3> QED BY <3>1, <3>2, <3>3 DEF x
  <2>2. at[0] = 0
    <3>1. 0 \in 0..n /\ 0 * max = 0
      BY <1>1
    <3>2. at[0] = Cap(0, M)
      BY <2>1, <3>1
    <3> HIDE DEF at
    <3> QED BY <1>5, <3>2 DEF Cap
  <2>3. at[n] = M
    <3> DEFINE x == n * max
    <3>1. n \in 0..n /\ at[n] = Cap(x, M)
      BY <1>1, <2>1
    <3>2. x \in Nat /\ n <= x
      <4> DEFINE d == max - 1
      <4>1. d \in Nat /\ max = d + 1
        BY <1>1
      <4> HIDE DEF d
      <4>2. n * d \in Nat /\ n * (d + 1) = n * d + n
        BY <1>1, <4>1
      <4> DEFINE z == n * d
      <4>3. z \in Nat /\ x = z + n
        BY <4>1, <4>2
      <4> HIDE DEF z, x
      <4> QED BY <1>1, <4>3
    <3> HIDE DEF x, at
    <3> QED BY <1>1, <1>2, <1>5, <3>1, <3>2 DEF Cap
  <2>4. ASSUME NEW j \in 1..n PROVE at[j - 1] <= at[j]
    <3> DEFINE x == (j - 1) * max
               y == j * max
    <3>1. j \in 0..n /\ j - 1 \in 0..n
      BY <1>1
    <3>2. at[j - 1] = Cap(x, M) /\ at[j] = Cap(y, M)
      BY <2>1, <3>1
    <3>3. x \in Nat /\ y = x + max
      BY <1>4
    <3> HIDE DEF x, y, at
    <3> QED BY <1>1, <1>5, <3>2, <3>3 DEF Cap
  <2>5. at = [j \in 0..n |-> at[j]]
    OBVIOUS
  <2> HIDE DEF at
  <2>6. at \in [0..n -> 0..N]
    BY <2>1, <2>5
  <2> QED BY <2>2, <2>3, <2>4, <2>6
<1> HIDE DEF at, pages
<1>9. FlattenSeq(Tiles(whole, at, n)) = Lead(whole, at[n])
  BY <1>1, <1>2, <1>8, TilesAreLead DEF N
<1> QED BY <1>5, <1>7, <1>8, <1>9 DEF Lead, pages

\* What grep_func answers without its mark is all there is of what was asked, and its
\* pages, followed by the offsets they give, show every function once: for calls without
\* a filter, on trees in which no hit is spent on anything but a match of its own.
THEOREM PagesAreTrue == TextSpec => []PagesTrue
<1>1. TextInv => PagesTrue
  <2> SUFFICES ASSUME TextInv, tool = "page" PROVE UnmarkedComplete(text, query) /\ PagesTile(text, query)
    BY DEF PagesTrue
  <2>1. "page" \in DOMAIN Pieces
    BY DEF TextInv
  <2>2. text \in Seq(Letters("page"))
    BY <2>1 DEF TextInv
  <2>3. /\ "page" \in DOMAIN Asked /\ Asked["page"] \subseteq Calls
        /\ \A p \in Pieces["page"] : \A k \in DOMAIN p : p[k].kind \in {"func", "type"} /\ p[k].before \in Nat
    BY <2>1, TextAssumption
  <2>4. query \in Calls
    BY <2>3 DEF TextInv
  <2>5. \A m \in Letters("page") : m.kind \in {"func", "type"} /\ m.before \in Nat
    BY <2>3 DEF Letters
  <2>6. IsTree(text, Len(text))
    <3>1. Len(text) \in Nat /\ DOMAIN text = 1..Len(text) /\ \A i \in 1..Len(text) : text[i] \in Letters("page")
      BY <2>2, LenProperties, ElementOfSeq
    <3> QED BY <2>5, <3>1 DEF IsTree
  <2> QED BY <2>4, <2>6, UnmarkedIsComplete, PagesAreTiled
<1> QED BY <1>1, TextHolds, PTL
=============================================================================
