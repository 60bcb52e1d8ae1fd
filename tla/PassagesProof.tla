---------------------------- MODULE PassagesProof ----------------------------
(***************************************************************************)
(* Proofs about passages of a text, for every text and every call.  What the  *)
(* tools show of a file: ranges, tails and entries show the lines they were   *)
(* asked for, windows each line around a hit once, summaries account for     *)
(* what they omit, and a budget leaves a beginning.  Where an edit            *)
(* of patch_file lands: the region each matcher finds reads like the text    *)
(* that was asked for, and no closer reading is overlooked.                  *)
(***************************************************************************)
EXTENDS TextProof

-----------------------------------------------------------------------------
(* Numbers in a row *)

HowMany(from, to) == IF to < from THEN 0 ELSE (to - from) + 1

\* k numbers one behind the other.
Row(z, from, k) ==
    /\ k \in Nat /\ z \in Seq(Nat) /\ Len(z) = k
    /\ \A i \in 1..k : z[i] = (from + i) - 1
Ascends(z) == \A i, j \in 1..Len(z) : i < j => z[i] < z[j]

LEMMA RowAscends ==
    ASSUME NEW from \in Nat, NEW k \in Nat, NEW z, Row(z, from, k)
    PROVE  Ascends(z)
<1>1. Len(z) = k /\ \A i \in 1..k : z[i] = (from + i) - 1
  BY DEF Row
<1>2. \A i, j \in 1..k : i < j => z[i] < z[j]
  BY <1>1
<1> QED BY <1>1, <1>2 DEF Ascends

LEMMA NumbersIs ==
    ASSUME NEW from \in Nat, NEW to \in Nat
    PROVE  /\ Row(Numbers(from, to), from, HowMany(from, to)) /\ HowMany(from, to) \in Nat
           /\ Ascends(Numbers(from, to))
           /\ ToSet(Numbers(from, to)) = from..to
<1> DEFINE z == Numbers(from, to)
           k == HowMany(from, to)
<1>1. k \in Nat
  BY DEF HowMany
<1>2. z = [i \in 1..k |-> (from + i) - 1]
  <2>1. k = IF to < from THEN 0 ELSE to - from + 1
    BY DEF HowMany
  <2>2. \A i \in 1..k : from + i - 1 = (from + i) - 1
    OBVIOUS
  <2> QED BY <2>1, <2>2 DEF Numbers
<1> HIDE DEF z
<1>3. \A i \in 1..k : (from + i) - 1 \in Nat /\ (from + i) - 1 \in from..to
  BY DEF HowMany
<1>4. \A x \in from..to : (x - from) + 1 \in 1..k /\ x = (from + ((x - from) + 1)) - 1
  BY DEF HowMany
<1> HIDE DEF k
<1>5. z \in Seq(Nat) /\ Len(z) = k /\ DOMAIN z = 1..k /\ \A i \in 1..k : z[i] = (from + i) - 1
  BY <1>1, <1>2, <1>3
<1>6. Row(z, from, k)
  BY <1>1, <1>5 DEF Row
<1>7. Ascends(z)
  BY <1>1, <1>6, RowAscends
<1>8. ToSet(z) = from..to
  <2>1. ToSet(z) = {z[i] : i \in 1..k}
    BY <1>5 DEF ToSet
  <2>2. \A i \in 1..k : z[i] \in from..to
    BY <1>3, <1>5
  <2>3. \A x \in from..to : \E i \in 1..k : z[i] = x
    BY <1>4, <1>5
  <2> QED BY <2>1, <2>2, <2>3
<1> QED BY <1>1, <1>6, <1>7, <1>8 DEF z, k

-----------------------------------------------------------------------------
(* Ranges, summaries, budgets *)

LEMMA MaxOfTwo ==
    ASSUME NEW a \in Int, NEW b \in Int
    PROVE  Max({a, b}) = IF a <= b THEN b ELSE a
<1> DEFINE S == {a, b}
           m == IF a <= b THEN b ELSE a
<1>1. S \in SUBSET Int /\ m \in S /\ \A k \in S : k <= m
  OBVIOUS
<1> HIDE DEF S, m
<1>2. Max(S) = m
  BY <1>1, MaxIs
<1> QED BY <1>2 DEF S, m

\* A beginning is a prefix.
LEMMA LeadIsPrefix ==
    ASSUME NEW D, NEW s \in Seq(D), NEW k \in 0..Len(s)
    PROVE  IsPrefix(Lead(s, k), s)
<1> DEFINE v == Lead(s, k)
           L == Len(s)
<1>1. v \in Seq(D) /\ Len(v) = k /\ \A i \in 1..k : v[i] = s[i]
  BY LeadIs
<1>2. L \in Nat
  BY LenProperties
<1> HIDE DEF v
<1>3. k \in 0..Len(v) /\ k <= Len(s)
  BY <1>1, <1>2
<1>4. Lead(v, k) \in Seq(D) /\ Len(Lead(v, k)) = k /\ \A i \in 1..k : Lead(v, k)[i] = v[i]
  BY <1>1, <1>3, LeadIs
<1> DEFINE w == Lead(v, k)
<1> HIDE DEF w
<1>5. w = v
  BY <1>1, <1>4 DEF w
<1>6. SubSeq(v, 1, Len(v)) = SubSeq(s, 1, Len(v))
  BY <1>1, <1>5 DEF w, v, Lead
<1> QED BY <1>1, <1>3, <1>6 DEF IsPrefix, v

\* The last line a call asks for, of those there are.
LastOf(total, end) == IF end <= 0 \/ end > total THEN total ELSE end
FirstOfRange(start) == IF 1 <= start THEN start ELSE 1

LEMMA ScanLinesIs ==
    ASSUME NEW total \in Nat, NEW start \in Nat, NEW end \in Nat
    PROVE  /\ ScanLines(total, start, end) = Numbers(FirstOfRange(start), LastOf(total, end))
           /\ FirstOfRange(start) \in Nat \ {0} /\ LastOf(total, end) \in 0..total
           /\ Max({1, start}) = FirstOfRange(start)
<1>1. Max({1, start}) = FirstOfRange(start)
  BY MaxOfTwo DEF FirstOfRange
<1>2. Min({end, total}) = IF end <= total THEN end ELSE total
  BY MinOfTwo
<1>3. (IF end <= 0 THEN total ELSE Min({end, total})) = LastOf(total, end)
  BY <1>2 DEF LastOf
<1>4. FirstOfRange(start) \in Nat \ {0} /\ LastOf(total, end) \in 0..total
  BY DEF FirstOfRange, LastOf
<1> QED BY Zenon, <1>1, <1>3, <1>4 DEF ScanLines

LEMMA RangeShown ==
    ASSUME NEW total \in Nat, NEW start \in Nat, NEW end \in Nat, start + end > 0, end <= 0 \/ end >= start - 1
    PROVE  RenderRange(total, start, end, MaxLineCount)
             = IF FirstOfRange(start) > total THEN StartExceeds ELSE Numbers(FirstOfRange(start), LastOf(total, end))
<1> DEFINE a == FirstOfRange(start)
           e == LastOf(total, end)
           stored == ScanLines(total, a, end)
           want == e - a + 1
<1>1. a \in Nat \ {0} /\ e \in 0..total /\ Max({1, start}) = a
  BY ScanLinesIs
<1>2. stored = Numbers(a, e)
  <2>1. FirstOfRange(a) = a
    BY <1>1 DEF FirstOfRange
  <2> HIDE DEF a
  <2>2. ScanLines(total, a, end) = Numbers(FirstOfRange(a), LastOf(total, end))
    BY <1>1, ScanLinesIs
  <2> QED BY Zenon, <2>1, <2>2
<1>3. RenderRange(total, start, end, MaxLineCount)
        = IF a > total THEN StartExceeds
          ELSE IF Len(stored) > want THEN IF want < 0 THEN Panic ELSE SubSeq(stored, 1, want)
          ELSE stored
  <2>1. start > 0 \/ end > 0
    OBVIOUS
  <2>2. RenderRange(total, start, end, MaxLineCount) = RenderRangePortion(total, start, end)
    BY <2>1 DEF RenderRange
  <2> HIDE DEF a
  <2>3. Max({1, start}) = a
    BY <1>1
  <2> QED BY Zenon, <2>2, <2>3 DEF RenderRangePortion, LastOf
<1>4. a > total \/ (Len(stored) = want /\ want \in Nat)
  <2> SUFFICES ASSUME a <= total PROVE Len(stored) = want /\ want \in Nat
    BY <1>1
  <2>1. e >= a - 1
    BY DEF FirstOfRange, LastOf
  <2>2. Len(stored) = HowMany(a, e)
    <3>1. a \in Nat /\ e \in Nat
      BY <1>1
    <3> HIDE DEF a, e, stored
    <3>2. Row(Numbers(a, e), a, HowMany(a, e))
      BY <3>1, NumbersIs
    <3> QED BY <1>2, <3>2 DEF Row
  <2> HIDE DEF a, e, stored
  <2> QED BY <1>1, <2>1, <2>2 DEF HowMany
<1> HIDE DEF a, e, stored, want
<1>5. a > total \/ ~(Len(stored) > want)
  BY <1>4
<1> QED BY Zenon, <1>2, <1>3, <1>5 DEF a, e

LEMMA RangesAreExact ==
    ASSUME NEW total \in Nat, NEW start \in Nat, NEW end \in Nat
    PROVE  RangeExact(total, start, end)
<1> DEFINE shown == RenderRange(total, start, end, MaxLineCount)
           a == FirstOfRange(start)
           e == LastOf(total, end)
           z == Numbers(a, e)
           entry == RenderEntry(total, start, end)
<1> SUFFICES ASSUME start + end > 0, end <= 0 \/ end >= start - 1
             PROVE  /\ shown = StartExceeds <=> Max({1, start}) > total
                    /\ shown # StartExceeds =>
                          /\ ToSet(shown) = {n \in 1..total : n >= start /\ (end <= 0 \/ n <= end)}
                          /\ Ascends(shown) /\ IsPrefix(entry, shown)
  BY Zenon DEF RangeExact, IsSorted, Ascends
<1>1. shown = IF a > total THEN StartExceeds ELSE z
  BY RangeShown
<1>2. a \in Nat \ {0} /\ e \in 0..total /\ Max({1, start}) = a /\ ScanLines(total, start, end) = z
  BY ScanLinesIs
<1>3. a..e = {n \in 1..total : n >= start /\ (end <= 0 \/ n <= end)}
  BY DEF FirstOfRange, LastOf
<1> HIDE DEF a, e, shown
<1>4. /\ z \in Seq(Nat) /\ Len(z) \in Nat /\ ToSet(z) = a..e /\ Ascends(z)
      /\ \A i \in 1..Len(z) : z[i] = (a + i) - 1
  <2>1. a \in Nat /\ e \in Nat
    BY <1>2
  <2> DEFINE k == HowMany(a, e)
  <2>2. Row(z, a, k) /\ ToSet(z) = a..e /\ Ascends(z)
    BY <2>1, NumbersIs
  <2> HIDE DEF k, z
  <2> QED BY <2>2 DEF Row
<1> HIDE DEF z
<1>5. z # StartExceeds
  <2>1. Len(StartExceeds) = 1 /\ StartExceeds[1] = 0
    BY DEF StartExceeds
  <2>2. Len(z) = 1 => z[1] = (a + 1) - 1
    <3>1. Len(z) = 1 => 1 \in 1..Len(z)
      BY <1>4
    <3> QED BY <1>4, <3>1
  <2> QED BY <1>2, <2>1, <2>2
<1>6. IsPrefix(entry, z)
  <2> DEFINE L == Len(z)
             k == Min({L, MaxEntryLines})
  <2>1. MaxEntryLines \in Nat
    BY ExcerptsAssumption
  <2>2. k \in 0..L
    <3> HIDE DEF L
    <3>1. L \in Nat
      BY <1>4 DEF L
    <3>2. k = IF L <= MaxEntryLines THEN L ELSE MaxEntryLines
      BY <2>1, <3>1, MinOfTwo
    <3> HIDE DEF k
    <3> QED BY <2>1, <3>1, <3>2
  <2>3. entry = Lead(z, k)
    BY Zenon, <1>2 DEF RenderEntry, Lead
  <2> HIDE DEF k, entry
  <2> QED BY <1>4, <2>2, <2>3, LeadIsPrefix
<1> QED BY Zenon, <1>1, <1>2, <1>3, <1>4, <1>5, <1>6

LEMMA SummariesAddUp ==
    ASSUME NEW total \in Nat, NEW max \in Nat
    PROVE  LET r == SummarizeBody(total, max) IN Len(r.shown) + r.omitted = total /\ Ascends(r.shown)
<1> DEFINE r == SummarizeBody(total, max)
<1>1. CASE total <= max * 2 + 1
  <2> DEFINE z == Numbers(1, total)
  <2>1. r.shown = z /\ r.omitted = 0
    BY <1>1 DEF SummarizeBody
  <2>2. Row(z, 1, HowMany(1, total)) /\ Ascends(z)
    BY NumbersIs
  <2> HIDE DEF z, r
  <2>3. HowMany(1, total) = total
    BY DEF HowMany
  <2>4. Len(z) = total
    BY <2>2, <2>3 DEF Row
  <2> QED BY <2>1, <2>2, <2>4 DEF r
<1>2. CASE ~(total <= max * 2 + 1)
  <2> DEFINE o == total - max + 1
             x == Numbers(1, max)
             y == Numbers(o, total)
             c == x \o y
  <2>1. r.shown = c /\ r.omitted = total - max * 2
    BY <1>2 DEF SummarizeBody
  <2>2. o \in Nat /\ max < o /\ (total - o) + 1 = max
    BY <1>2
  <2>3. HowMany(1, max) = max /\ HowMany(o, total) = max
    BY <1>2 DEF HowMany
  <2> HIDE DEF o
  <2>4. Row(x, 1, max)
    <3>1. Row(x, 1, HowMany(1, max))
      BY NumbersIs
    <3> QED BY Zenon, <2>3, <3>1
  <2>5. Row(y, o, max)
    <3>1. Row(y, o, HowMany(o, total))
      BY <2>2, NumbersIs
    <3> QED BY Zenon, <2>3, <3>1
  <2> HIDE DEF x, y, r
  <2>6. /\ x \in Seq(Nat) /\ Len(x) = max /\ \A i \in 1..max : x[i] = (1 + i) - 1
        /\ y \in Seq(Nat) /\ Len(y) = max /\ \A i \in 1..max : y[i] = (o + i) - 1
    BY <2>4, <2>5 DEF Row
  <2>7. Len(c) = max + max /\ \A i \in 1..(max + max) : c[i] = IF i <= max THEN x[i] ELSE y[i - max]
    <3>1. Len(c) = Len(x) + Len(y) /\ \A i \in 1..(Len(x) + Len(y)) : c[i] = IF i <= Len(x) THEN x[i] ELSE y[i - Len(x)]
      BY <2>6, ConcatProperties
    <3> HIDE DEF c
    <3> QED BY Zenon, <2>6, <3>1
  <2> HIDE DEF c
  <2>8. \A i \in 1..(max + max) : c[i] = IF i <= max THEN i ELSE (o + (i - max)) - 1
    <3> TAKE i \in 1..(max + max)
    <3>1. i <= max => i \in 1..max /\ (1 + i) - 1 = i
      OBVIOUS
    <3>2. ~(i <= max) => i - max \in 1..max
      OBVIOUS
    <3> QED BY <2>6, <2>7, <3>1, <3>2
  <2>9. \A i, j \in 1..(max + max) : i < j => c[i] < c[j]
    BY <2>2, <2>8
  <2>10. (max + max) + (total - max * 2) = total
    OBVIOUS
  <2> QED BY <2>1, <2>7, <2>9, <2>10 DEF r, Ascends
<1> QED BY <1>1, <1>2

LEMMA BudgetCuts ==
    ASSUME NEW D, NEW s \in Seq(D), NEW budget \in Nat
    PROVE  /\ IsPrefix(TruncateToBudget(s, budget), s)
           /\ budget > 0 => Len(TruncateToBudget(s, budget)) <= budget
<1> DEFINE L == Len(s)
           cut == {i \in Breaks(s) : i <= budget}
           z == TruncateToBudget(s, budget)
<1>1. L \in Nat
  BY LenProperties
<1>2. \E k \in 0..L : z = Lead(s, k) /\ (budget > 0 => k <= budget)
  <2>1. CASE budget <= 0 \/ L <= budget
    <3>1. z = s
      BY <2>1 DEF TruncateToBudget
    <3>2. Lead(s, L) = s
      BY DEF Lead
    <3>3. L \in 0..L /\ (budget > 0 => L <= budget)
      BY <1>1, <2>1
    <3> QED BY <3>1, <3>2, <3>3
  <2>2. CASE ~(budget <= 0 \/ L <= budget) /\ cut = {}
    <3>1. z = Lead(s, budget)
      BY <2>2 DEF TruncateToBudget, Lead
    <3>2. budget \in 0..L
      BY <1>1, <2>2
    <3> QED BY <3>1, <3>2
  <2>3. CASE ~(budget <= 0 \/ L <= budget) /\ cut # {}
    <3>1. z = Lead(s, Max(cut) - 1)
      BY <2>3 DEF TruncateToBudget, Lead
    <3>2. cut \in SUBSET Int /\ \A i \in cut : i <= budget /\ 1 <= i /\ i <= L
      BY <1>1 DEF Breaks
    <3> HIDE DEF cut, L
    <3>6. cut # {} /\ budget \in Int /\ \A i \in cut : i <= budget
      BY <2>3, <3>2
    <3>3. PICK m \in cut : \A k \in cut : k <= m
      BY <3>2, <3>6, GreatestExists
    <3>4. Max(cut) = m
      BY <3>2, <3>3, MaxIs
    <3>5. m - 1 \in 0..L /\ m - 1 <= budget
      BY <1>1, <3>2, <3>3
    <3> QED BY <3>1, <3>4, <3>5 DEF L
  <2> QED BY <2>1, <2>2, <2>3
<1>3. PICK k \in 0..L : z = Lead(s, k) /\ (budget > 0 => k <= budget)
  BY <1>2
<1>4. IsPrefix(Lead(s, k), s) /\ Len(Lead(s, k)) = k
  BY LeadIsPrefix, LeadIs
<1> QED BY <1>3, <1>4

-----------------------------------------------------------------------------
(* Windows *)

Window == [start : Int, end : Int, matches : SUBSET Int]
Low(h, ctx) == IF 1 <= h - ctx THEN h - ctx ELSE 1
High(h, ctx, total) == IF total <= h + ctx THEN total ELSE h + ctx
Joined(a, b) == [start |-> a.start, end |-> IF a.end <= b.end THEN b.end ELSE a.end, matches |-> a.matches \cup b.matches]

LEMMA AroundIs ==
    ASSUME NEW h \in Int, NEW ctx \in Nat, NEW total \in Nat
    PROVE  /\ Around(h, ctx, total) = [start |-> Low(h, ctx), end |-> High(h, ctx, total), matches |-> {h}]
           /\ Around(h, ctx, total) \in Window
<1>1. Max({1, h - ctx}) = Low(h, ctx)
  BY MaxOfTwo DEF Low
<1>2. Min({total, h + ctx}) = High(h, ctx, total)
  BY MinOfTwo DEF High
<1>3. Low(h, ctx) \in Int /\ High(h, ctx, total) \in Int
  BY DEF Low, High
<1>4. Around(h, ctx, total) = [start |-> Low(h, ctx), end |-> High(h, ctx, total), matches |-> {h}]
  BY Zenon, <1>1, <1>2 DEF Around
<1> QED BY <1>3, <1>4 DEF Window

\* A window is joined to the last one or put behind it.
LEMMA MergeIs ==
    ASSUME NEW ws \in Seq(Window), NEW w \in Window
    PROVE  LET m == Len(ws)
               r == Merge(ws, w)
           IN /\ r \in Seq(Window)
              /\ (m > 0 /\ w.start <= ws[m].end + 1) =>
                    /\ Len(r) = m /\ r[m] = Joined(ws[m], w)
                    /\ \A j \in 1..m : j # m => r[j] = ws[j]
              /\ ~(m > 0 /\ w.start <= ws[m].end + 1) =>
                    /\ Len(r) = m + 1 /\ r[m + 1] = w
                    /\ \A j \in 1..m : r[j] = ws[j]
<1> DEFINE m == Len(ws)
           r == Merge(ws, w)
           touch == m > 0 /\ w.start <= ws[m].end + 1
<1>1. m \in Nat /\ ws \in [1..m -> Window]
  BY LenProperties
<1>2. CASE touch
  <2> DEFINE e == [start |-> ws[m].start, end |-> Max({ws[m].end, w.end}), matches |-> ws[m].matches \cup w.matches]
  <2>1. m \in 1..m
    BY <1>1, <1>2
  <2>2. ws[m].end \in Int /\ w.end \in Int /\ ws[m].start \in Int /\ ws[m].matches \in SUBSET Int /\ w.matches \in SUBSET Int
    BY <1>1, <2>1 DEF Window
  <2>3. Max({ws[m].end, w.end}) = IF ws[m].end <= w.end THEN w.end ELSE ws[m].end
    BY <2>2, MaxOfTwo
  <2>4. e = Joined(ws[m], w)
    BY Zenon, <2>3 DEF Joined
  <2>5. Joined(ws[m], w) \in Window
    BY <2>2 DEF Joined, Window
  <2>6. r = [ws EXCEPT ![m] = e]
    BY <1>2 DEF Merge
  <2> HIDE DEF e, m, r
  <2>7. r = [ws EXCEPT ![m] = Joined(ws[m], w)]
    BY Zenon, <2>4, <2>6
  <2> DEFINE j == Joined(ws[m], w)
  <2> HIDE DEF j
  <2>8. r \in [1..m -> Window] /\ r[m] = j /\ \A i \in 1..m : i # m => r[i] = ws[i]
    BY <1>1, <2>1, <2>5, <2>7 DEF j
  <2>9. r \in Seq(Window) /\ Len(r) = m
    <3>1. r \in Seq(Window)
      BY <1>1, <2>8, SeqDef
    <3>2. Len(r) \in Nat /\ DOMAIN r = 1..Len(r)
      BY <3>1, LenProperties
    <3> QED BY <1>1, <2>8, <3>1, <3>2
  <2> QED BY <1>2, <2>8, <2>9 DEF j, m, r
<1>3. CASE ~touch
  <2>1. r = Append(ws, w)
    BY <1>3 DEF Merge
  <2> HIDE DEF r
  <2>2. r \in Seq(Window) /\ Len(r) = m + 1 /\ r[m + 1] = w /\ \A j \in 1..m : r[j] = ws[j]
    BY <2>1, AppendProperties
  <2> QED BY <1>3, <2>2 DEF r
<1> QED BY <1>2, <1>3

LEMMA WindowsAre ==
    ASSUME NEW total \in Nat, NEW ctx \in Nat, NEW at \in Seq(1..total)
    PROVE  LET w == WindowsUpTo(at, ctx, total) IN
           /\ w[0] = <<>>
           /\ \A k \in 1..Len(at) : w[k] = Merge(w[k - 1], Around(at[k], ctx, total))
<1> DEFINE L == Len(at)
           Q == Seq(Window)
           none == <<>>
           step == [n \in 1..L |-> [q \in Q |-> Merge(q, Around(at[n], ctx, total))]]
           body(g) == [k \in 0..L |-> IF k = 0 THEN <<>> ELSE Merge(g[k - 1], Around(at[k], ctx, total))]
<1>1. L \in Nat /\ none \in Q /\ \A n \in 1..L : at[n] \in Int
  <2>1. L \in Nat /\ \A n \in 1..L : at[n] \in 1..total
    BY LenProperties, ElementOfSeq
  <2> QED BY <2>1
<1>2. step \in [1..L -> [Q -> Q]]
  <2>1. \A n \in 1..L, q \in Q : Merge(q, Around(at[n], ctx, total)) \in Q
    <3> TAKE n \in 1..L, q \in Q
    <3>1. Around(at[n], ctx, total) \in Window
      BY <1>1, AroundIs
    <3> QED BY <3>1, MergeIs
  <2> QED BY <2>1
<1> HIDE DEF L, Q, none
<1>3. PICK g \in [0..L -> Q] : g[0] = none /\ \A n \in 1..L : g[n] = step[n][g[n - 1]]
  <2> HIDE DEF step
  <2>1. Recursion(Q, L, none, step)
    BY <1>1, <1>2, RecursionExists
  <2> QED BY <2>1 DEF Recursion
<1>4. \A n \in 1..L : g[n] = Merge(g[n - 1], Around(at[n], ctx, total))
  <2> TAKE n \in 1..L
  <2>1. n - 1 \in 0..L
    BY <1>1
  <2>2. g[n - 1] \in Q
    BY <1>3, <2>1
  <2> QED BY <1>3, <2>2
<1>5. g = body(g)
  <2> DEFINE h == body(g)
  <2>1. \A k \in 0..L : g[k] = h[k]
    <3> TAKE k \in 0..L
    <3>1. CASE k = 0
      BY <1>3, <3>1 DEF none
    <3>2. CASE k # 0
      <4>1. k \in 1..L
        BY <1>1, <3>2
      <4> QED BY <1>4, <3>2, <4>1
    <3> QED BY <3>1, <3>2
  <2>2. DOMAIN h = 0..L /\ DOMAIN g = 0..L
    BY <1>3
  <2>3. h = [k \in 0..L |-> h[k]] /\ g = [k \in 0..L |-> g[k]]
    BY <1>3
  <2> HIDE DEF h
  <2>4. g = h
    BY <2>1, <2>3
  <2> QED BY <2>4 DEF h
<1>6. WindowsUpTo(at, ctx, total) = CHOOSE f : f = body(f)
  BY DEF WindowsUpTo, L
<1>7. WindowsUpTo(at, ctx, total) = body(WindowsUpTo(at, ctx, total))
  <2> HIDE DEF body
  <2> QED BY <1>5, <1>6
<1> DEFINE w == WindowsUpTo(at, ctx, total)
<1>8. w[0] = none /\ \A k \in 1..L : w[k] = Merge(w[k - 1], Around(at[k], ctx, total))
  <2> HIDE DEF w
  <2>1. w = body(w)
    BY <1>7 DEF w
  <2>2. 0 \in 0..L /\ \A k \in 1..L : k \in 0..L /\ k # 0
    BY <1>1
  <2> QED BY <2>1, <2>2 DEF none
<1> QED BY <1>8 DEF w, none, L

\* The lines the windows show, and the hits they mark.
Covered(ws, x) == \E j \in 1..Len(ws) : ws[j].start <= x /\ x <= ws[j].end
Marked(ws, x) == \E j \in 1..Len(ws) : x \in ws[j].matches
HoldsHits(w) == \A x \in w.matches : x \in Int /\ w.start <= x /\ x <= w.end

\* Windows apart from each other, each about its hits, the last about the hit seen last.
Apart(ws) ==
    /\ ws \in Seq(Window)
    /\ \A j \in 1..Len(ws) : HoldsHits(ws[j]) /\ ws[j].start \in Int /\ ws[j].end \in Int
    /\ \A j \in 2..Len(ws) : ws[j - 1].end + 1 < ws[j].start

\* What one more window does to them, when it starts and ends no earlier than the last.
Follows(ws, w) == Len(ws) > 0 => ws[Len(ws)].start <= w.start /\ ws[Len(ws)].end <= w.end
GrownBy(r, ws, w) ==
    /\ Apart(r) /\ Len(r) > 0
    /\ r[Len(r)].end = w.end /\ r[Len(r)].start <= w.start
    /\ \A x \in Int : Covered(r, x) <=> Covered(ws, x) \/ (w.start <= x /\ x <= w.end)
    /\ \A x : Marked(r, x) <=> Marked(ws, x) \/ x \in w.matches

LEMMA MergeApart ==
    ASSUME NEW ws, Apart(ws), NEW w \in Window, HoldsHits(w), Follows(ws, w)
    PROVE  GrownBy(Merge(ws, w), ws, w)
<1> DEFINE m == Len(ws)
           r == Merge(ws, w)
           touch == m > 0 /\ w.start <= ws[m].end + 1
<1>1. ws \in Seq(Window) /\ m \in Nat
  BY LenProperties DEF Apart
<1>2. /\ \A j \in 1..m : HoldsHits(ws[j]) /\ ws[j].start \in Int /\ ws[j].end \in Int
      /\ \A j \in 2..m : ws[j - 1].end + 1 < ws[j].start
  BY DEF Apart
<1>3. w.start \in Int /\ w.end \in Int /\ w.matches \in SUBSET Int
  BY DEF Window
<1>4. /\ r \in Seq(Window)
      /\ touch => /\ Len(r) = m /\ r[m] = Joined(ws[m], w)
                  /\ \A j \in 1..m : j # m => r[j] = ws[j]
      /\ ~touch => /\ Len(r) = m + 1 /\ r[m + 1] = w
                   /\ \A j \in 1..m : r[j] = ws[j]
  BY <1>1, MergeIs
<1>5. m > 0 => ws[m].start <= w.start /\ ws[m].end <= w.end
  BY DEF Follows
<1> HIDE DEF m, r
<1>6. CASE touch
  <2>1. m \in 1..m /\ m > 0
    BY <1>1, <1>6
  <2>2. /\ r[m].start = ws[m].start /\ r[m].end = w.end /\ r[m].matches = ws[m].matches \cup w.matches
        /\ ws[m].start \in Int /\ ws[m].end \in Int /\ ws[m].start <= w.start /\ ws[m].end <= w.end
        /\ w.start <= ws[m].end + 1
    BY <1>2, <1>4, <1>5, <1>6, <2>1 DEF Joined
  <2>3. Len(r) = m /\ \A j \in 1..m : j # m => r[j] = ws[j]
    BY <1>4, <1>6
  <2>4. HoldsHits(r[m])
    BY <1>2, <1>3, <2>1, <2>2 DEF HoldsHits
  <2>5. \A j \in 1..m : HoldsHits(r[j]) /\ r[j].start \in Int /\ r[j].end \in Int
    BY <1>2, <1>3, <2>2, <2>3, <2>4
  <2>6. \A j \in 2..m : r[j - 1].end + 1 < r[j].start
    <3> TAKE j \in 2..m
    <3>1. j - 1 \in 1..m /\ j - 1 # m /\ j \in 1..m
      BY <1>1
    <3>2. r[j - 1] = ws[j - 1] /\ r[j].start = ws[j].start
      BY <2>2, <2>3, <3>1
    <3> QED BY <1>2, <3>2
  <2>7. \A x \in Int : Covered(r, x) <=> Covered(ws, x) \/ (w.start <= x /\ x <= w.end)
    <3> TAKE x \in Int
    <3>1. (r[m].start <= x /\ x <= r[m].end) <=> (ws[m].start <= x /\ x <= ws[m].end) \/ (w.start <= x /\ x <= w.end)
      BY <1>3, <2>2
    <3>2. \A j \in 1..m : j # m => (r[j].start <= x /\ x <= r[j].end <=> ws[j].start <= x /\ x <= ws[j].end)
      BY <2>3
    <3> QED BY <2>1, <2>3, <3>1, <3>2 DEF Covered, m
  <2>8. \A x : Marked(r, x) <=> Marked(ws, x) \/ x \in w.matches
    <3> TAKE x
    <3>1. x \in r[m].matches <=> x \in ws[m].matches \/ x \in w.matches
      BY <2>2
    <3>2. \A j \in 1..m : j # m => (x \in r[j].matches <=> x \in ws[j].matches)
      BY <2>3
    <3> QED BY <2>1, <2>3, <3>1, <3>2 DEF Marked, m
  <2>9. Apart(r)
    BY <1>4, <2>3, <2>5, <2>6 DEF Apart
  <2> QED BY <2>1, <2>2, <2>3, <2>7, <2>8, <2>9 DEF r, GrownBy
<1>7. CASE ~touch
  <2> DEFINE n == m + 1
  <2>1. /\ Len(r) = n /\ r[n] = w /\ \A j \in 1..m : r[j] = ws[j]
        /\ n \in 1..n /\ n > 0 /\ \A j \in 1..n : j \in 1..m \/ j = n
        /\ \A j \in 1..m : j \in 1..n
    BY <1>1, <1>4, <1>7
  <2>2. m > 0 => ws[m].end + 1 < w.start
    <3> SUFFICES ASSUME m > 0 PROVE ws[m].end + 1 < w.start
      OBVIOUS
    <3>1. m \in 1..m
      BY <1>1
    <3> QED BY <1>2, <1>3, <1>7, <3>1
  <2>3. \A j \in 2..n : r[j - 1].end + 1 < r[j].start
    <3> TAKE j \in 2..n
    <3>1. CASE j = n
      <4>1. j - 1 = m /\ m \in 1..m /\ m > 0
        BY <1>1, <3>1
      <4> QED BY <2>1, <2>2, <3>1, <4>1
    <3>2. CASE j # n
      <4>1. j \in 1..m /\ j \in 2..m /\ j - 1 \in 1..m
        BY <1>1, <3>2
      <4> QED BY <1>2, <2>1, <4>1
    <3> QED BY <3>1, <3>2
  <2> HIDE DEF n
  <2>4. \A j \in 1..n : HoldsHits(r[j]) /\ r[j].start \in Int /\ r[j].end \in Int
    BY <1>2, <1>3, <2>1
  <2>5. \A x \in Int : Covered(r, x) <=> Covered(ws, x) \/ (w.start <= x /\ x <= w.end)
    BY <2>1 DEF Covered, m
  <2>6. \A x : Marked(r, x) <=> Marked(ws, x) \/ x \in w.matches
    BY <2>1 DEF Marked, m
  <2>7. Apart(r)
    BY <1>4, <2>1, <2>3, <2>4 DEF Apart
  <2>8. w.start <= w.start
    BY <1>3
  <2> QED BY <2>1, <2>5, <2>6, <2>7, <2>8 DEF r, GrownBy
<1> QED BY <1>6, <1>7

\* After k hits.
WindowsOK(ws, at, k, ctx, total) ==
    /\ Apart(ws)
    /\ k > 0 => /\ Len(ws) > 0 /\ ws[Len(ws)].start <= Low(at[k], ctx)
                /\ ws[Len(ws)].end = High(at[k], ctx, total)
    /\ k = 0 => ws = <<>>
    /\ \A x \in Int : Covered(ws, x) <=> \E i \in 1..k : Low(at[i], ctx) <= x /\ x <= High(at[i], ctx, total)
    /\ \A x : Marked(ws, x) <=> \E i \in 1..k : x = at[i]

LEMMA WindowsGrow ==
    ASSUME NEW total \in Nat, NEW ctx \in Nat, NEW at \in Seq(1..total), NEW k \in 0..(Len(at) - 1),
           \A i, j \in 1..Len(at) : i < j => at[i] < at[j], NEW ws, WindowsOK(ws, at, k, ctx, total)
    PROVE  WindowsOK(Merge(ws, Around(at[k + 1], ctx, total)), at, k + 1, ctx, total)
<1> DEFINE L == Len(at)
           n == k + 1
           h == at[n]
           w == Around(h, ctx, total)
           r == Merge(ws, w)
<1>1. L \in Nat /\ \A i \in 1..L : at[i] \in 1..total
  BY LenProperties, ElementOfSeq
<1>2. /\ n \in 1..L /\ n > 0 /\ n # 0 /\ n \in 1..n /\ k \in Nat
      /\ \A i \in 1..k : i \in 1..n /\ i \in 1..L /\ i < n
      /\ \A i \in 1..n : i \in 1..k \/ i = n
  BY <1>1
<1>3. h \in 1..total /\ h \in Int
  BY <1>1, <1>2
<1>4. w = [start |-> Low(h, ctx), end |-> High(h, ctx, total), matches |-> {h}] /\ w \in Window
  BY <1>3, AroundIs
<1> HIDE DEF w
<1>5. w.start = Low(h, ctx) /\ w.end = High(h, ctx, total) /\ w.matches = {h}
  BY <1>4
<1>6. HoldsHits(w)
  BY <1>3, <1>5 DEF HoldsHits, Low, High
<1>7. ASSUME k > 0 PROVE /\ Len(ws) > 0 /\ ws[Len(ws)].start <= Low(at[k], ctx) /\ ws[Len(ws)].start \in Int
                         /\ ws[Len(ws)].end = High(at[k], ctx, total) /\ at[k] \in Int /\ at[k] < h
  <2>1. k \in 1..k
    BY <1>2, <1>7
  <2>2. k \in 1..L /\ k < n
    BY <1>2, <2>1
  <2>3. Len(ws) > 0 /\ ws[Len(ws)].start <= Low(at[k], ctx) /\ ws[Len(ws)].end = High(at[k], ctx, total)
    BY <1>7 DEF WindowsOK
  <2>4. Len(ws) \in Nat
    BY LenProperties DEF WindowsOK, Apart
  <2>5. Len(ws) \in 1..Len(ws)
    BY <2>3, <2>4
  <2>6. ws[Len(ws)].start \in Int
    BY <2>5 DEF WindowsOK, Apart
  <2> QED BY <1>1, <1>2, <2>2, <2>3, <2>6
<1>8. Len(ws) > 0 => ws[Len(ws)].start <= w.start /\ ws[Len(ws)].end <= w.end
  <2>1. CASE k = 0
    <3>1. ws = <<>>
      BY <2>1 DEF WindowsOK
    <3> QED BY <3>1
  <2>2. CASE k > 0
    <3> DEFINE g == at[k]
               a == ws[Len(ws)].start
    <3>1. g \in Int /\ g < h /\ a <= Low(g, ctx) /\ a \in Int /\ ws[Len(ws)].end = High(g, ctx, total)
      BY <1>7, <2>2
    <3> HIDE DEF g, a, h
    <3>2. a <= Low(h, ctx) /\ High(g, ctx, total) <= High(h, ctx, total)
      BY <1>3, <3>1 DEF Low, High
    <3> QED BY <1>5, <3>1, <3>2 DEF a
  <2> QED BY <1>2, <2>1, <2>2
<1>13. GrownBy(r, ws, w)
  <2>1. Apart(ws)
    BY DEF WindowsOK
  <2>2. Follows(ws, w)
    BY Zenon, <1>8 DEF Follows
  <2> QED BY <1>4, <1>6, <2>1, <2>2, MergeApart
<1>9. /\ Apart(r) /\ Len(r) > 0
      /\ r[Len(r)].end = w.end /\ r[Len(r)].start <= w.start
      /\ \A x \in Int : Covered(r, x) <=> Covered(ws, x) \/ (w.start <= x /\ x <= w.end)
      /\ \A x : Marked(r, x) <=> Marked(ws, x) \/ x \in w.matches
  BY Zenon, <1>13 DEF GrownBy
<1> HIDE DEF r, n
<1>10. \A x \in Int : Covered(r, x) <=> \E i \in 1..n : Low(at[i], ctx) <= x /\ x <= High(at[i], ctx, total)
  <2> TAKE x \in Int
  <2>1. Covered(ws, x) <=> \E i \in 1..k : Low(at[i], ctx) <= x /\ x <= High(at[i], ctx, total)
    BY DEF WindowsOK
  <2> QED BY <1>2, <1>5, <1>9, <2>1
<1>11. \A x : Marked(r, x) <=> \E i \in 1..n : x = at[i]
  <2> TAKE x
  <2>1. Marked(ws, x) <=> \E i \in 1..k : x = at[i]
    BY DEF WindowsOK
  <2> QED BY <1>2, <1>5, <1>9, <2>1
<1>12. WindowsOK(r, at, n, ctx, total)
  BY <1>2, <1>5, <1>9, <1>10, <1>11 DEF WindowsOK
<1> QED BY <1>12 DEF r, n, w

LEMMA WindowsAreExact ==
    ASSUME NEW total \in Nat, NEW ctx \in Nat, NEW hits \in SUBSET (1..total)
    PROVE  WindowsExact(hits, ctx, total)
<1> DEFINE at == InTurn(total, hits)
           L == Len(at)
           w == WindowsUpTo(at, ctx, total)
           ws == BuildWindows(hits, ctx, total)
           Shown(v) == v.start..v.end
<1>1. /\ at \in Seq(1..total) /\ \A i, j \in 1..L : i < j => at[i] < at[j]
      /\ \A i \in 1..L : at[i] \in hits /\ at[i] \in 1..total
      /\ \A o \in 1..total : o \in hits => \E i \in 1..L : at[i] = o
  BY InTurnIs
<1>2. ws = w[L]
  BY DEF BuildWindows
<1> HIDE DEF at
<1>3. L \in Nat
  BY <1>1, LenProperties
<1>4. w[0] = <<>> /\ \A k \in 1..L : w[k] = Merge(w[k - 1], Around(at[k], ctx, total))
  BY <1>1, WindowsAre
<1> HIDE DEF w
<1> DEFINE T == {k \in 0..L : WindowsOK(w[k], at, k, ctx, total)}
<1>5. 0 \in T
  <2>1. Len(w[0]) = 0 /\ w[0] \in Seq(Window)
    BY <1>4
  <2>2. WindowsOK(w[0], at, 0, ctx, total)
    <3>1. Apart(w[0])
      BY <2>1 DEF Apart
    <3>2. \A x : ~Covered(w[0], x) /\ ~Marked(w[0], x)
      BY <2>1 DEF Covered, Marked
    <3>3. ~(0 > 0) /\ \A i \in 1..0 : FALSE
      OBVIOUS
    <3> QED BY <1>4, <3>1, <3>2, <3>3 DEF WindowsOK
  <2> QED BY <1>3, <2>2
<1>6. ASSUME NEW k \in 0..(L - 1), k \in T PROVE k + 1 \in T
  <2>1. k + 1 \in 1..L /\ (k + 1) - 1 = k /\ k + 1 \in 0..L
    BY <1>3
  <2>2. w[k + 1] = Merge(w[k], Around(at[k + 1], ctx, total))
    BY <1>4, <2>1
  <2>3. WindowsOK(w[k], at, k, ctx, total)
    BY <1>6
  <2>4. WindowsOK(Merge(w[k], Around(at[k + 1], ctx, total)), at, k + 1, ctx, total)
    BY <1>1, <2>3, WindowsGrow
  <2> QED BY <2>1, <2>2, <2>4
<1>7. L \in T
  <2> HIDE DEF T, L
  <2>1. \A k \in 0..L : k \in T
    BY <1>3, <1>5, <1>6, Upward
  <2> QED BY <1>3, <2>1
<1> HIDE DEF ws, L
<1>8. /\ Apart(ws)
      /\ \A x \in Int : Covered(ws, x) <=> \E i \in 1..L : Low(at[i], ctx) <= x /\ x <= High(at[i], ctx, total)
      /\ \A x : Marked(ws, x) <=> \E i \in 1..L : x = at[i]
  BY <1>2, <1>7 DEF WindowsOK
<1>9. \A k \in 1..Len(ws) : ws[k].start \in Int /\ ws[k].end \in Int /\ ws[k].matches \in SUBSET Int
  <2>1. \A k \in 1..Len(ws) : ws[k] \in Window
    BY <1>8, ElementOfSeq DEF Apart
  <2> QED BY <2>1 DEF Window
<1>10. UNION {Shown(ws[k]) : k \in 1..Len(ws)} = {n \in 1..total : \E h \in hits : n \in (h - ctx)..(h + ctx)}
  <2>1. \A x : x \in UNION {Shown(ws[k]) : k \in 1..Len(ws)} <=> x \in Int /\ Covered(ws, x)
    BY <1>9 DEF Covered
  <2>2. \A x \in Int : Covered(ws, x) <=> x \in 1..total /\ \E h \in hits : x \in (h - ctx)..(h + ctx)
    <3> TAKE x \in Int
    <3>1. \A h \in 1..total : (Low(h, ctx) <= x /\ x <= High(h, ctx, total))
                               <=> (x \in 1..total /\ x \in (h - ctx)..(h + ctx))
      BY DEF Low, High
    <3>2. Covered(ws, x) <=> \E i \in 1..L : Low(at[i], ctx) <= x /\ x <= High(at[i], ctx, total)
      BY <1>8
    <3>3. Covered(ws, x) <=> \E h \in hits : Low(h, ctx) <= x /\ x <= High(h, ctx, total)
      BY <1>1, <3>2 DEF L
    <3> QED BY <3>1, <3>3
  <2> DEFINE A == UNION {Shown(ws[k]) : k \in 1..Len(ws)}
             B == {n \in 1..total : \E h \in hits : n \in (h - ctx)..(h + ctx)}
  <2>3. \A x : x \in A => x \in B
    BY <2>1, <2>2
  <2>4. \A x : x \in B => x \in Int /\ Covered(ws, x)
    BY <2>2
  <2>5. \A x : x \in B => x \in A
    BY Zenon, <2>1, <2>4
  <2> HIDE DEF A, B
  <2>6. A = B
    BY <2>3, <2>5
  <2> QED BY <2>6 DEF A, B
<1>11. UNION {ws[k].matches : k \in 1..Len(ws)} = hits
  <2>1. \A x : x \in UNION {ws[k].matches : k \in 1..Len(ws)} <=> Marked(ws, x)
    BY DEF Marked
  <2>2. \A x : Marked(ws, x) <=> x \in hits
    <3> TAKE x
    <3>1. Marked(ws, x) <=> \E i \in 1..L : x = at[i]
      BY <1>8
    <3>2. \A o : o \in hits => o \in 1..total
      OBVIOUS
    <3> QED BY <1>1, <3>1, <3>2 DEF L
  <2> QED BY <2>1, <2>2
<1>12. \A k \in 1..Len(ws) : ws[k].matches \subseteq Shown(ws[k])
  BY <1>8, <1>9 DEF Apart, HoldsHits
<1>13. \A k \in 2..Len(ws) : ws[k - 1].end + 1 < ws[k].start
  BY <1>8 DEF Apart
<1> QED BY Zenon, <1>10, <1>11, <1>12, <1>13 DEF WindowsExact, ws

-----------------------------------------------------------------------------
(* Lines and tails *)

\* Where a text's lines end, counted from the beginning of the text.
Cut(s, k) == IF k = 0 THEN 0 ELSE InTurn(Len(s) + 1, LineEnds(s))[k]

LEMMA LineEndsAre ==
    ASSUME NEW D, NEW s \in Seq(D)
    PROVE  /\ Len(s) \in Nat /\ LineEnds(s) \in SUBSET (1..(Len(s) + 1)) /\ IsFiniteSet(LineEnds(s))
           /\ TotalLines(s) = Cardinality(LineEnds(s)) /\ TotalLines(s) \in Nat
           /\ \A x \in 1..Len(s) : x \in LineEnds(s) <=> s[x] = "nl"
           /\ Len(s) + 1 \in LineEnds(s) <=> Len(s) > 0 /\ s[Len(s)] # "nl"
           /\ Len(s) = 0 => LineEnds(s) = {}
           /\ \A x : x \in Breaks(s) <=> x \in 1..Len(s) /\ s[x] = "nl"
<1> DEFINE L == Len(s)
           B == Breaks(s)
           E == LineEnds(s)
<1>1. L \in Nat /\ (s # <<>> <=> L > 0)
  BY LenProperties, EmptySeq
<1>2. \A x : x \in B <=> x \in 1..L /\ s[x] = "nl"
  BY DEF Breaks
<1>3. E = B \cup (IF L > 0 /\ s[L] # "nl" THEN {L + 1} ELSE {})
  BY <1>1 DEF LineEnds, Last
<1>4. TotalLines(s) = Cardinality(B) + (IF L > 0 /\ s[L] # "nl" THEN 1 ELSE 0)
  BY <1>1 DEF TotalLines, Last
<1> HIDE DEF L, B, E
<1>5. IsFiniteSet(B) /\ Cardinality(B) \in Nat
  <2>1. IsFiniteSet(1..L)
    <3>1. 1 \in Int /\ L \in Int
      BY <1>1
    <3> QED BY <3>1, FS_Interval
  <2>2. B \in SUBSET (1..L)
    BY <1>2
  <2> QED BY <2>1, <2>2, FS_Subset, FS_CardinalityType
<1>6. L + 1 \notin B
  BY <1>1, <1>2
<1>7. IsFiniteSet(E) /\ Cardinality(E) = TotalLines(s)
  <2>1. CASE L > 0 /\ s[L] # "nl"
    <3>1. E = B \cup {L + 1} /\ TotalLines(s) = Cardinality(B) + 1
      BY <1>3, <1>4, <2>1
    <3>2. IsFiniteSet(B \cup {L + 1}) /\ Cardinality(B \cup {L + 1}) = Cardinality(B) + 1
      BY <1>5, <1>6, FS_AddElement
    <3> QED BY <3>1, <3>2
  <2>2. CASE ~(L > 0 /\ s[L] # "nl")
    <3>1. E = B /\ TotalLines(s) = Cardinality(B) + 0
      BY <1>3, <1>4, <2>2
    <3> QED BY <1>5, <3>1
  <2> QED BY <2>1, <2>2
<1>8. TotalLines(s) \in Nat
  BY <1>4, <1>5
<1>9. E \in SUBSET (1..(L + 1))
  BY <1>1, <1>2, <1>3
<1>10. \A x \in 1..L : x \in E <=> s[x] = "nl"
  BY <1>1, <1>2, <1>3
<1>11. L + 1 \in E <=> L > 0 /\ s[L] # "nl"
  BY <1>3, <1>6
<1>12. L = 0 => E = {}
  BY <1>2, <1>3
<1> QED BY <1>1, <1>2, <1>7, <1>8, <1>9, <1>10, <1>11, <1>12 DEF L, B, E

LEMMA CutsAre ==
    ASSUME NEW D, NEW s \in Seq(D)
    PROVE  /\ Len(InTurn(Len(s) + 1, LineEnds(s))) = TotalLines(s)
           /\ Cut(s, 0) = 0
           /\ \A k \in 0..TotalLines(s) : Cut(s, k) \in 0..(Len(s) + 1)
           /\ \A k \in 1..TotalLines(s) : Cut(s, k) \in LineEnds(s)
           /\ \A i, j \in 0..TotalLines(s) : Cut(s, i) < Cut(s, j) <=> i < j
           /\ \A o \in LineEnds(s) : \E k \in 1..TotalLines(s) : Cut(s, k) = o
<1> DEFINE L == Len(s)
           E == LineEnds(s)
           T == TotalLines(s)
           at == InTurn(L + 1, E)
<1>1. /\ L \in Nat /\ E \in SUBSET (1..(L + 1)) /\ T = Cardinality(E) /\ T \in Nat
  BY LineEndsAre
<1> HIDE DEF L, E, T
<1>2. L + 1 \in Nat
  BY <1>1
<1>3. Len(at) = T
  BY <1>1, <1>2, InTurnSizes
<1>4. /\ at \in Seq(1..(L + 1))
      /\ \A i, j \in 1..Len(at) : i < j => at[i] < at[j]
      /\ \A i \in 1..Len(at) : at[i] \in E /\ at[i] \in 1..(L + 1)
      /\ \A o \in 1..(L + 1) : o \in E => \E i \in 1..Len(at) : at[i] = o
  BY <1>2, InTurnIs
<1>5. \A k : Cut(s, k) = IF k = 0 THEN 0 ELSE at[k]
  BY DEF Cut, L, E
<1> HIDE DEF at
<1> DEFINE c == [k \in 0..T |-> Cut(s, k)]
<1>6. \A k \in 1..T : k \in 0..T /\ k # 0 /\ c[k] = at[k] /\ c[k] \in E /\ c[k] \in 1..(L + 1) /\ c[k] \in Int
  BY <1>1, <1>3, <1>4, <1>5
<1>7. 0 \in 0..T /\ c[0] = 0 /\ \A k \in 0..T : k = 0 \/ k \in 1..T
  BY <1>1, <1>5
<1>8. \A k \in 0..T : c[k] = Cut(s, k)
  OBVIOUS
<1> HIDE DEF c
<1>9. \A i, j \in 0..T : i < j => c[i] < c[j]
  <2> TAKE i, j \in 0..T
  <2> SUFFICES ASSUME i < j PROVE c[i] < c[j]
    OBVIOUS
  <2>1. j \in 1..T
    BY <1>1
  <2>2. CASE i = 0
    BY <1>6, <1>7, <2>1, <2>2
  <2>3. CASE i # 0
    <3>1. i \in 1..T
      BY <1>7, <2>3
    <3> QED BY <1>3, <1>4, <1>6, <2>1, <3>1
  <2> QED BY <2>2, <2>3
<1>10. \A i \in 0..T : c[i] \in 0..(L + 1) /\ c[i] \in Int
  BY <1>1, <1>6, <1>7
<1>11. \A i, j \in 0..T : c[i] < c[j] <=> i < j
  <2> TAKE i, j \in 0..T
  <2>1. (i < j => c[i] < c[j]) /\ (j < i => c[j] < c[i]) /\ (i = j => c[i] = c[j])
    BY <1>9
  <2>2. i \in Int /\ j \in Int /\ c[i] \in Int /\ c[j] \in Int
    BY <1>10
  <2> DEFINE u == c[i]
             v == c[j]
  <2> HIDE DEF u, v
  <2>3. u < v <=> i < j
    BY <2>1, <2>2 DEF u, v
  <2> QED BY <2>3 DEF u, v
<1>12. \A o \in E : \E k \in 1..T : Cut(s, k) = o
  <2> TAKE o \in E
  <2>1. PICK k \in 1..Len(at) : at[k] = o
    BY <1>1, <1>4
  <2>2. k \in 1..T /\ k \in 0..T
    BY <1>3, <1>6, <2>1
  <2> QED BY <1>6, <1>8, <2>1, <2>2
<1>13. \A k \in 1..T : Cut(s, k) \in E
  BY <1>6, <1>8
<1>14. Cut(s, 0) = 0
  BY <1>7, <1>8
<1>15. \A k \in 0..T : Cut(s, k) \in 0..(L + 1)
  BY <1>8, <1>10
<1>16. \A i, j \in 0..T : Cut(s, i) < Cut(s, j) <=> i < j
  <2> TAKE i, j \in 0..T
  <2>1. c[i] = Cut(s, i) /\ c[j] = Cut(s, j) /\ (c[i] < c[j] <=> i < j)
    BY <1>8, <1>11
  <2> QED BY <2>1
<1> QED BY Zenon, <1>3, <1>12, <1>13, <1>14, <1>15, <1>16 DEF L, E, T, at

LEMMA LinesAre ==
    ASSUME NEW D, NEW s \in Seq(D)
    PROVE  /\ LinesOf(s) \in Seq(Seq(D)) /\ Len(LinesOf(s)) = TotalLines(s)
           /\ \A k \in 1..TotalLines(s) : LinesOf(s)[k] = SubSeq(s, Cut(s, k - 1) + 1, Cut(s, k) - 1)
<1> DEFINE L == Len(s)
           T == TotalLines(s)
           line(k) == SubSeq(s, Cut(s, k - 1) + 1, Cut(s, k) - 1)
<1>1. T \in Nat /\ L \in Nat
  BY LineEndsAre
<1>2. LinesOf(s) = [k \in 1..T |-> line(k)]
  <2>1. \A k \in 1..T : k # 0 /\ (k - 1 = 0 <=> k = 1)
    BY <1>1
  <2> DEFINE at == InTurn(Len(s) + 1, LineEnds(s))
  <2>2. Len(at) = T
    BY CutsAre
  <2>3. LinesOf(s) = [k \in 1..T |-> SubSeq(s, (IF k = 1 THEN 0 ELSE at[k - 1]) + 1, at[k] - 1)]
    BY <2>2 DEF LinesOf
  <2>4. \A k \in 1..T : Cut(s, k) = at[k] /\ Cut(s, k - 1) = IF k = 1 THEN 0 ELSE at[k - 1]
    BY <2>1 DEF Cut
  <2> HIDE DEF at, T
  <2>5. \A k \in 1..T : SubSeq(s, (IF k = 1 THEN 0 ELSE at[k - 1]) + 1, at[k] - 1) = line(k)
    BY Zenon, <2>4
  <2> QED BY Zenon, <2>3, <2>5
<1>3. \A k \in 1..T : line(k) \in Seq(D)
  <2> TAKE k \in 1..T
  <2> DEFINE a == Cut(s, k - 1)
             b == Cut(s, k)
  <2>1. k \in 0..T /\ k - 1 \in 0..T /\ k - 1 < k
    BY <1>1
  <2>2. a \in 0..(L + 1) /\ b \in 0..(L + 1) /\ a < b
    BY <2>1, CutsAre
  <2> HIDE DEF a, b, L
  <2>3. a + 1 \in 1..(L + 1) /\ b - 1 \in ((a + 1) - 1)..L
    BY <1>1, <2>2
  <2>4. SubSeq(s, a + 1, b - 1) \in Seq(D)
    BY <2>3, SubSeqIs DEF L
  <2> QED BY <2>4 DEF a, b
<1> HIDE DEF line, T
<1>4. LinesOf(s) \in Seq(Seq(D)) /\ Len(LinesOf(s)) = T /\ \A k \in 1..T : LinesOf(s)[k] = line(k)
  BY <1>1, <1>2, <1>3
<1> QED BY <1>4 DEF line, T

\* The end of the last line.
LEMMA LastCut ==
    ASSUME NEW D, NEW s \in Seq(D), Len(s) > 0
    PROVE  /\ TotalLines(s) > 0
           /\ Cut(s, TotalLines(s)) = IF s[Len(s)] = "nl" THEN Len(s) ELSE Len(s) + 1
<1> DEFINE L == Len(s)
           T == TotalLines(s)
           z == IF s[L] = "nl" THEN L ELSE L + 1
           E == LineEnds(s)
<1>1. /\ L \in Nat /\ T \in Nat /\ E \in SUBSET (1..(L + 1))
      /\ \A x \in 1..L : x \in E <=> s[x] = "nl"
      /\ L + 1 \in E <=> L > 0 /\ s[L] # "nl"
  BY LineEndsAre
<1>2. /\ \A k \in 1..T : Cut(s, k) \in E
      /\ \A i, j \in 0..T : Cut(s, i) < Cut(s, j) <=> i < j
      /\ \A o \in E : \E k \in 1..T : Cut(s, k) = o
  BY CutsAre
<1>3. L > 0
  OBVIOUS
<1> HIDE DEF L, T, E
<1>4. z \in E /\ z \in Int /\ \A x \in E : x <= z
  <2>1. L \in 1..L
    BY <1>1, <1>3
  <2> QED BY <1>1, <1>3, <2>1
<1> HIDE DEF z
<1>5. PICK k \in 1..T : Cut(s, k) = z
  BY <1>2, <1>4
<1>6. T > 0 /\ T \in 1..T /\ T \in 0..T /\ k \in 0..T /\ k <= T
  BY <1>1, <1>5
<1>7. Cut(s, T) \in E /\ Cut(s, T) <= z /\ Cut(s, T) \in Int
  <2>1. Cut(s, T) \in E
    BY <1>2, <1>6
  <2> DEFINE y == Cut(s, T)
  <2> HIDE DEF y
  <2>2. y \in E
    BY <2>1 DEF y
  <2>3. y <= z /\ y \in Int
    BY <1>1, <1>4, <2>2
  <2> QED BY <2>1, <2>3 DEF y
<1>8. k < T => z < Cut(s, T)
  BY <1>2, <1>5, <1>6
<1>9. k = T
  <2> DEFINE y == Cut(s, T)
  <2> HIDE DEF y
  <2>1. y <= z /\ y \in Int /\ (k < T => z < y)
    BY <1>7, <1>8 DEF y
  <2> QED BY <1>1, <1>4, <1>6, <2>1
<1> QED BY <1>5, <1>6, <1>9 DEF T, L, z

\* The breaks before the end of a text are the ends of all its lines but the last.
Before(s) == {i \in Breaks(s) : i < Len(s)}

LEMMA BeforeIs ==
    ASSUME NEW D, NEW s \in Seq(D), Len(s) > 0
    PROVE  /\ \A x : x \in Before(s) <=> x \in LineEnds(s) /\ x # Cut(s, TotalLines(s))
           /\ IsFiniteSet(Before(s)) /\ Cardinality(Before(s)) = TotalLines(s) - 1
<1> DEFINE L == Len(s)
           T == TotalLines(s)
           E == LineEnds(s)
           z == Cut(s, T)
           B == Before(s)
<1>1. /\ L \in Nat /\ T \in Nat /\ E \in SUBSET (1..(L + 1)) /\ IsFiniteSet(E) /\ T = Cardinality(E)
      /\ \A x \in 1..L : x \in E <=> s[x] = "nl"
      /\ L + 1 \in E <=> L > 0 /\ s[L] # "nl"
      /\ \A x : x \in Breaks(s) <=> x \in 1..L /\ s[x] = "nl"
  BY LineEndsAre
<1>2. T > 0 /\ z = (IF s[L] = "nl" THEN L ELSE L + 1) /\ L > 0
  BY LastCut
<1>3. \A x : x \in B <=> x \in 1..L /\ s[x] = "nl" /\ x < L
  BY <1>1 DEF Before
<1>4. z \in E
  <2>1. T \in 1..T
    BY <1>1, <1>2
  <2> HIDE DEF T, E
  <2>2. Cut(s, T) \in E
    BY <2>1, CutsAre DEF T, E
  <2> QED BY <2>2
<1> HIDE DEF L, T, E, z, B
<1>5. \A x : x \in B <=> x \in E /\ x # z
  <2> TAKE x
  <2>1. x \in E => x \in 1..L \/ x = L + 1
    BY <1>1
  <2>2. CASE x \in 1..L
    <3>1. x # L <=> x < L
      BY <1>1, <2>2
    <3>2. x # L + 1
      BY <1>1, <2>2
    <3> QED BY <1>1, <1>2, <1>3, <2>2, <3>1, <3>2
  <2>3. CASE x \notin 1..L
    <3>1. x = L + 1 => x \in Int /\ x # L
      BY <1>1
    <3> QED BY <1>1, <1>2, <1>3, <2>1, <2>3, <3>1
  <2> QED BY <2>2, <2>3
<1>6. B = E \ {z}
  BY <1>5
<1>7. IsFiniteSet(E \ {z}) /\ Cardinality(E \ {z}) = Cardinality(E) - 1
  BY <1>1, <1>4, FS_RemoveElement
<1> QED BY <1>1, <1>5, <1>6, <1>7 DEF B, E, z, T

\* How many of them are at the end of a line or behind it.
LEMMA BehindCut ==
    ASSUME NEW D, NEW s \in Seq(D), NEW k \in 1..(TotalLines(s) - 1)
    PROVE  /\ Cut(s, k) \in Before(s)
           /\ Cardinality({j \in Before(s) : j >= Cut(s, k)}) = TotalLines(s) - k
<1> DEFINE L == Len(s)
           T == TotalLines(s)
           E == LineEnds(s)
           B == Before(s)
           c == Cut(s, k)
           lower == {x \in E : x < c}
           upper == {j \in B : j >= c}
<1>1. L \in Nat /\ T \in Nat /\ E \in SUBSET (1..(L + 1)) /\ (L = 0 => E = {}) /\ T = Cardinality(E)
  BY LineEndsAre
<1>2. L > 0
  <2>1. T # 0
    BY <1>1
  <2>2. Cardinality({}) = 0
    BY FS_EmptySet
  <2> HIDE DEF L, T, E
  <2>3. E # {}
    BY <1>1, <2>1, <2>2
  <2>4. L \in Nat /\ (L = 0 => E = {})
    BY <1>1
  <2> QED BY <2>3, <2>4
<1>3. \A x : x \in B <=> x \in E /\ x # Cut(s, T)
  BY <1>2, BeforeIs
<1>4. IsFiniteSet(B) /\ Cardinality(B) = T - 1
  BY <1>2, BeforeIs
<1>5. k \in 1..T /\ k \in 0..T /\ T \in 1..T /\ T \in 0..T /\ k < T
  BY <1>1
<1>6. c \in E /\ c < Cut(s, T) /\ Cut(s, T) \in 0..(L + 1) /\ c \in 0..(L + 1)
  BY <1>5, CutsAre
<1>7. Cardinality(lower) = k - 1
  <2> DEFINE at == InTurn(L + 1, E)
  <2>1. Len(at) = T
    BY CutsAre
  <2>2. at[k] = c
    BY <1>5 DEF Cut
  <2>3. L + 1 \in Nat
    BY <1>1
  <2> HIDE DEF c, T, L, E
  <2>4. \A j \in 1..Len(at) : Cardinality({x \in E : x < at[j]}) = j - 1
    BY <1>1, <2>3, InTurnSizes
  <2> HIDE DEF at
  <2>5. k \in 1..Len(at)
    BY <1>5, <2>1
  <2>6. Cardinality({x \in E : x < at[k]}) = k - 1
    BY <2>4, <2>5
  <2> QED BY <2>2, <2>6
<1> HIDE DEF L, T, E, B, c
<1>8. lower \cup upper = B /\ lower \cap upper = {}
  <2>1. \A x \in E : x \in Int /\ (x < c => x # Cut(s, T)) /\ (x < c \/ x >= c)
    BY <1>1, <1>6
  <2>2. \A x \in E : ~(x < c /\ x >= c)
    BY <1>1, <1>6
  <2> QED BY <1>3, <2>1, <2>2
<1>9. IsFiniteSet(lower) /\ IsFiniteSet(upper) /\ Cardinality(upper) \in Nat
  <2>1. lower \in SUBSET B /\ upper \in SUBSET B
    BY <1>8
  <2> HIDE DEF lower, upper
  <2> QED BY <1>4, <2>1, FS_Subset, FS_CardinalityType
<1> HIDE DEF lower, upper
<1>10. Cardinality(B) = Cardinality(lower) + Cardinality(upper)
  BY <1>8, <1>9, TogetherAtMost
<1>11. Cardinality(upper) = T - k
  BY <1>1, <1>4, <1>5, <1>7, <1>9, <1>10
<1>12. c \in B
  BY <1>1, <1>3, <1>6
<1> QED BY <1>11, <1>12 DEF upper, c, B, T

\* Where the walk back from the end of a text stops.
LEMMA TailCut ==
    ASSUME NEW D, NEW s \in Seq(D), NEW p \in 0..TotalLines(s), p < TotalLines(s) \/ Len(s) = 0
    PROVE  LET cut == {i \in Before(s) : Cardinality({j \in Before(s) : j >= i}) = TotalLines(s) - p}
           IN Max(cut \cup {0}) = Cut(s, p)
<1> DEFINE L == Len(s)
           T == TotalLines(s)
           B == Before(s)
           E == LineEnds(s)
           AtOrBehind(i) == Cardinality({j \in B : j >= i})
           cut == {i \in B : AtOrBehind(i) = T - p}
<1>1. L \in Nat /\ T \in Nat /\ E \in SUBSET (1..(L + 1)) /\ T = Cardinality(E) /\ (L = 0 => E = {})
  BY LineEndsAre
<1>2. \A k \in 1..(T - 1) : Cut(s, k) \in B /\ AtOrBehind(Cut(s, k)) = T - k
  BY BehindCut
<1>3. \A x \in B : \E k \in 1..(T - 1) : x = Cut(s, k)
  <2>1. CASE L = 0
    <3>1. \A x : x \notin B
      <4>1. \A x \in B : x < 0 /\ x \in 1..L
        BY <2>1 DEF Before, Breaks
      <4> QED BY <2>1, <4>1
    <3> QED BY <3>1
  <2>2. CASE L > 0
    <3> TAKE x \in B
    <3>1. x \in E /\ x # Cut(s, T)
      BY <2>2, BeforeIs
    <3>2. PICK k \in 1..T : Cut(s, k) = x
      BY <3>1, CutsAre
    <3>3. k \in 1..(T - 1)
      BY <1>1, <3>1, <3>2
    <3> QED BY <3>2, <3>3
  <2> QED BY <1>1, <2>1, <2>2
<1>4. Cut(s, p) \in 0..(L + 1) /\ Cut(s, 0) = 0
  BY CutsAre
<1>5. T = 0 => p = 0
  BY <1>1
<1>6. L = 0 => T = 0
  BY <1>1, FS_EmptySet
<1> HIDE DEF T, B, E, AtOrBehind, L
<1>7. p < T \/ p = 0
  BY <1>1, <1>5, <1>6 DEF T, L
<1>8. CASE p = 0
  <2>1. cut = {}
    <3> SUFFICES ASSUME NEW x \in B, AtOrBehind(x) = T - p PROVE FALSE
      OBVIOUS
    <3>1. PICK k \in 1..(T - 1) : x = Cut(s, k)
      BY <1>3
    <3>2. AtOrBehind(x) = T - k
      BY <1>2, <3>1
    <3> QED BY <1>1, <1>8, <3>1, <3>2
  <2>2. Max({0}) = 0
    <3>1. {0} \in SUBSET Int /\ 0 \in {0} /\ \A k \in {0} : k <= 0
      OBVIOUS
    <3> QED BY <3>1, MaxIs
  <2>3. cut \cup {0} = {0}
    BY <2>1
  <2>4. Max(cut \cup {0}) = Cut(s, p)
    BY Zenon, <1>4, <1>8, <2>2, <2>3
  <2> QED BY <2>4 DEF B, T, AtOrBehind
<1>9. CASE p # 0
  <2> DEFINE c == Cut(s, p)
  <2>1. p \in 1..(T - 1)
    BY <1>1, <1>7, <1>9 DEF T
  <2>2. c \in B /\ AtOrBehind(c) = T - p
    BY <1>2, <2>1
  <2> HIDE DEF c
  <2>3. cut = {c}
    <3>1. ASSUME NEW x \in B, AtOrBehind(x) = T - p PROVE x = c
      <4>1. PICK k \in 1..(T - 1) : x = Cut(s, k)
        BY <1>3
      <4>2. AtOrBehind(x) = T - k
        BY <1>2, <4>1
      <4>3. k = p
        BY <1>1, <2>1, <3>1, <4>1, <4>2
      <4> QED BY <4>1, <4>3 DEF c
    <3> QED BY <2>2, <3>1
  <2>4. cut \cup {0} = {c, 0}
    BY <2>3
  <2>5. Max({c, 0}) = c
    <3>1. c \in Int /\ 0 <= c
      BY <1>1, <1>4 DEF c
    <3>2. {c, 0} \in SUBSET Int /\ c \in {c, 0} /\ \A k \in {c, 0} : k <= c
      BY <3>1
    <3> QED BY <3>2, MaxIs
  <2>6. Max(cut \cup {0}) = c
    BY Zenon, <2>4, <2>5
  <2> QED BY <2>6 DEF B, T, AtOrBehind, c
<1> QED BY <1>8, <1>9

\* What is left of a text behind its first p lines, without the breaks at its end.
TailOf(s, a, e) ==
    /\ e \in a..Len(s)
    /\ e > a => s[e] # "nl"
    /\ \A x \in (e + 1)..Len(s) : s[x] = "nl"

LEMMA InkEnds ==
    ASSUME NEW D, NEW s \in Seq(D), NEW a \in 0..Len(s)
    PROVE  LET selected == SubSeq(s, 1 + a, Len(s))
               ink == {i \in 1..Len(selected) : selected[i] # "nl"}
           IN \E e : TailOf(s, a, e) /\ SubSeq(selected, 1, Max(ink \cup {0})) = SubSeq(s, a + 1, e)
<1> DEFINE L == Len(s)
           v == SubSeq(s, 1 + a, L)
           o == L - a
           ink == {i \in 1..Len(v) : v[i] # "nl"}
           S == ink \cup {0}
<1>1. L \in Nat /\ a \in Nat /\ a <= L /\ o \in Nat
  BY LenProperties
<1>2. v \in Seq(D) /\ Len(v) = o /\ \A i \in 1..o : v[i] = s[a + i]
  <2>1. 1 + a \in 1..(L + 1) /\ L \in ((1 + a) - 1)..L /\ (L - (1 + a)) + 1 = o /\ (1 + a) - 1 = a
    BY <1>1
  <2>2. /\ v \in Seq(D) /\ Len(v) = (L - (1 + a)) + 1
        /\ \A i \in 1..((L - (1 + a)) + 1) : v[i] = s[((1 + a) - 1) + i]
    BY <2>1, SubSeqIs
  <2> HIDE DEF v, o, L
  <2> QED BY Zenon, <2>1, <2>2
<1> HIDE DEF v
<1>3. S \in SUBSET Int /\ S # {} /\ \A k \in S : k <= o /\ 0 <= k
  <2> HIDE DEF o
  <2> QED BY <1>1, <1>2
<1>4. \A k \in S : k = 0 \/ (k \in 1..o /\ v[k] # "nl")
  BY <1>2
<1>5. \A k \in 1..o : v[k] # "nl" => k \in S
  BY <1>2
<1>6. 0 \in S
  OBVIOUS
<1> HIDE DEF S
<1>7. PICK m \in S : \A k \in S : k <= m
  <2>1. o \in Int
    BY <1>1
  <2> QED BY <1>3, <2>1, GreatestExists
<1>8. Max(S) = m
  BY <1>3, <1>7, MaxIs
<1> DEFINE e == a + m
<1>9. m \in 0..o
  BY <1>1, <1>3, <1>7
<1>10. TailOf(s, a, e)
  <2>1. e \in a..L
    BY <1>1, <1>9
  <2>2. e > a => s[e] # "nl"
    <3> SUFFICES ASSUME e > a PROVE s[e] # "nl"
      OBVIOUS
    <3>1. m \in 1..o
      BY <1>1, <1>9
    <3>2. v[m] # "nl"
      BY <1>1, <1>4, <1>7, <3>1
    <3> QED BY <1>2, <3>1, <3>2
  <2>3. \A x \in (e + 1)..L : s[x] = "nl"
    <3> TAKE x \in (e + 1)..L
    <3> DEFINE k == x - a
    <3>1. k \in 1..o /\ a + k = x /\ ~(k <= m)
      BY <1>1, <1>9
    <3> HIDE DEF k
    <3>2. v[k] = "nl"
      BY <1>5, <1>7, <3>1
    <3> QED BY <1>2, <3>1, <3>2
  <2> QED BY <2>1, <2>2, <2>3 DEF TailOf
<1>11. SubSeq(v, 1, m) = SubSeq(s, a + 1, e)
  <2> DEFINE y == SubSeq(s, a + 1, e)
             x == Lead(v, m)
  <2>1. x \in Seq(D) /\ Len(x) = m /\ \A i \in 1..m : x[i] = v[i]
    BY <1>2, <1>9, LeadIs
  <2>2. a + 1 \in 1..(L + 1) /\ e \in ((a + 1) - 1)..L /\ (e - (a + 1)) + 1 = m /\ (a + 1) - 1 = a
    BY <1>1, <1>9
  <2>3. y \in Seq(D) /\ Len(y) = m /\ \A i \in 1..m : y[i] = s[a + i]
    <3>1. /\ y \in Seq(D) /\ Len(y) = (e - (a + 1)) + 1
          /\ \A i \in 1..((e - (a + 1)) + 1) : y[i] = s[((a + 1) - 1) + i]
      BY <2>2, SubSeqIs
    <3> HIDE DEF y, e
    <3> QED BY Zenon, <2>2, <3>1
  <2>4. \A i \in 1..m : i \in 1..o
    BY <1>1, <1>9
  <2> HIDE DEF x, y, e, o
  <2>5. \A i \in 1..m : x[i] = y[i]
    BY <1>2, <2>1, <2>3, <2>4
  <2>6. x = y
    BY <2>1, <2>3, <2>5
  <2> QED BY <2>6 DEF x, y, Lead
<1> HIDE DEF e
<1>12. SubSeq(v, 1, Max(S)) = SubSeq(s, a + 1, e)
  BY Zenon, <1>8, <1>11
<1> QED BY <1>10, <1>12 DEF v, S, L

\* A part of a part is a part of the whole.
LEMMA SubSeqInside ==
    ASSUME NEW D, NEW s \in Seq(D), NEW a \in 0..Len(s), NEW e \in a..Len(s),
           NEW x \in 0..(e - a), NEW y \in x..(e - a)
    PROVE  SubSeq(SubSeq(s, a + 1, e), x + 1, y) = SubSeq(s, (a + x) + 1, a + y)
<1> DEFINE L == Len(s)
           m == e - a
           o == y - x
           v == SubSeq(s, a + 1, e)
           u == SubSeq(v, x + 1, y)
           w == SubSeq(s, (a + x) + 1, a + y)
<1>1. /\ L \in Nat /\ a \in Nat /\ e \in Nat /\ a <= e /\ e <= L
      /\ x \in Nat /\ y \in Nat /\ x <= y /\ y <= m /\ m \in Nat /\ o \in Nat
  BY LenProperties
<1>2. v \in Seq(D) /\ Len(v) = m /\ \A i \in 1..m : v[i] = s[a + i]
  <2>1. a + 1 \in 1..(L + 1) /\ e \in ((a + 1) - 1)..L /\ (e - (a + 1)) + 1 = m /\ (a + 1) - 1 = a
    BY <1>1
  <2>2. /\ v \in Seq(D) /\ Len(v) = (e - (a + 1)) + 1
        /\ \A i \in 1..((e - (a + 1)) + 1) : v[i] = s[((a + 1) - 1) + i]
    BY <2>1, SubSeqIs
  <2> HIDE DEF v, m
  <2> QED BY Zenon, <2>1, <2>2
<1> HIDE DEF v
<1>3. u \in Seq(D) /\ Len(u) = o /\ \A i \in 1..o : u[i] = v[x + i]
  <2>1. x + 1 \in 1..(m + 1) /\ y \in ((x + 1) - 1)..m /\ (y - (x + 1)) + 1 = o /\ (x + 1) - 1 = x
    BY <1>1
  <2>2. /\ u \in Seq(D) /\ Len(u) = (y - (x + 1)) + 1
        /\ \A i \in 1..((y - (x + 1)) + 1) : u[i] = v[((x + 1) - 1) + i]
    BY <1>2, <2>1, SubSeqIs
  <2> HIDE DEF u, o
  <2> QED BY Zenon, <2>1, <2>2
<1>4. w \in Seq(D) /\ Len(w) = o /\ \A i \in 1..o : w[i] = s[(a + x) + i]
  <2> DEFINE c == a + x
             f == a + y
  <2>1. c + 1 \in 1..(L + 1) /\ f \in ((c + 1) - 1)..L /\ (f - (c + 1)) + 1 = o /\ (c + 1) - 1 = c
    BY <1>1
  <2> HIDE DEF c, f, o
  <2>2. /\ SubSeq(s, c + 1, f) \in Seq(D) /\ Len(SubSeq(s, c + 1, f)) = (f - (c + 1)) + 1
        /\ \A i \in 1..((f - (c + 1)) + 1) : SubSeq(s, c + 1, f)[i] = s[((c + 1) - 1) + i]
    BY <2>1, SubSeqIs
  <2>3. w = SubSeq(s, c + 1, f)
    BY DEF c, f
  <2> HIDE DEF w
  <2>4. w \in Seq(D) /\ Len(w) = o /\ \A i \in 1..o : w[i] = s[c + i]
    BY Zenon, <2>1, <2>2, <2>3
  <2> QED BY <2>4 DEF c
<1> HIDE DEF u, w
<1>5. \A i \in 1..o : x + i \in 1..m /\ a + (x + i) = (a + x) + i
  BY <1>1
<1> HIDE DEF o, m
<1>6. \A i \in 1..o : u[i] = w[i]
  BY <1>2, <1>3, <1>4, <1>5
<1>7. u = w
  BY <1>3, <1>4, <1>6
<1> QED BY <1>7 DEF u, w, v

\* The lines of a tail end where the text's lines do.
LEMMA TailEnds ==
    ASSUME NEW D, NEW s \in Seq(D), NEW a \in 0..Len(s), NEW e, TailOf(s, a, e)
    PROVE  LET t == SubSeq(s, a + 1, e)
               z == IF e > a THEN e + 1 ELSE a
           IN /\ t \in Seq(D) /\ Len(t) = e - a
              /\ \A x \in 1..((e - a) + 1) : x \in LineEnds(t) <=> a + x \in LineEnds(s) /\ a + x <= z
              /\ z # a => z \in LineEnds(s)
<1> DEFINE L == Len(s)
           t == SubSeq(s, a + 1, e)
           m == e - a
           z == IF e > a THEN e + 1 ELSE a
           E == LineEnds(s)
           F == LineEnds(t)
<1>1. L \in Nat /\ a \in Nat /\ e \in Nat /\ a <= e /\ e <= L /\ m \in Nat
  BY LenProperties DEF TailOf
<1>2. t \in Seq(D) /\ Len(t) = m /\ \A i \in 1..m : t[i] = s[a + i]
  <2>1. a + 1 \in 1..(L + 1) /\ e \in ((a + 1) - 1)..L /\ (e - (a + 1)) + 1 = m /\ (a + 1) - 1 = a
    BY <1>1
  <2>2. /\ t \in Seq(D) /\ Len(t) = (e - (a + 1)) + 1
        /\ \A i \in 1..((e - (a + 1)) + 1) : t[i] = s[((a + 1) - 1) + i]
    BY <2>1, SubSeqIs
  <2> HIDE DEF t, m
  <2> QED BY Zenon, <2>1, <2>2
<1> HIDE DEF t
<1>3. /\ \A x \in 1..L : x \in E <=> s[x] = "nl"
      /\ L + 1 \in E <=> L > 0 /\ s[L] # "nl"
  BY LineEndsAre
<1>4. /\ \A x \in 1..m : x \in F <=> t[x] = "nl"
      /\ m + 1 \in F <=> m > 0 /\ t[m] # "nl"
      /\ m = 0 => F = {}
  BY <1>2, LineEndsAre
<1>5. (e > a => s[e] # "nl") /\ \A x \in (e + 1)..L : s[x] = "nl"
  BY DEF TailOf
<1> HIDE DEF E, F
<1>6. e > a => e + 1 \in E
  <2> SUFFICES ASSUME e > a PROVE e + 1 \in E
    OBVIOUS
  <2>1. CASE e = L
    BY <1>1, <1>3, <1>5, <2>1
  <2>2. CASE e # L
    <3>1. e + 1 \in 1..L /\ e + 1 \in (e + 1)..L
      BY <1>1, <2>2
    <3> QED BY <1>3, <1>5, <3>1
  <2> QED BY <2>1, <2>2
<1>7. \A x \in 1..(m + 1) : x \in F <=> a + x \in E /\ a + x <= z
  <2> TAKE x \in 1..(m + 1)
  <2>1. CASE e > a
    <3>1. z = e + 1 /\ m > 0 /\ m \in 1..m /\ a + m = e /\ a + (m + 1) = e + 1
      BY <1>1, <2>1
    <3>2. m + 1 \in F
      BY <1>2, <1>4, <1>5, <2>1, <3>1
    <3>3. CASE x \in 1..m
      <4>1. a + x \in 1..L /\ a + x <= e + 1
        BY <1>1, <3>3
      <4>2. t[x] = s[a + x]
        BY <1>2, <3>3
      <4> QED BY <1>3, <1>4, <3>1, <3>3, <4>1, <4>2
    <3>4. CASE x \notin 1..m
      <4>1. x = m + 1
        BY <1>1, <3>4
      <4>2. a + x = e + 1 /\ e + 1 <= e + 1
        BY <1>1, <3>1, <4>1
      <4> QED BY <1>6, <2>1, <3>1, <3>2, <4>1, <4>2
    <3> QED BY <3>3, <3>4
  <2>2. CASE ~(e > a)
    <3>1. m = 0 /\ z = a /\ ~(a + x <= z)
      BY <1>1, <2>2
    <3> QED BY <1>4, <3>1
  <2> QED BY <2>1, <2>2
<1>8. z # a => z \in E
  BY <1>6
<1> QED BY <1>2, <1>7, <1>8 DEF t, z, m, E, F

\* The lines of a tail are the lines behind its start, as far as they are not blank to the end.
TailLinesOK(s, p, t, q) ==
    /\ q \in 0..(TotalLines(s) - p) /\ TotalLines(t) = q
    /\ \A k \in 1..q : LinesOf(t)[k] = LinesOf(s)[p + k]
    /\ \A k \in (q + 1)..(TotalLines(s) - p) : LinesOf(s)[p + k] = <<>>

LEMMA TailCuts ==
    ASSUME NEW D, NEW s \in Seq(D), NEW p \in 0..TotalLines(s), Cut(s, p) \in 0..Len(s),
           NEW e, TailOf(s, Cut(s, p), e)
    PROVE  LET a == Cut(s, p)
               t == SubSeq(s, a + 1, e)
               z == IF e > a THEN e + 1 ELSE a
           IN \E q \in 0..(TotalLines(s) - p) :
                 /\ TotalLines(t) = q /\ Cut(s, p + q) = z
                 /\ \A k \in 0..q : a + Cut(t, k) = Cut(s, p + k)
<1> DEFINE L == Len(s)
           T == TotalLines(s)
           E == LineEnds(s)
           a == Cut(s, p)
           t == SubSeq(s, a + 1, e)
           m == e - a
           z == IF e > a THEN e + 1 ELSE a
           r == T - p
           F == LineEnds(t)
<1>1. L \in Nat /\ T \in Nat /\ E \in SUBSET (1..(L + 1))
  BY LineEndsAre
<1>2. /\ \A k \in 0..T : Cut(s, k) \in 0..(L + 1)
      /\ \A k \in 1..T : Cut(s, k) \in E
      /\ \A i, j \in 0..T : Cut(s, i) < Cut(s, j) <=> i < j
      /\ \A o \in E : \E k \in 1..T : Cut(s, k) = o
  BY CutsAre
<1>3. a \in Nat /\ e \in Nat /\ a <= e /\ e <= L /\ m \in Nat /\ r \in Nat
  <2>1. e \in a..L /\ a \in 0..L
    BY DEF TailOf
  <2> HIDE DEF a
  <2> QED BY <1>1, <2>1
<1>4. /\ t \in Seq(D) /\ Len(t) = m
      /\ \A x \in 1..(m + 1) : x \in F <=> a + x \in E /\ a + x <= z
      /\ z # a => z \in E
  BY TailEnds
<1>5. \A k \in 0..T : a < Cut(s, k) <=> p < k
  BY <1>2
<1>6. p \in 0..T /\ Cut(s, p) = a
  OBVIOUS
<1> HIDE DEF a, t, E, F, T
<1>7. z \in Nat /\ a <= z /\ z <= (a + m) + 1 /\ z <= L + 1
  BY <1>3
<1> HIDE DEF m
\* The line that ends the tail.
<1>8. PICK q \in 0..r : Cut(s, p + q) = z
  <2>1. CASE z = a
    <3>1. p + 0 = p /\ 0 \in 0..r
      BY <1>3, <1>6, <1>1
    <3> QED BY <1>6, <2>1, <3>1
  <2>2. CASE z # a
    <3>1. PICK k \in 1..T : Cut(s, k) = z
      BY <1>2, <1>4, <2>2
    <3>2. a < z
      BY <1>3, <1>7, <2>2
    <3>3. k \in 0..T
      BY <1>1, <3>1
    <3>4. p < k
      BY <1>5, <3>1, <3>2, <3>3
    <3>5. k - p \in 0..r /\ p + (k - p) = k
      BY <1>1, <1>6, <3>3, <3>4
    <3> QED BY <3>1, <3>5
  <2> QED BY <2>1, <2>2
<1>9. q \in Nat /\ p \in Nat /\ q <= r /\ p + q \in 0..T /\ \A k \in 0..q : p + k \in 0..T /\ (k < q <=> p + k < p + q)
  BY <1>1, <1>3, <1>6
<1>10. \A k \in 0..T : z < Cut(s, k) <=> p + q < k
  BY <1>2, <1>8, <1>9
<1> HIDE DEF r, z
<1> DEFINE u == InTurn(m + 1, F)
           n == Len(u)
           v == [k \in 1..q |-> Cut(s, p + k) - a]
<1>11. /\ u \in Seq(1..(m + 1))
       /\ \A i, j \in 1..n : i < j => u[i] < u[j]
       /\ \A i \in 1..n : u[i] \in F /\ u[i] \in 1..(m + 1)
       /\ \A o \in 1..(m + 1) : o \in F => \E i \in 1..n : u[i] = o
  <2>1. m + 1 \in Nat
    BY <1>3
  <2> QED BY <2>1, InTurnIs
<1>12. TotalLines(t) = n /\ \A k \in 1..n : Cut(t, k) = u[k]
  <2>1. Len(InTurn(Len(t) + 1, LineEnds(t))) = TotalLines(t) /\ TotalLines(t) \in Nat
    BY <1>4, CutsAre, LineEndsAre
  <2>2. TotalLines(t) = n /\ n \in Nat
    BY <1>4, <2>1 DEF F
  <2>3. \A k \in 1..n : k # 0
    BY <2>2
  <2> QED BY <1>4, <2>2, <2>3 DEF Cut, F
<1>13. n \in Nat
  <2>1. u \in Seq(1..(m + 1))
    BY <1>11
  <2> HIDE DEF u
  <2> QED BY <2>1, LenProperties
<1> HIDE DEF u, n
<1>14. \A k \in 1..q : /\ p + k \in 1..T /\ p + k \in 0..T /\ p < p + k /\ p + k <= p + q
  BY <1>1, <1>6, <1>9
<1>15. \A k \in 1..q : Cut(s, p + k) \in Int /\ a < Cut(s, p + k) /\ Cut(s, p + k) <= z /\ Cut(s, p + k) \in E
  <2> TAKE k \in 1..q
  <2>1. p + k \in 1..T /\ p + k \in 0..T /\ p < p + k /\ ~(p + q < p + k)
    BY <1>9, <1>14
  <2>2. Cut(s, p + k) \in 0..(L + 1) /\ a < Cut(s, p + k) /\ ~(z < Cut(s, p + k)) /\ Cut(s, p + k) \in E
    BY <1>2, <1>5, <1>10, <2>1
  <2> DEFINE y == Cut(s, p + k)
  <2> HIDE DEF y
  <2>3. y \in 0..(L + 1) /\ ~(z < y)
    BY <2>2 DEF y
  <2>4. y \in Int /\ y <= z
    BY <1>7, <2>3
  <2> QED BY <2>2, <2>4 DEF y
<1>16. \A k \in 1..q : v[k] \in 1..(m + 1) /\ a + v[k] = Cut(s, p + k) /\ v[k] \in F
  <2> TAKE k \in 1..q
  <2> DEFINE y == Cut(s, p + k)
  <2>1. v[k] = y - a /\ y \in Int /\ a < y /\ y <= z /\ y \in E
    BY <1>15
  <2> HIDE DEF y, v
  <2>2. v[k] \in 1..(m + 1) /\ a + v[k] = y
    BY <1>3, <1>7, <2>1
  <2>3. v[k] \in F
    BY <1>4, <2>1, <2>2
  <2> QED BY <2>2, <2>3 DEF y
<1> HIDE DEF v
<1>17. \A i, j \in 1..q : i < j => v[i] < v[j]
  <2> TAKE i, j \in 1..q
  <2> SUFFICES ASSUME i < j PROVE v[i] < v[j]
    OBVIOUS
  <2>1. p + i \in 0..T /\ p + j \in 0..T /\ p + i < p + j
    BY <1>9, <1>14
  <2>2. Cut(s, p + i) < Cut(s, p + j)
    BY <1>2, <2>1
  <2>3. a + v[i] < a + v[j] /\ v[i] \in Int /\ v[j] \in Int
    BY <1>16, <2>2
  <2> QED BY <1>3, <2>3
<1>18. \A i \in 1..n : \E k \in 1..q : v[k] = u[i]
  <2> TAKE i \in 1..n
  <2> DEFINE y == u[i]
  <2>1. y \in F /\ y \in 1..(m + 1)
    BY <1>11
  <2> HIDE DEF y
  <2>2. a + y \in E /\ a + y <= z
    BY <1>4, <2>1
  <2>3. PICK j \in 1..T : Cut(s, j) = a + y
    BY <1>2, <2>2
  <2>4. j \in 0..T /\ a < a + y /\ ~(z < a + y)
    BY <1>1, <1>3, <1>7, <2>1, <2>2, <2>3
  <2>5. p < j /\ ~(p + q < j)
    BY <1>5, <1>10, <2>3, <2>4
  <2>6. j - p \in 1..q /\ p + (j - p) = j
    BY <1>1, <1>9, <2>4, <2>5
  <2>7. a + v[j - p] = a + y /\ v[j - p] \in Int
    BY <1>16, <2>3, <2>6
  <2>8. v[j - p] = y
    BY <1>3, <2>1, <2>7
  <2> QED BY <2>6, <2>8 DEF y
<1>19. \A k \in 1..q : \E i \in 1..n : u[i] = v[k]
  BY <1>11, <1>16
<1>20. SameCells(n, u, q, v)
  <2>1. \A i \in 1..n : u[i] \in Int
    BY <1>11
  <2>2. \A k \in 1..q : v[k] \in Int
    BY <1>16
  <2>3. \A i, j \in 1..n : i < j => u[i] < u[j]
    BY <1>11
  <2> QED BY Zenon, <1>9, <1>13, <1>17, <1>18, <1>19, <2>1, <2>2, <2>3 DEF SameCells
<1>21. n = q /\ \A i \in 1..n : u[i] = v[i]
  BY <1>20, OneOrder
<1>22. \A k \in 0..q : a + Cut(t, k) = Cut(s, p + k)
  <2> TAKE k \in 0..q
  <2>1. CASE k = 0
    <3>1. Cut(t, 0) = 0 /\ p + 0 = p /\ a + 0 = a
      BY <1>3, <1>9 DEF Cut
    <3> QED BY <1>6, <2>1, <3>1
  <2>2. CASE k # 0
    <3>1. k \in 1..q /\ k \in 1..n
      BY <1>9, <1>21, <2>2
    <3> QED BY <1>12, <1>16, <1>21, <3>1
  <2> QED BY <2>1, <2>2
<1> QED BY <1>8, <1>12, <1>21, <1>22 DEF r, z, t, a, T, m

LEMMA TailLines ==
    ASSUME NEW D, NEW s \in Seq(D), NEW p \in 0..TotalLines(s), Cut(s, p) \in 0..Len(s),
           NEW e, TailOf(s, Cut(s, p), e)
    PROVE  \E q : TailLinesOK(s, p, SubSeq(s, Cut(s, p) + 1, e), q)
<1> DEFINE L == Len(s)
           T == TotalLines(s)
           E == LineEnds(s)
           a == Cut(s, p)
           t == SubSeq(s, a + 1, e)
           m == e - a
           z == IF e > a THEN e + 1 ELSE a
<1>1. L \in Nat /\ T \in Nat /\ E \in SUBSET (1..(L + 1)) /\ \A x \in 1..L : x \in E <=> s[x] = "nl"
  BY LineEndsAre
<1>2. /\ \A k \in 0..T : Cut(s, k) \in 0..(L + 1)
      /\ \A i, j \in 0..T : Cut(s, i) < Cut(s, j) <=> i < j
      /\ \A o \in E : \E k \in 1..T : Cut(s, k) = o
  BY CutsAre
<1>3. a \in 0..L /\ a \in Nat /\ e \in Nat /\ a <= e /\ e <= L /\ m \in Nat /\ \A x \in (e + 1)..L : s[x] = "nl"
  <2>1. e \in a..L /\ a \in 0..L /\ \A x \in (e + 1)..L : s[x] = "nl"
    BY DEF TailOf
  <2> HIDE DEF a
  <2> QED BY <1>1, <2>1
<1>4. PICK q \in 0..(T - p) :
         /\ TotalLines(t) = q /\ Cut(s, p + q) = z
         /\ \A k \in 0..q : a + Cut(t, k) = Cut(s, p + k)
  BY TailCuts
<1>5. t \in Seq(D) /\ Len(t) = m
  BY TailEnds
<1>6. /\ \A k \in 1..T : LinesOf(s)[k] = SubSeq(s, Cut(s, k - 1) + 1, Cut(s, k) - 1)
  BY LinesAre
<1>7. /\ \A k \in 1..q : LinesOf(t)[k] = SubSeq(t, Cut(t, k - 1) + 1, Cut(t, k) - 1)
      /\ \A k \in 0..q : Cut(t, k) \in 0..(m + 1)
      /\ \A i, j \in 0..q : Cut(t, i) < Cut(t, j) <=> i < j
  <2> DEFINE w == t
  <2> HIDE DEF w
  <2>1. w \in Seq(D) /\ Len(w) = m /\ TotalLines(w) = q
    BY <1>4, <1>5 DEF w
  <2>2. \A k \in 1..TotalLines(w) : LinesOf(w)[k] = SubSeq(w, Cut(w, k - 1) + 1, Cut(w, k) - 1)
    BY <2>1, LinesAre
  <2>3. /\ \A k \in 0..TotalLines(w) : Cut(w, k) \in 0..(Len(w) + 1)
        /\ \A i, j \in 0..TotalLines(w) : Cut(w, i) < Cut(w, j) <=> i < j
    BY <2>1, CutsAre
  <2> QED BY Zenon, <2>1, <2>2, <2>3 DEF w
<1>8. p \in Nat /\ q \in Nat /\ q <= T - p
  BY <1>1, <1>4
<1>9. \A k \in 1..q : LinesOf(t)[k] = LinesOf(s)[p + k]
  <2> TAKE k \in 1..q
  <2> DEFINE x == Cut(t, k - 1)
             y == Cut(t, k)
             w == y - 1
  <2>1. k - 1 \in 0..q /\ k \in 0..q /\ k - 1 < k /\ p + k \in 1..T /\ (p + k) - 1 = p + (k - 1)
    BY <1>1, <1>8
  <2>2. x \in 0..(m + 1) /\ y \in 0..(m + 1) /\ x < y
    BY <1>7, <2>1
  <2>3. a + x = Cut(s, (p + k) - 1) /\ a + y = Cut(s, p + k)
    BY <1>4, <2>1
  <2>4. LinesOf(t)[k] = SubSeq(t, x + 1, w) /\ LinesOf(s)[p + k] = SubSeq(s, (a + x) + 1, (a + y) - 1)
    BY <1>6, <1>7, <2>1, <2>3
  <2> HIDE DEF x, y, a, L
  <2>5. x \in 0..(e - a) /\ w \in x..(e - a) /\ a + w = (a + y) - 1 /\ e \in a..L
    BY <1>3, <2>2
  <2> HIDE DEF w
  <2>6. SubSeq(SubSeq(s, a + 1, e), x + 1, w) = SubSeq(s, (a + x) + 1, a + w)
    BY <1>3, <2>5, SubSeqInside DEF L
  <2> QED BY Zenon, <2>4, <2>5, <2>6
<1>10. \A k \in (q + 1)..(T - p) : LinesOf(s)[p + k] = <<>>
  <2> TAKE k \in (q + 1)..(T - p)
  <2> DEFINE i == (p + k) - 1
             j == p + k
             x == Cut(s, i)
             y == Cut(s, j)
  <2>1. /\ j \in 1..T /\ i \in 0..T /\ j \in 0..T /\ p + q \in 0..T /\ i < j /\ ~(i < p + q)
        /\ \A n \in 0..T : ~(i < n /\ n < j) /\ j - 1 = i
    BY <1>1, <1>8
  <2>2. LinesOf(s)[j] = SubSeq(s, x + 1, y - 1)
    BY <1>6, <2>1
  <2>3. x \in 0..(L + 1) /\ y \in 0..(L + 1) /\ x < y /\ ~(x < z)
    BY <1>2, <1>4, <2>1
  <2>4. z \in Nat /\ e <= z
    BY <1>3
  <2> HIDE DEF x, y, z, E, L
  <2>5. ~(x + 1 < y)
    <3> SUFFICES ASSUME x + 1 < y PROVE FALSE
      OBVIOUS
    <3>1. x + 1 \in 1..L /\ x + 1 \in (e + 1)..L
      BY <1>1, <1>3, <2>3, <2>4
    <3>2. x + 1 \in E
      BY <1>1, <1>3, <3>1
    <3>3. PICK n \in 1..T : Cut(s, n) = x + 1
      BY <1>2, <3>2
    <3>4. n \in 0..T /\ x < x + 1
      BY <1>1, <2>3
    <3>5. i < n /\ n < j
      BY <1>2, <2>1, <3>3, <3>4 DEF x, y
    <3> QED BY <2>1, <3>4, <3>5
  <2>6. x + 1 \in Int /\ y - 1 \in Int /\ y - 1 < x + 1
    BY <1>1, <2>3, <2>5
  <2>7. SubSeq(s, x + 1, y - 1) = <<>>
    BY <2>6, SubSeqEmpty
  <2> QED BY <2>2, <2>7
<1>11. TailLinesOK(s, p, t, q)
  BY <1>4, <1>9, <1>10 DEF TailLinesOK
<1> QED BY <1>11 DEF t, a

LEMMA TailsAreExact ==
    ASSUME NEW D, NEW s \in Seq(D), NEW count \in Nat \ {0}
    PROVE  TailExact(s, count)
<1> DEFINE T == TotalLines(s)
           L == Len(s)
           all == LinesOf(s)
           r == RenderTail(s, count)
           show == Min({count, T})
           p == T - show
           a == Cut(s, p)
           cut == {i \in Before(s) : Cardinality({j \in Before(s) : j >= i}) = T - p}
           asked == [k \in 1..(r.last - r.first + 1) |-> all[r.first + k - 1]]
           shown == LinesOf(r.text)
<1>1. T \in Nat /\ L \in Nat
  BY LineEndsAre
<1>2. show = (IF count <= T THEN count ELSE T)
  BY <1>1, MinOfTwo
<1>3. p \in 0..T /\ show \in 0..T /\ T - p = show /\ (T > 0 => p < T)
  <2> HIDE DEF show, T
  <2> QED BY <1>1, <1>2
<1>4. L > 0 => T > 0
  BY LastCut
<1>5. p < T \/ L = 0
  BY <1>1, <1>3, <1>4
<1>6. Max(cut \cup {0}) = a
  BY <1>3, <1>5, TailCut
<1>7. a \in 0..L
  <2>1. CASE L = 0
    <3>1. LineEnds(s) = {} /\ T = Cardinality(LineEnds(s))
      BY <2>1, LineEndsAre
    <3>2. T = 0
      BY <3>1, FS_EmptySet
    <3>3. p = 0
      BY <1>3, <3>2
    <3> QED BY <1>1, <3>3 DEF Cut
  <2>2. CASE L # 0
    <3>1. p < T /\ L > 0 /\ T \in 0..T
      BY <1>1, <1>5, <2>2
    <3>2. a < Cut(s, T) /\ a \in 0..(L + 1) /\ Cut(s, T) \in 0..(L + 1)
      BY <1>3, <3>1, CutsAre
    <3> HIDE DEF a, L
    <3> QED BY <1>1, <3>2
  <2> QED BY <2>1, <2>2
<1> DEFINE selected == SubSeq(s, 1 + a, L)
           ink == {i \in 1..Len(selected) : selected[i] # "nl"}
<1>8. r.text = SubSeq(selected, 1, Max(ink \cup {0})) /\ r.first = T - show + 1 /\ r.last = T
  <2>1. {i \in Before(s) : Cardinality({j \in Before(s) : j >= i}) = show} = cut
    BY <1>3
  <2> HIDE DEF a, cut, T, show, L
  <2> QED BY Zenon, <1>6, <2>1 DEF RenderTail, Before, T, show, L
<1>9. PICK e : TailOf(s, a, e) /\ SubSeq(selected, 1, Max(ink \cup {0})) = SubSeq(s, a + 1, e)
  BY <1>7, InkEnds
<1> DEFINE t == SubSeq(s, a + 1, e)
<1>10. r.text = t /\ t \in Seq(D)
  BY <1>7, <1>8, <1>9, TailEnds
<1>11. PICK q : TailLinesOK(s, p, t, q)
  BY <1>3, <1>7, <1>9, TailLines
<1> HIDE DEF a, t, selected, ink, cut, r, show
<1>12. all \in Seq(Seq(D)) /\ Len(all) = T
  BY LinesAre
<1>13. shown \in Seq(Seq(D)) /\ Len(shown) = q /\ q \in 0..show /\ q \in Nat
  <2>1. LinesOf(t) \in Seq(Seq(D)) /\ Len(LinesOf(t)) = TotalLines(t)
    BY <1>10, LinesAre
  <2>2. q \in 0..show /\ TotalLines(t) = q
    BY <1>3, <1>11 DEF TailLinesOK
  <2>3. q \in Nat
    BY <1>3, <2>2
  <2> QED BY <1>10, <2>1, <2>2, <2>3
<1>14. asked = [k \in 1..show |-> all[p + k]]
  <2>1. r.last - r.first + 1 = show /\ \A k \in 1..show : r.first + k - 1 = p + k
    <3> DEFINE f == r.first
               l == r.last
    <3> HIDE DEF f, l, T, show
    <3>1. f = T - show + 1 /\ l = T
      BY <1>8 DEF f, l
    <3>2. l - f + 1 = show /\ \A k \in 1..show : f + k - 1 = p + k
      BY <1>1, <1>3, <3>1
    <3> QED BY <3>2 DEF f, l
  <2> HIDE DEF p, all
  <2> QED BY <2>1
<1> HIDE DEF T, L, p, all, shown, asked
<1>15. \A k \in 1..show : p + k \in 1..T /\ all[p + k] \in Seq(D)
  <2>1. \A k \in 1..show : p + k \in 1..T
    BY <1>1, <1>3
  <2> QED BY <1>12, <2>1, ElementOfSeq
<1>16. asked \in Seq(Seq(D)) /\ Len(asked) = show /\ \A k \in 1..show : asked[k] = all[p + k]
  <2>1. show \in Nat
    BY <1>1, <1>3
  <2> QED BY <1>14, <1>15, <2>1
<1>17. \A k \in 1..q : shown[k] = asked[k]
  <2>1. \A k \in 1..q : LinesOf(t)[k] = LinesOf(s)[p + k]
    BY <1>11 DEF TailLinesOK
  <2>2. \A k \in 1..q : k \in 1..show
    BY <1>3, <1>13
  <2> QED BY <1>10, <1>16, <2>1, <2>2 DEF shown, all
<1>18. IsPrefix(shown, asked)
  <2>1. Len(shown) <= Len(asked) /\ q \in 0..Len(asked) /\ q \in 0..Len(shown)
    BY <1>3, <1>13, <1>16
  <2>2. Lead(shown, q) \in Seq(Seq(D)) /\ Len(Lead(shown, q)) = q /\ \A k \in 1..q : Lead(shown, q)[k] = shown[k]
    BY <1>13, <2>1, LeadIs
  <2>3. Lead(asked, q) \in Seq(Seq(D)) /\ Len(Lead(asked, q)) = q /\ \A k \in 1..q : Lead(asked, q)[k] = asked[k]
    BY <1>16, <2>1, LeadIs
  <2> DEFINE f == Lead(shown, q)
             g == Lead(asked, q)
  <2> HIDE DEF f, g
  <2>4. \A k \in 1..q : f[k] = g[k]
    BY <1>17, <2>2, <2>3 DEF f, g
  <2>5. f = g
    BY <2>2, <2>3, <2>4 DEF f, g
  <2> QED BY <1>13, <2>1, <2>5 DEF IsPrefix, Lead, f, g
<1>19. \A k \in (Len(shown) + 1)..Len(asked) : asked[k] = <<>>
  <2>1. \A k \in (q + 1)..show : LinesOf(s)[p + k] = <<>>
    BY <1>3, <1>11 DEF TailLinesOK, T
  <2>2. \A k \in (q + 1)..show : k \in 1..show
    BY <1>3, <1>13
  <2> QED BY <1>13, <1>16, <2>1, <2>2 DEF all
<1>20. Len(asked) = Min({count, Len(LinesOf(s))})
  BY <1>12, <1>16 DEF show, all, T
<1> QED BY Zenon, <1>18, <1>19, <1>20 DEF TailExact, asked, shown, r, all

-----------------------------------------------------------------------------
(* What the tools show *)

\* Whatever a file holds, a tail, a range and an entry show the all they were asked
\* for, windows every line around a hit once, a summary accounts for the all it
\* omits, and a budget cuts whole all off the end.
THEOREM ShownAsAsked == TextSpec => []ShownExact
<1>1. TextInv => ShownExact
  <2> SUFFICES ASSUME TextInv, tool = "show" PROVE ShownExact
    BY DEF ShownExact
  <2> DEFINE D == Letters("show")
             total == Len(text)
             hits == {i \in 1..total : text[i] # "nl"}
  <2>1. text \in Seq(D)
    <3>1. "show" \in DOMAIN Pieces
      BY DEF TextInv
    <3> QED BY <3>1 DEF TextInv
  <2> HIDE DEF D
  <2>2. total \in Nat
    BY <2>1, LenProperties
  <2> HIDE DEF total
  <2>3. hits \in SUBSET (1..total)
    OBVIOUS
  <2> HIDE DEF hits
  <2>4. ASSUME NEW n \in 0..(total + 1), NEW m \in 0..(total + 1)
        PROVE  /\ n > 0 => TailExact(text, n)
               /\ RangeExact(total, n, m)
               /\ WindowsExact(hits, n, total)
               /\ LET r == SummarizeBody(total, n) IN Len(r.shown) + r.omitted = total /\ Ascends(r.shown)
               /\ IsPrefix(TruncateToBudget(text, n), text)
               /\ n > 0 => Len(TruncateToBudget(text, n)) <= n
    <3>1. n \in Nat /\ m \in Nat
      BY <2>2
    <3>2. n > 0 => TailExact(text, n)
      <4> SUFFICES ASSUME n > 0 PROVE TailExact(text, n)
        OBVIOUS
      <4>1. n \in Nat \ {0}
        BY <3>1
      <4> QED BY <2>1, <4>1, TailsAreExact
    <3>3. RangeExact(total, n, m)
      BY <2>2, <3>1, RangesAreExact
    <3>4. WindowsExact(hits, n, total)
      BY <2>2, <2>3, <3>1, WindowsAreExact
    <3>5. LET r == SummarizeBody(total, n) IN Len(r.shown) + r.omitted = total /\ Ascends(r.shown)
      BY <2>2, <3>1, SummariesAddUp
    <3>6. IsPrefix(TruncateToBudget(text, n), text) /\ (n > 0 => Len(TruncateToBudget(text, n)) <= n)
      BY <2>1, <3>1, BudgetCuts
    <3> QED BY <3>2, <3>3, <3>4, <3>5, <3>6
  <2> QED BY Zenon, <2>4 DEF ShownExact, total, hits, IsSorted, Ascends
<1> QED BY <1>1, TextHolds, PTL

-----------------------------------------------------------------------------
(* Parts of a text *)

\* A part of a text, by what is before it and where it ends.
Part(s, a, e) == SubSeq(s, a + 1, e)

LEMMA PartIs ==
    ASSUME NEW D, NEW s \in Seq(D), NEW a \in 0..Len(s), NEW e \in a..Len(s)
    PROVE  /\ Part(s, a, e) \in Seq(D) /\ Len(Part(s, a, e)) = e - a /\ e - a \in Nat
           /\ \A i \in 1..(e - a) : Part(s, a, e)[i] = s[a + i]
<1> DEFINE L == Len(s)
           v == Part(s, a, e)
           m == e - a
<1>1. L \in Nat /\ a \in Nat /\ e \in Nat /\ a <= e /\ e <= L /\ m \in Nat
  BY LenProperties
<1>2. a + 1 \in 1..(L + 1) /\ e \in ((a + 1) - 1)..L /\ (e - (a + 1)) + 1 = m /\ (a + 1) - 1 = a
  BY <1>1
<1>3. /\ v \in Seq(D) /\ Len(v) = (e - (a + 1)) + 1
      /\ \A i \in 1..((e - (a + 1)) + 1) : v[i] = s[((a + 1) - 1) + i]
  BY <1>2, SubSeqIs DEF Part
<1> HIDE DEF v, m
<1>4. v \in Seq(D) /\ Len(v) = m /\ \A i \in 1..m : v[i] = s[a + i]
  BY Zenon, <1>2, <1>3
<1> QED BY <1>1, <1>4 DEF v, m

\* The m characters of s behind the a-th, as a text.
Copied(v, D, s, a, m) == v \in Seq(D) /\ Len(v) = m /\ \A i \in 1..m : v[i] = s[a + i]

LEMMA PartCopies ==
    ASSUME NEW D, NEW s \in Seq(D), NEW a \in 0..Len(s), NEW e \in a..Len(s)
    PROVE  Copied(Part(s, a, e), D, s, a, e - a)
<1> DEFINE v == Part(s, a, e)
           m == e - a
<1>1. v \in Seq(D) /\ Len(v) = m /\ \A i \in 1..m : v[i] = s[a + i]
  BY PartIs
<1> HIDE DEF v, m
<1>2. Copied(v, D, s, a, m)
  BY Zenon, <1>1 DEF Copied
<1> QED BY <1>2 DEF v, m

-----------------------------------------------------------------------------
(* Regions *)

\* r is where a part of a text is; and what is to be said of each region that is found.
Lies(r, a, e) == r.from = a /\ r.end = e
SoundRegion(content, r) == 0 <= r.from /\ r.from < r.end /\ r.end <= Len(content)

LEMMA RegionIs ==
    ASSUME NEW D, NEW s \in Seq(D), NEW a \in 0..Len(s), NEW e \in a..Len(s), NEW r, Lies(r, a, e)
    PROVE  /\ TextAt(s, r) = Part(s, a, e)
           /\ a < e => SoundRegion(s, r)
<1>1. Len(s) \in Nat
  BY LenProperties
<1>2. TextAt(s, r) = Part(s, a, e)
  BY Zenon DEF TextAt, Part, Lies
<1>3. a < e => SoundRegion(s, r)
  BY <1>1 DEF SoundRegion, Lies
<1> QED BY <1>2, <1>3

\* A part of a part, and where a text holds another.
LEMMA PartOfPart ==
    ASSUME NEW D, NEW s \in Seq(D), NEW a \in 0..Len(s), NEW e \in a..Len(s),
           NEW x \in 0..(e - a), NEW y \in x..(e - a)
    PROVE  Part(Part(s, a, e), x, y) = Part(s, a + x, a + y)
<1>1. SubSeq(SubSeq(s, a + 1, e), x + 1, y) = SubSeq(s, (a + x) + 1, a + y)
  BY SubSeqInside
<1> QED BY Zenon, <1>1 DEF Part

LEMMA PartHeld ==
    ASSUME NEW D, NEW s \in Seq(D), NEW a \in 0..Len(s), NEW e \in a..Len(s)
    PROVE  a + 1 \in Occurrences(s, Part(s, a, e)) /\ Holds(s, Part(s, a, e))
<1> DEFINE L == Len(s)
           t == Part(s, a, e)
           m == Len(t)
<1>1. L \in Nat /\ a \in Nat /\ e \in Nat /\ a <= e /\ e <= L
  BY LenProperties
<1>2. m = e - a
  BY PartIs
<1>3. a + 1 \in 1..(L - m + 1) /\ a + 1 + m - 1 = e
  <2> HIDE DEF m
  <2> QED BY <1>1, <1>2
<1>4. SubSeq(s, a + 1, a + 1 + m - 1) = t
  <2>1. SubSeq(s, a + 1, e) = t
    BY DEF Part
  <2> HIDE DEF m, t
  <2> QED BY <1>3, <2>1
<1>5. a + 1 \in Occurrences(s, t)
  <2> HIDE DEF t
  <2> QED BY <1>3, <1>4 DEF Occurrences
<1> QED BY <1>5 DEF Holds, t

LEMMA OccursAt ==
    ASSUME NEW D, NEW s \in Seq(D), NEW t \in Seq(D), NEW i \in Occurrences(s, t)
    PROVE  /\ i \in Nat \ {0} /\ i - 1 \in 0..Len(s) /\ (i - 1) + Len(t) \in (i - 1)..Len(s)
           /\ Part(s, i - 1, (i - 1) + Len(t)) = t
           /\ \A strategy : Lies(Region(i, Len(t), strategy), i - 1, (i - 1) + Len(t))
<1> DEFINE L == Len(s)
           m == Len(t)
<1>1. L \in Nat /\ m \in Nat
  BY LenProperties
<1>2. i \in 1..(L - m + 1) /\ SubSeq(s, i, i + m - 1) = t
  BY DEF Occurrences
<1> HIDE DEF L, m
<1>3. /\ i \in Nat \ {0} /\ i - 1 \in 0..L /\ (i - 1) + m \in (i - 1)..L
      /\ (i - 1) + 1 = i /\ (i - 1) + m = i + m - 1
  BY <1>1, <1>2
<1>4. Part(s, i - 1, (i - 1) + m) = t
  BY Zenon, <1>2, <1>3 DEF Part
<1>5. \A strategy : Lies(Region(i, m, strategy), i - 1, (i - 1) + m)
  <2> TAKE strategy
  <2>1. Region(i, m, strategy).from = i - 1 /\ Region(i, m, strategy).end = i + m - 1
    BY DEF Region, MatchLoc
  <2> QED BY Zenon, <1>3, <2>1 DEF Lies
<1> QED BY <1>3, <1>4, <1>5 DEF L, m

LEMMA OccurrenceIs ==
    ASSUME NEW D, NEW s \in Seq(D), NEW t \in Seq(D), t # <<>>, NEW i \in Occurrences(s, t), NEW strategy
    PROVE  LET r == Region(i, Len(t), strategy) IN
           SoundRegion(s, r) /\ TextAt(s, r) = t /\ r.strategy = strategy
<1> DEFINE a == i - 1
           e == a + Len(t)
           r == Region(i, Len(t), strategy)
<1>1. a \in 0..Len(s) /\ e \in a..Len(s) /\ Part(s, a, e) = t /\ Lies(r, a, e)
  BY OccursAt
<1>2. Len(t) \in Nat /\ Len(t) # 0
  BY LenProperties, EmptySeq
<1>3. a < e
  <2>1. a \in Int
    BY <1>1
  <2> HIDE DEF a
  <2> QED BY <1>2, <2>1
<1>4. r.strategy = strategy
  BY DEF Region, MatchLoc
<1> HIDE DEF a, e, r
<1>5. TextAt(s, r) = Part(s, a, e) /\ SoundRegion(s, r)
  BY <1>1, <1>3, RegionIs
<1> QED BY Zenon, <1>1, <1>4, <1>5 DEF r

-----------------------------------------------------------------------------
(* White space *)

\* Occurrences taken from the left are occurrences, and some are taken when there are some.
LEMMA LeftToRightIs ==
    ASSUME NEW D, NEW s \in Seq(D), NEW t \in Seq(D), t # <<>>
    PROVE  /\ LeftToRight(s, t) \subseteq Occurrences(s, t)
           /\ Occurrences(s, t) # {} => LeftToRight(s, t) # {}
<1> DEFINE O == Occurrences(s, t)
           L == Len(s)
           m == Len(t)
           S == SUBSET O
           G(f, i) == LET next == {j \in O : j >= i} IN IF next = {} THEN {} ELSE {Min(next)} \cup f[Min(next) + Len(t)]
           F == [f \in [Nat -> S] |-> [i \in Nat |-> G(f, i)]]
           base == {}
           from == CHOOSE x : x = [i \in Nat |-> G(x, i)]
           first(i) == Min({j \in O : j >= i})
<1>1. L \in Nat /\ m \in Nat /\ m >= 1
  <2>1. Len(t) \in Nat /\ Len(t) # 0
    BY LenProperties, EmptySeq
  <2> QED BY <2>1, LenProperties
<1>2. O \in SUBSET Int /\ \A i \in O : 1 <= i /\ i <= L
  BY <1>1 DEF Occurrences
<1>3. LeftToRight(s, t) = from[1]
  BY DEF LeftToRight
<1> HIDE DEF O, L
<1>4. \A i \in Nat : {j \in O : j >= i} # {} =>
         first(i) \in O /\ first(i) >= i /\ first(i) \in Nat /\ first(i) + m \in Nat /\ first(i) + m > i /\ i <= L
  <2> TAKE i \in Nat
  <2> DEFINE N == {j \in O : j >= i}
  <2> SUFFICES ASSUME N # {}
               PROVE  first(i) \in O /\ first(i) >= i /\ first(i) \in Nat /\ first(i) + m \in Nat /\ first(i) + m > i /\ i <= L
    OBVIOUS
  <2>1. N \in SUBSET Int /\ i \in Int /\ \A j \in N : i <= j
    <3>1. O \in SUBSET Int
      BY <1>2
    <3>2. N \in SUBSET Int
      BY <3>1
    <3>3. \A j \in N : i <= j
      <4> TAKE j \in N
      <4>1. j >= i /\ j \in Int
        BY <3>1
      <4> HIDE DEF N
      <4> QED BY <4>1
    <3> QED BY <3>2, <3>3
  <2> HIDE DEF N
  <2>2. PICK x \in N : \A k \in N : x <= k
    BY <2>1, LeastExists
  <2>3. Min(N) = x
    BY <2>1, <2>2, MinIs
  <2>4. first(i) = x
    BY <2>3 DEF N
  <2> HIDE DEF first
  <2>5. x \in O /\ x >= i /\ x \in Int /\ x <= L
    BY <1>2, <2>1, <2>2 DEF N
  <2> HIDE DEF m
  <2> QED BY <1>1, <2>4, <2>5
<1>5. \A f \in [Nat -> S], i \in Nat : G(f, i) \in S
  <2> TAKE f \in [Nat -> S], i \in Nat
  <2>1. CASE {j \in O : j >= i} = {}
    BY <2>1
  <2>2. CASE {j \in O : j >= i} # {}
    <3>1. first(i) \in O /\ first(i) + m \in Nat
      BY <1>4, <2>2
    <3>2. f[first(i) + m] \in S
      BY <3>1
    <3>3. G(f, i) = {first(i)} \cup f[first(i) + m]
      BY <2>2
    <3> QED BY <3>1, <3>2, <3>3
  <2> QED BY <2>1, <2>2
<1>6. F \in [[Nat -> S] -> [Nat -> S]] /\ base \in S /\ L \in Nat
  BY <1>1, <1>5
<1>7. ASSUME NEW f \in [Nat -> S], NEW g \in [Nat -> S], NEW i \in Nat, \A j \in Nat : i < j /\ i <= L => f[j] = g[j]
      PROVE  F[f][i] = F[g][i]
  <2>1. F[f][i] = G(f, i) /\ F[g][i] = G(g, i)
    OBVIOUS
  <2>2. CASE {j \in O : j >= i} = {}
    BY <2>1, <2>2
  <2>3. CASE {j \in O : j >= i} # {}
    <3>1. first(i) + m \in Nat /\ first(i) + m > i /\ i <= L
      BY <1>4, <2>3
    <3>2. f[first(i) + m] = g[first(i) + m]
      BY <1>7, <3>1
    <3>3. G(f, i) = {first(i)} \cup f[first(i) + m] /\ G(g, i) = {first(i)} \cup g[first(i) + m]
      BY <2>3
    <3> QED BY <2>1, <3>2, <3>3
  <2> QED BY <2>2, <2>3
<1>8. \E f \in [Nat -> S] : F[f] = f
  <2> HIDE DEF F, S, base
  <2> QED BY <1>6, <1>7, FixedPointExists
<1>9. from = [i \in Nat |-> G(from, i)]
  <2>1. PICK f \in [Nat -> S] : F[f] = f
    BY <1>8
  <2>2. f = [i \in Nat |-> G(f, i)]
    BY <2>1
  <2> HIDE DEF G
  <2> QED BY <2>2
<1> HIDE DEF from, F
<1>10. \A i \in Nat : from[i] = G(from, i)
  <2> HIDE DEF G
  <2> QED BY <1>9
<1> DEFINE T == {i \in Nat : from[i] \subseteq O}
<1>11. ASSUME NEW i \in Nat, \A j \in Nat : i < j /\ i <= L => j \in T PROVE i \in T
  <2>1. from[i] = G(from, i)
    BY <1>10
  <2>2. CASE {j \in O : j >= i} = {}
    BY <2>1, <2>2
  <2>3. CASE {j \in O : j >= i} # {}
    <3>1. first(i) \in O /\ first(i) + m \in Nat /\ first(i) + m > i /\ i <= L
      BY <1>4, <2>3
    <3>2. from[first(i) + m] \subseteq O
      BY <1>11, <3>1
    <3>3. G(from, i) = {first(i)} \cup from[first(i) + m]
      BY <2>3
    <3> QED BY <2>1, <3>1, <3>2, <3>3
  <2> QED BY <2>2, <2>3
<1>12. 1 \in T
  <2>1. T \in SUBSET Nat
    OBVIOUS
  <2> HIDE DEF T
  <2>2. T = Nat
    BY <1>1, <1>11, <2>1, Downward
  <2> QED BY <2>2
<1>13. O # {} => from[1] # {}
  <2> SUFFICES ASSUME O # {} PROVE from[1] # {}
    OBVIOUS
  <2>1. {j \in O : j >= 1} # {}
    BY <1>2
  <2>2. G(from, 1) = {first(1)} \cup from[first(1) + m]
    BY <2>1
  <2> QED BY <1>10, <2>2
<1> QED BY <1>3, <1>12, <1>13 DEF O

LEMMA BlankedIs ==
    /\ \A c : ~IsSpace(Blanked(c)) => Blanked(c) = c
    /\ \A c : ~IsSpace(c) => Blanked(c) = c
    /\ \A c : Continues(Blanked(c)) <=> Continues(c)
    /\ \A c : Continues(c) => ~IsSpace(c)
    /\ ~IsSpace("L") /\ ~Continues("L")
<1>1. \A c : ~IsSpace(Blanked(c)) => Blanked(c) = c
  BY Zenon DEF Blanked, IsWhitespace, IsSpace
<1>2. \A c : ~IsSpace(c) => Blanked(c) = c
  BY Zenon DEF Blanked, IsSpace
<1>3. ~Continues(" ") /\ ~Continues("nl") /\ ~Continues("L")
  BY DEF Continues
<1>4. \A c : Continues(Blanked(c)) <=> Continues(c)
  BY Zenon, <1>3 DEF Blanked, IsWhitespace
<1>5. \A c : Continues(c) => ~IsSpace(c)
  BY DEF Continues, IsSpace, IsWhitespace
<1>6. ~IsSpace("L")
  BY DEF IsSpace, IsWhitespace
<1> QED BY <1>1, <1>2, <1>3, <1>4, <1>5, <1>6

\* Places in turn.
Turned(at, n, L, S) ==
    /\ n \in Nat /\ at \in Seq(1..L) /\ Len(at) = n
    /\ \A i, j \in 1..n : i < j => at[i] < at[j]
    /\ \A i \in 1..n : at[i] \in S /\ at[i] \in 1..L /\ at[i] \in Int
    /\ \A o \in 1..L : o \in S => \E i \in 1..n : at[i] = o

LEMMA TurnedIs ==
    ASSUME NEW L \in Nat, NEW S
    PROVE  Turned(InTurn(L, S), Len(InTurn(L, S)), L, S)
<1> DEFINE at == InTurn(L, S)
           n == Len(at)
<1>1. /\ at \in Seq(1..L)
      /\ \A i, j \in 1..n : i < j => at[i] < at[j]
      /\ \A i \in 1..n : at[i] \in S /\ at[i] \in 1..L
      /\ \A o \in 1..L : o \in S => \E i \in 1..n : at[i] = o
  BY InTurnIs
<1> HIDE DEF at
<1>2. n \in Nat
  BY <1>1, LenProperties
<1> QED BY <1>1, <1>2 DEF Turned, at

Surviving(s) == {i \in Folded(s) : \E j, k \in Visible(s) : j <= i /\ i <= k}

LEMMA SurvivingIs ==
    ASSUME NEW D, NEW s \in Seq(D)
    PROVE  /\ \A x : x \in Inked(s) <=> x \in 1..Len(s) /\ ~IsWhitespace(s[x])
           /\ \A x : x \in Visible(s) <=> x \in 1..Len(s) /\ ~IsSpace(s[x])
           /\ \A x : x \in Folded(s) <=> x \in Inked(s) \/ (x \in 2..Len(s) /\ x - 1 \in Inked(s))
           /\ \A x \in Visible(s) : x \in Inked(s) /\ x \in Surviving(s)
           /\ \A x \in Folded(s) : x \in 1..Len(s)
<1>1. Len(s) \in Nat
  BY LenProperties
<1>2. \A x : x \in Inked(s) <=> x \in 1..Len(s) /\ ~IsWhitespace(s[x])
  BY DEF Inked
<1>3. \A x : x \in Visible(s) <=> x \in 1..Len(s) /\ ~IsSpace(s[x])
  BY DEF Visible
<1>4. \A x : x \in Folded(s) <=> x \in Inked(s) \/ (x \in 2..Len(s) /\ x - 1 \in Inked(s))
  BY DEF Folded
<1>5. ASSUME NEW x \in Visible(s) PROVE x \in Inked(s) /\ x \in Surviving(s)
  <2>1. x \in 1..Len(s) /\ ~IsWhitespace(s[x])
    BY <1>3 DEF IsSpace
  <2>2. x \in Folded(s) /\ x <= x
    BY <1>2, <1>4, <2>1
  <2> QED BY <1>2, <2>1, <2>2 DEF Surviving
<1>6. \A x \in Folded(s) : x \in 1..Len(s)
  BY <1>1, <1>2, <1>4
<1> QED BY <1>2, <1>3, <1>4, <1>5, <1>6

\* Places in turn do not pass each other.
LEMMA TurnOrder ==
    ASSUME NEW at, NEW n, NEW L, NEW S, Turned(at, n, L, S), NEW i \in 1..n, NEW j \in 1..n
    PROVE  (at[i] < at[j] <=> i < j) /\ (at[i] <= at[j] <=> i <= j)
<1> DEFINE x == at[i]
           y == at[j]
<1>1. (i < j => x < y) /\ (j < i => y < x) /\ (i = j => x = y) /\ x \in Int /\ y \in Int /\ i \in Int /\ j \in Int
  BY DEF Turned
<1> HIDE DEF x, y
<1>2. (x < y <=> i < j) /\ (x <= y <=> i <= j)
  BY <1>1
<1> QED BY <1>2 DEF x, y

\* What survives of a text begins and ends with what trimming leaves.
LEMMA SurvivorsAre ==
    ASSUME NEW D, NEW s \in Seq(D)
    PROVE  LET at == Survivors(s)
               n == Len(Survivors(s))
           IN /\ Turned(at, n, Len(s), Surviving(s))
              /\ Collapse(s) \in Seq({Blanked(c) : c \in D}) /\ Len(Collapse(s)) = n
              /\ \A k \in 1..n : Collapse(s)[k] = Blanked(s[at[k]])
              /\ n > 0 => at[1] \in Visible(s) /\ at[n] \in Visible(s)
<1> DEFINE at == Survivors(s)
           n == Len(at)
           L == Len(s)
           z == Collapse(s)
<1>1. L \in Nat
  BY LenProperties
<1>2. Turned(at, n, L, Surviving(s))
  <2>1. at = InTurn(L, Surviving(s))
    BY DEF Survivors, Surviving
  <2> HIDE DEF at, L
  <2> QED BY <1>1, <2>1, TurnedIs
<1>3. z = [k \in 1..n |-> Blanked(s[at[k]])]
  BY DEF Collapse
<1>4. \A k \in 1..L : s[k] \in D
  BY ElementOfSeq
<1> HIDE DEF at, n, z, L
<1>5. n \in Nat /\ \A k \in 1..n : at[k] \in 1..L
  BY <1>2 DEF Turned
<1>6. \A k \in 1..n : Blanked(s[at[k]]) \in {Blanked(c) : c \in D}
  BY <1>4, <1>5
<1>7. z \in Seq({Blanked(c) : c \in D}) /\ Len(z) = n /\ \A k \in 1..n : z[k] = Blanked(s[at[k]])
  <2> DEFINE E == {Blanked(c) : c \in D}
             b(k) == Blanked(s[at[k]])
  <2>1. z = [k \in 1..n |-> b(k)] /\ \A k \in 1..n : b(k) \in E
    BY <1>3, <1>6
  <2> HIDE DEF E, b
  <2>2. z \in Seq(E) /\ Len(z) = n /\ \A k \in 1..n : z[k] = b(k)
    BY <1>5, <2>1
  <2> QED BY <2>2 DEF E, b
<1>8. ASSUME n > 0 PROVE at[1] \in Visible(s) /\ at[n] \in Visible(s)
  <2>1. 1 \in 1..n /\ n \in 1..n
    BY <1>5, <1>8
  <2>2. /\ \A i \in 1..n : at[i] \in Surviving(s) /\ at[i] \in 1..L /\ at[i] \in Int
        /\ \A o \in 1..L : o \in Surviving(s) => \E i \in 1..n : at[i] = o
    BY <1>2 DEF Turned
  <2>3. \A o \in Visible(s) : \E i \in 1..n : at[i] = o
    BY <2>2, SurvivingIs DEF L
  <2>4. PICK u \in Visible(s), v \in Visible(s) : u <= at[1] /\ at[n] <= v
    BY <2>1, <2>2 DEF Surviving
  <2>5. PICK i \in 1..n, j \in 1..n : at[i] = u /\ at[j] = v
    BY <2>3
  <2>6. i <= 1 /\ n <= j
    BY <1>2, <2>1, <2>4, <2>5, TurnOrder
  <2>7. i = 1 /\ j = n
    BY <1>5, <2>6
  <2> QED BY <2>5, <2>7
<1> QED BY Zenon, <1>2, <1>7, <1>8 DEF at, n, L, z

\* What survives of a part that begins and ends so is what survives there of the whole.
LEMMA SurvivingPart ==
    ASSUME NEW D, NEW s \in Seq(D), NEW a \in 0..Len(s), NEW e \in a..Len(s), a < e,
           a + 1 \in Visible(s), e \in Visible(s)
    PROVE  \A x \in 1..(e - a) : x \in Surviving(Part(s, a, e)) <=> a + x \in Surviving(s)
<1> DEFINE t == Part(s, a, e)
           m == e - a
           L == Len(s)
<1>1. L \in Nat /\ a \in Nat /\ e \in Nat /\ a < e /\ e <= L /\ m \in Nat
  BY LenProperties
<1>2. t \in Seq(D) /\ Len(t) = m /\ \A i \in 1..m : t[i] = s[a + i]
  BY PartIs
<1> HIDE DEF t
<1>3. /\ \A x : x \in Inked(t) <=> x \in 1..m /\ ~IsWhitespace(t[x])
      /\ \A x : x \in Visible(t) <=> x \in 1..m /\ ~IsSpace(t[x])
      /\ \A x : x \in Folded(t) <=> x \in Inked(t) \/ (x \in 2..m /\ x - 1 \in Inked(t))
  BY <1>2, SurvivingIs
<1>4. /\ \A x : x \in Inked(s) <=> x \in 1..L /\ ~IsWhitespace(s[x])
      /\ \A x : x \in Visible(s) <=> x \in 1..L /\ ~IsSpace(s[x])
      /\ \A x : x \in Folded(s) <=> x \in Inked(s) \/ (x \in 2..L /\ x - 1 \in Inked(s))
      /\ \A x \in Visible(s) : x \in Inked(s)
  BY SurvivingIs
<1> HIDE DEF m, L
<1>5. m \in 1..m /\ 1 \in 1..m /\ a + m = e /\ a + 1 \in 1..L /\ e \in 1..L
  BY <1>1 DEF m
<1>6. m \in Visible(t) /\ 1 \in Visible(t)
  BY <1>2, <1>3, <1>4, <1>5
<1>7. \A x \in 1..m : a + x \in 1..L /\ (x \in Inked(t) <=> a + x \in Inked(s))
  <2>1. \A x \in 1..m : a + x \in 1..L
    BY <1>1, <1>5
  <2> QED BY <1>2, <1>3, <1>4, <2>1
<1>8. ASSUME NEW x \in 1..m PROVE x \in Folded(t) <=> a + x \in Folded(s)
  <2>1. CASE x = 1
    <3>1. a + 1 \in Inked(s) /\ 1 \in Inked(t)
      BY <1>4, <1>5, <1>7
    <3> QED BY <1>3, <1>4, <2>1, <3>1
  <2>2. CASE x # 1
    <3>1. x \in 2..m /\ x - 1 \in 1..m /\ a + x \in 2..L /\ a + (x - 1) = (a + x) - 1
      BY <1>1, <1>5, <2>2
    <3>2. x - 1 \in Inked(t) <=> (a + x) - 1 \in Inked(s)
      BY <1>7, <3>1
    <3> QED BY <1>3, <1>4, <1>7, <3>1, <3>2
  <2> QED BY <2>1, <2>2
<1>9. ASSUME NEW x \in 1..m PROVE x \in Surviving(t) <=> a + x \in Surviving(s)
  <2>1. 1 <= x /\ x <= m /\ a + 1 <= a + x /\ a + x <= e
    BY <1>1, <1>5
  <2>2. x \in Surviving(t) <=> x \in Folded(t)
    BY <1>6, <2>1 DEF Surviving
  <2>3. a + x \in Surviving(s) <=> a + x \in Folded(s)
    BY <2>1 DEF Surviving
  <2> QED BY <1>8, <2>2, <2>3
<1> QED BY <1>9 DEF t, m

\* Places of a text and of its part from the p-th character to the e-th.
LEMMA InBetween ==
    ASSUME NEW L \in Nat, NEW p \in 1..L, NEW e \in 1..L, p <= e
    PROVE  /\ p - 1 \in 0..L /\ e \in (p - 1)..L /\ p - 1 < e /\ (p - 1) + 1 = p
           /\ e - (p - 1) \in Nat /\ p - 1 \in Nat /\ e \in Nat
           /\ \A x \in 1..(e - (p - 1)) : (p - 1) + x \in 1..L /\ p <= (p - 1) + x /\ (p - 1) + x <= e
OBVIOUS

\* The part of a text from one of its survivors to another collapses to the survivors between.
Survive(s, o, n, p, e) ==
    /\ o \in Nat /\ n \in Nat \ {0} /\ o + n <= Len(Survivors(s))
    /\ p = Survivors(s)[o + 1] /\ e = Survivors(s)[o + n] /\ p \in Visible(s) /\ e \in Visible(s)
Collapses(s, o, n, p, e) ==
    LET t == Part(s, p - 1, e) IN
    /\ p \in 1..Len(s) /\ e \in 1..Len(s) /\ p - 1 < e
    /\ Len(Collapse(t)) = n /\ \A k \in 1..n : Collapse(t)[k] = Blanked(s[Survivors(s)[o + k]])

LEMMA PartCollapses ==
    ASSUME NEW D, NEW s \in Seq(D), NEW o, NEW n, NEW p, NEW e, Survive(s, o, n, p, e)
    PROVE  Collapses(s, o, n, p, e)
<1> DEFINE c == Survivors(s)
           N == Len(c)
           L == Len(s)
           a == p - 1
           t == Part(s, a, e)
           m == e - a
           u == Survivors(t)
           q == Len(u)
           v == [k \in 1..n |-> c[o + k] - a]
<1>1. Turned(c, N, L, Surviving(s)) /\ L \in Nat
  BY SurvivorsAre, LenProperties
<1> HIDE DEF c
<1>2. /\ N \in Nat /\ \A k \in 1..N : c[k] \in Surviving(s) /\ c[k] \in 1..L /\ c[k] \in Int
      /\ \A x \in 1..L : x \in Surviving(s) => \E k \in 1..N : c[k] = x
  BY <1>1 DEF Turned
<1>3. /\ o \in Nat /\ n \in Nat \ {0} /\ o + n <= N /\ p = c[o + 1] /\ e = c[o + n]
      /\ p \in Visible(s) /\ e \in Visible(s)
  BY DEF Survive, c
<1> HIDE DEF N, L
<1>4. o + 1 \in 1..N /\ o + n \in 1..N /\ o + 1 <= o + n /\ \A k \in 1..n : o + k \in 1..N /\ o + 1 <= o + k /\ o + k <= o + n
  BY <1>2, <1>3
<1>5. p \in 1..L /\ e \in 1..L /\ p <= e
  <2>1. p \in 1..L /\ e \in 1..L
    BY <1>2, <1>3, <1>4
  <2>2. c[o + 1] <= c[o + n]
    BY <1>1, <1>4, TurnOrder
  <2> QED BY <1>3, <2>1, <2>2
<1>6. a \in 0..L /\ e \in a..L /\ a < e /\ a + 1 = p /\ m \in Nat /\ a \in Nat /\ e \in Nat
  BY Zenon, <1>1, <1>5, InBetween
<1>7. t \in Seq(D) /\ Len(t) = m /\ \A i \in 1..m : t[i] = s[a + i]
  <2> HIDE DEF a
  <2>1. a \in 0..Len(s) /\ e \in a..Len(s)
    BY <1>6 DEF L
  <2>2. Copied(Part(s, a, e), D, s, a, e - a)
    BY Zenon, <2>1, PartCopies
  <2> QED BY Zenon, <2>2 DEF Copied
<1>8. \A x \in 1..m : x \in Surviving(t) <=> a + x \in Surviving(s)
  BY <1>3, <1>6, SurvivingPart DEF L
<1> HIDE DEF a, t, m
<1>9. /\ Turned(u, q, m, Surviving(t))
      /\ Len(Collapse(t)) = q /\ \A k \in 1..q : Collapse(t)[k] = Blanked(t[u[k]])
  BY <1>7, SurvivorsAre
<1> HIDE DEF u
<1>10. /\ q \in Nat /\ \A k \in 1..q : u[k] \in Surviving(t) /\ u[k] \in 1..m /\ u[k] \in Int
       /\ \A i, j \in 1..q : i < j => u[i] < u[j]
       /\ \A x \in 1..m : x \in Surviving(t) => \E k \in 1..q : u[k] = x
  BY <1>9 DEF Turned
<1> HIDE DEF q
<1>11. \A k \in 1..n : v[k] \in 1..m /\ v[k] \in Int /\ a + v[k] = c[o + k] /\ v[k] \in Surviving(t)
  <2> TAKE k \in 1..n
  <2> DEFINE x == c[o + k]
  <2>1. c[o + 1] <= c[o + k] /\ c[o + k] <= c[o + n]
    BY <1>1, <1>4, TurnOrder
  <2>2. x \in Int /\ x \in Surviving(s) /\ p <= x /\ x <= e
    BY <1>2, <1>3, <1>4, <2>1
  <2>3. v[k] = x - a
    OBVIOUS
  <2> HIDE DEF x, v
  <2>4. v[k] \in 1..m /\ a + v[k] = x
    <3>1. a \in Int /\ e \in Int /\ a + 1 = p
      BY <1>6
    <3>2. x \in Int /\ p <= x /\ x <= e
      BY <2>2
    <3>3. x - a \in 1..(e - a) /\ a + (x - a) = x
      BY <3>1, <3>2
    <3> QED BY <2>3, <3>3 DEF m
  <2>5. v[k] \in Surviving(t)
    BY <1>8, <2>2, <2>4
  <2> QED BY <1>6, <2>4, <2>5 DEF x
<1> HIDE DEF v
<1>12. \A i, j \in 1..n : i < j => v[i] < v[j]
  <2> TAKE i \in 1..n, j \in 1..n
  <2> SUFFICES ASSUME i < j PROVE v[i] < v[j]
    OBVIOUS
  <2>1. o + i \in 1..N /\ o + j \in 1..N /\ o + i < o + j
    BY <1>3, <1>4
  <2>2. c[o + i] < c[o + j]
    BY <1>1, <2>1, TurnOrder
  <2>3. a + v[i] < a + v[j] /\ v[i] \in Int /\ v[j] \in Int
    BY <1>11, <2>2
  <2> QED BY <1>6, <2>3
<1>13. \A i \in 1..q : \E k \in 1..n : v[k] = u[i]
  <2> TAKE i \in 1..q
  <2> DEFINE x == u[i]
  <2>1. x \in 1..m /\ x \in Surviving(t)
    BY <1>10
  <2> HIDE DEF x
  <2>2. a + x \in Surviving(s) /\ a + x \in 1..L /\ p <= a + x /\ a + x <= e
    <3>1. a + x \in Surviving(s)
      BY <1>8, <2>1
    <3>2. x \in 1..(e - (p - 1))
      BY Zenon, <2>1 DEF m, a
    <3>3. a + x \in 1..L /\ p <= a + x /\ a + x <= e
      BY Zenon, <1>1, <1>5, <3>2, InBetween DEF a
    <3> QED BY <3>1, <3>3
  <2>3. PICK j \in 1..N : c[j] = a + x
    BY <1>2, <2>2
  <2>4. o + 1 <= j /\ j <= o + n
    <3>1. c[o + 1] <= c[j] /\ c[j] <= c[o + n]
      BY <1>3, <2>2, <2>3
    <3> QED BY <1>1, <1>4, <3>1, TurnOrder
  <2>5. j - o \in 1..n /\ o + (j - o) = j
    BY <1>2, <1>3, <2>4
  <2>6. a + v[j - o] = a + x /\ v[j - o] \in Int
    BY <1>11, <2>3, <2>5
  <2>7. v[j - o] = x
    BY <1>6, <2>1, <2>6
  <2> QED BY <2>5, <2>7 DEF x
<1>14. \A k \in 1..n : \E i \in 1..q : u[i] = v[k]
  BY <1>10, <1>11
<1>15. q = n /\ \A i \in 1..q : u[i] = v[i]
  <2>1. \A i \in 1..q : u[i] \in Int
    BY <1>10
  <2>2. \A k \in 1..n : v[k] \in Int
    BY <1>11
  <2>3. \A i, j \in 1..q : i < j => u[i] < u[j]
    BY <1>10
  <2>4. n \in Nat /\ q \in Nat
    BY <1>3, <1>10
  <2>5. SameCells(q, u, n, v)
    BY Zenon, <1>12, <1>13, <1>14, <2>1, <2>2, <2>3, <2>4 DEF SameCells
  <2> QED BY <2>5, OneOrder
<1>16. \A k \in 1..n : Collapse(t)[k] = Blanked(s[c[o + k]])
  <2> TAKE k \in 1..n
  <2>1. k \in 1..q /\ u[k] = v[k] /\ v[k] \in 1..m /\ a + v[k] = c[o + k]
    BY <1>11, <1>15
  <2>2. t[u[k]] = s[c[o + k]]
    BY <1>7, <2>1
  <2> QED BY <1>9, <2>1, <2>2
<1>17. Len(Collapse(t)) = n
  BY <1>9, <1>15
<1> QED BY <1>5, <1>6, <1>16, <1>17 DEF Collapses, t, a, L, c

(* Characters of several bytes *)

\* What trimming leaves of a text begins and ends with whole characters.
LEMMA EndsWhole ==
    ASSUME NEW D, NEW s \in Seq(D), WellFormed(s), Len(Survivors(s)) > 0
    PROVE  ~Continues(s[Survivors(s)[1]]) /\ s[Survivors(s)[Len(Survivors(s))]] # "L"
<1> DEFINE c == Survivors(s)
           n == Len(c)
           L == Len(s)
           p == c[1]
           e == c[n]
<1>1. Turned(c, n, L, Surviving(s)) /\ L \in Nat /\ p \in Visible(s) /\ e \in Visible(s)
  BY SurvivorsAre, LenProperties
<1>2. n > 0
  OBVIOUS
<1>3. /\ \A i \in 1..L : Continues(s[i]) <=> i > 1 /\ s[i - 1] = "L"
      /\ L > 0 => s[L] # "L"
  <2>1. L > 0 => s # <<>>
    BY EmptySeq
  <2> QED BY <2>1 DEF WellFormed
<1>4. /\ \A x \in Visible(s) : x \in Surviving(s)
      /\ \A x : x \in Visible(s) <=> x \in 1..L /\ ~IsSpace(s[x])
  BY SurvivingIs
<1> HIDE DEF c, n, L
<1>5. n \in Nat /\ 1 \in 1..n /\ n \in 1..n /\ p \in 1..L /\ e \in 1..L /\ p \in Int /\ e \in Int
  BY <1>1, <1>2 DEF Turned
<1>6. \A x \in Visible(s) : \E i \in 1..n : c[i] = x /\ i >= 1 /\ i <= n
  BY <1>1, <1>4, <1>5 DEF Turned
<1>7. \A i \in 1..n : c[1] <= c[i] /\ c[i] <= c[n]
  <2> TAKE i \in 1..n
  <2>1. 1 <= i /\ i <= n
    BY <1>5
  <2> QED BY <1>1, <1>5, <2>1, TurnOrder
<1>8. \A x \in Visible(s) : p <= x /\ x <= e
  BY <1>6, <1>7
<1> HIDE DEF p, e
<1>9. ~Continues(s[p])
  <2> SUFFICES ASSUME Continues(s[p]) PROVE FALSE
    OBVIOUS
  <2>1. p > 1 /\ s[p - 1] = "L" /\ p - 1 \in 1..L
    BY <1>1, <1>3, <1>5
  <2>2. p - 1 \in Visible(s)
    BY <1>4, <2>1, BlankedIs
  <2>3. p <= p - 1
    BY <1>8, <2>2
  <2> QED BY <1>5, <2>3
<1>10. s[e] # "L"
  <2> SUFFICES ASSUME s[e] = "L" PROVE FALSE
    OBVIOUS
  <2>1. e # L
    BY <1>3, <1>5
  <2>2. e + 1 \in 1..L /\ e + 1 > 1 /\ (e + 1) - 1 = e
    BY <1>1, <1>5, <2>1
  <2>3. Continues(s[e + 1])
    BY <1>3, <2>2
  <2>4. e + 1 \in Visible(s)
    BY <1>4, <2>2, <2>3, BlankedIs
  <2>5. e + 1 <= e
    BY <1>8, <2>4
  <2> QED BY <1>5, <2>5
<1> QED BY <1>9, <1>10 DEF p, e, c, n

\* Where the characters of a folded text begin.
Leads(s) == {i \in Folded(s) : ~Continues(s[i])}
UpTo(S, x) == {i \in S : i <= x}

\* As many characters end at the k-th survivor as begin up to it.
LEMMA RunesCounted ==
    ASSUME NEW D, NEW s \in Seq(D), NEW k \in 1..Len(Survivors(s))
    PROVE  RuneAt(Collapse(s), k) = Cardinality(UpTo(Leads(s) \cap Surviving(s), Survivors(s)[k]))
<1> DEFINE c == Survivors(s)
           n == Len(c)
           L == Len(s)
           z == Collapse(s)
           A == {q \in 1..k : ~Continues(z[q])}
           B == UpTo(Leads(s) \cap Surviving(s), c[k])
           g == [q \in A |-> c[q]]
<1>1. /\ Turned(c, n, L, Surviving(s)) /\ L \in Nat
      /\ \A i \in 1..n : z[i] = Blanked(s[c[i]])
  BY SurvivorsAre, LenProperties
<1>2. \A x : x \in B <=> x \in Leads(s) /\ x \in Surviving(s) /\ x <= c[k]
  BY DEF UpTo
<1>3. \A x : x \in Leads(s) <=> x \in Folded(s) /\ ~Continues(s[x])
  BY DEF Leads
<1>4. \A x \in Surviving(s) : x \in Folded(s) /\ x \in 1..L
  BY SurvivingIs DEF Surviving
<1>5. \A x : x \in A <=> x \in 1..k /\ ~Continues(z[x])
  OBVIOUS
<1>6. k \in 1..n
  OBVIOUS
<1>7. RuneAt(z, k) = Cardinality(A)
  BY DEF RuneAt
<1> HIDE DEF c, n, L, z, A, B
<1>8. /\ n \in Nat /\ \A i \in 1..n : c[i] \in Surviving(s) /\ c[i] \in Int
      /\ \A x \in 1..L : x \in Surviving(s) => \E i \in 1..n : c[i] = x
  BY <1>1 DEF Turned
<1>9. \A q \in 1..k : q \in 1..n /\ q <= k
  BY <1>6, <1>8
<1>10. ASSUME NEW q \in A PROVE c[q] \in B
  <2>1. q \in 1..n /\ q <= k /\ ~Continues(z[q])
    BY <1>5, <1>9
  <2>2. ~Continues(s[c[q]])
    BY <1>1, <2>1, BlankedIs
  <2>3. c[q] <= c[k]
    BY <1>1, <1>6, <2>1, TurnOrder
  <2> QED BY <1>2, <1>3, <1>4, <1>8, <2>1, <2>2, <2>3
<1>11. g \in [A -> B]
  BY <1>10
<1>12. \A i, j \in A : g[i] = g[j] => i = j
  <2> TAKE i \in A, j \in A
  <2>1. i \in 1..n /\ j \in 1..n /\ i \in Int /\ j \in Int
    BY <1>5, <1>9
  <2>2. (c[i] <= c[j] <=> i <= j) /\ (c[j] <= c[i] <=> j <= i)
    BY <1>1, <2>1, TurnOrder
  <2>3. c[i] = c[j] => c[i] <= c[j] /\ c[j] <= c[i]
    BY <1>8, <2>1
  <2> QED BY <2>1, <2>2, <2>3
<1>13. \A x \in B : \E q \in A : g[q] = x
  <2> TAKE x \in B
  <2>1. x \in Surviving(s) /\ x \in 1..L /\ x <= c[k] /\ ~Continues(s[x])
    BY <1>2, <1>3, <1>4
  <2>2. PICK q \in 1..n : c[q] = x
    BY <1>8, <2>1
  <2>3. q <= k
    BY <1>1, <1>6, <2>1, <2>2, TurnOrder
  <2>4. ~Continues(z[q])
    BY <1>1, <2>1, <2>2, BlankedIs
  <2>5. q \in 1..k
    BY <1>6, <1>8, <2>3
  <2> QED BY <1>5, <2>2, <2>4, <2>5
<1> HIDE DEF g
<1>14. ExistsBijection(A, B)
  <2>1. g \in Bijection(A, B)
    BY <1>11, <1>12, <1>13 DEF Bijection, Injection, Surjection, IsInjective
  <2> QED BY <2>1 DEF ExistsBijection
<1>15. IsFiniteSet(A)
  <2>1. 1 \in Int /\ k \in Int
    BY <1>6
  <2>2. IsFiniteSet(1..k)
    BY <2>1, FS_Interval
  <2>3. A \subseteq 1..k
    BY <1>5
  <2> QED BY <2>2, <2>3, FS_Subset
<1>16. Cardinality(A) = Cardinality(B)
  BY <1>14, <1>15, FS_Bijection
<1> QED BY <1>7, <1>16 DEF z, B, c

\* The character a survivor belongs to is one of the folded text; where trimming took nothing from
\* the front it is the survivor, or the byte before one that continues a character.
LEMMA RuneIs ==
    ASSUME NEW D, NEW s \in Seq(D), WellFormed(s), NEW k \in 1..Len(Survivors(s))
    PROVE  LET begin == OrigForNorm(s)
               rune == RuneAt(Collapse(s), k)
               x == Survivors(s)[k]
           IN /\ rune \in 1..Len(begin)
              /\ Turned(begin, Len(begin), Len(s), Leads(s))
              /\ Unshifted(s) => begin[rune] = IF Continues(s[x]) THEN x - 1 ELSE x
<1> DEFINE c == Survivors(s)
           n == Len(c)
           L == Len(s)
           S == Leads(s)
           begin == OrigForNorm(s)
           m == Len(begin)
           x == c[k]
           A == UpTo(S \cap Surviving(s), x)
           B == UpTo(S, x)
           y == IF Continues(s[x]) THEN x - 1 ELSE x
<1>1. Turned(c, n, L, Surviving(s)) /\ L \in Nat /\ (n > 0 => c[1] \in Visible(s))
  BY SurvivorsAre, LenProperties
<1>2. /\ \A i : i \in Inked(s) <=> i \in 1..L /\ ~IsWhitespace(s[i])
      /\ \A i : i \in Visible(s) <=> i \in 1..L /\ ~IsSpace(s[i])
      /\ \A i : i \in Folded(s) <=> i \in Inked(s) \/ (i \in 2..L /\ i - 1 \in Inked(s))
      /\ \A i \in Visible(s) : i \in Inked(s) /\ i \in Surviving(s)
      /\ \A i \in Folded(s) : i \in 1..L
  BY SurvivingIs
<1>3. \A i : i \in S <=> i \in Folded(s) /\ ~Continues(s[i])
  BY DEF Leads
<1>4. S \in SUBSET (1..L)
  BY <1>2, <1>3
<1>5. begin = InTurn(L, S)
  BY DEF OrigForNorm, Leads
<1>6. \A i \in 1..L : Continues(s[i]) <=> i > 1 /\ s[i - 1] = "L"
  BY DEF WellFormed
<1>7. k \in 1..n /\ (n > 0 => ~Continues(s[c[1]]))
  BY EndsWhole
<1>8. RuneAt(Collapse(s), k) = Cardinality(A)
  BY RunesCounted
<1>9. /\ \A i : i \in A <=> i \in S /\ i \in Surviving(s) /\ i <= x
      /\ \A i : i \in B <=> i \in S /\ i <= x
  BY DEF UpTo
<1> HIDE DEF c, n, L, S, begin, A, B
<1>10. /\ Turned(begin, m, L, S) /\ m = Cardinality(S) /\ IsFiniteSet(S)
       /\ \A j \in 1..m : Cardinality({i \in S : i < begin[j]}) = j - 1
  BY <1>1, <1>4, <1>5, TurnedIs, InTurnSizes
<1>11. n \in Nat /\ n > 0 /\ 1 \in 1..n /\ x \in Surviving(s) /\ x \in 1..L /\ x \in Int /\ 1 <= k
  BY <1>1, <1>7 DEF Turned
<1>12. c[1] \in A
  <2>1. c[1] \in S /\ c[1] \in Surviving(s)
    BY <1>1, <1>2, <1>3, <1>7, <1>11
  <2>2. c[1] <= c[k]
    BY <1>1, <1>7, <1>11, TurnOrder
  <2> QED BY <1>9, <2>1, <2>2
<1>13. IsFiniteSet(A) /\ Cardinality(A) \in 1..m
  <2>1. A \subseteq S
    BY <1>9
  <2>2. IsFiniteSet(A) /\ Cardinality(A) <= Cardinality(S)
    BY <1>10, <2>1, FS_Subset
  <2>3. Cardinality(A) \in Nat /\ Cardinality(A) # 0 /\ Cardinality(S) \in Nat
    <3>1. Cardinality(A) \in Nat /\ Cardinality(S) \in Nat
      BY <1>10, <2>2, FS_CardinalityType
    <3>2. Cardinality(A) = 0 <=> A = {}
      BY <2>2, FS_EmptySet
    <3> QED BY <1>12, <3>1, <3>2
  <2> QED BY <1>10, <2>2, <2>3
<1>14. ASSUME Unshifted(s) PROVE begin[Cardinality(A)] = y
  <2>1. A = B
    <3> SUFFICES ASSUME NEW i \in S, i <= x PROVE i \in Surviving(s)
      BY <1>9
    <3>1. PICK v \in Visible(s) : x <= v
      BY <1>11 DEF Surviving
    <3>2. i \in Folded(s) /\ i \in 1..L /\ i \in Int /\ v \in Int
      BY <1>2, <1>3, <1>4
    <3>3. i <= v
      BY <1>11, <3>1, <3>2
    <3>4. PICK j \in Inked(s) : j <= i /\ j \in Int
      BY <1>2, <3>2
    <3>5. PICK u \in Visible(s) : u <= j
      BY <1>14, <3>4 DEF Unshifted
    <3>6. u <= i
      <4>1. u \in Int
        BY <1>2, <3>5
      <4> QED BY <3>2, <3>4, <3>5, <4>1
    <3> QED BY <3>2, <3>3, <3>6 DEF Surviving
  <2>2. y \in S /\ y <= x /\ y \in Int /\ \A i \in S : i <= x => i <= y
    <3>1. CASE ~Continues(s[x])
      <4>1. y = x
        BY <3>1
      <4>2. x \in Folded(s)
        BY <1>11 DEF Surviving
      <4> QED BY <1>3, <1>11, <3>1, <4>1, <4>2
    <3>2. CASE Continues(s[x])
      <4>1. y = x - 1 /\ x - 1 \in 1..L /\ s[x - 1] = "L" /\ x - 1 \in Int
        BY <1>1, <1>6, <1>11, <3>2
      <4> HIDE DEF y, x
      <4>2. x - 1 \in S
        BY <1>2, <1>3, <4>1, BlankedIs
      <4>3. \A i \in S : i <= x => i <= x - 1
        <5> TAKE i \in S
        <5>1. i # x /\ i \in Int
          BY <1>3, <1>4, <3>2
        <5> QED BY <1>11, <5>1
      <4> QED BY <1>11, <4>1, <4>2, <4>3
    <3> QED BY <3>1, <3>2
  <2> HIDE DEF y, x
  <2>3. PICK j \in 1..m : begin[j] = y
    BY <1>4, <1>10, <2>2 DEF Turned
  <2> DEFINE C == {i \in S : i < begin[j]}
  <2>4. Cardinality(C) = j - 1
    BY <1>10
  <2>5. IsFiniteSet(C)
    BY <1>10, FS_Subset
  <2>6. y \notin C /\ B = C \cup {y}
    <3>1. \A i : i \in B <=> i \in C \/ i = y
      <4> TAKE i
      <4>1. i \in S => i \in Int
        BY <1>4
      <4> QED BY <1>9, <1>11, <2>2, <2>3, <4>1
    <3>2. y \notin C
      BY <2>2, <2>3
    <3> QED BY <3>1, <3>2
  <2> HIDE DEF C
  <2>7. Cardinality(B) = Cardinality(C) + 1
    BY <2>5, <2>6, FS_AddElement
  <2>8. j \in Int
    OBVIOUS
  <2>9. Cardinality(B) = j
    BY <2>4, <2>7, <2>8
  <2> QED BY <2>1, <2>3, <2>9
<1> QED BY Zenon, <1>8, <1>10, <1>13, <1>14 DEF begin, S, L, c

\* More characters end at a later place.
LEMMA RunesGrow ==
    ASSUME NEW z, NEW i \in Int, NEW j \in Int, i <= j
    PROVE  RuneAt(z, i) <= RuneAt(z, j)
<1> DEFINE A == {q \in 1..i : ~Continues(z[q])}
           B == {q \in 1..j : ~Continues(z[q])}
<1>1. A \subseteq B
  OBVIOUS
<1>2. IsFiniteSet(B)
  <2>1. IsFiniteSet(1..j)
    BY 1 \in Int, FS_Interval
  <2> QED BY <2>1, FS_Subset
<1>3. RuneAt(z, i) = Cardinality(A) /\ RuneAt(z, j) = Cardinality(B)
  BY DEF RuneAt
<1> HIDE DEF A, B
<1>4. Cardinality(A) <= Cardinality(B)
  BY <1>1, <1>2, FS_Subset
<1> QED BY <1>3, <1>4

LEMMA WsRegionIs ==
    ASSUME NEW D, NEW s \in Seq(D), NEW old \in Seq(D), WellFormed(s), WellFormed(old), Collapse(old) # <<>>,
           NEW abs \in Occurrences(Collapse(s), Collapse(old))
    PROVE  LET r == WsMatchLoc(s, Collapse(s), abs, Len(Collapse(old))) IN
           /\ SoundRegion(s, r) /\ r.strategy = "whitespace_fuzzy"
           /\ Unshifted(s) => Collapse(TextAt(s, ToCharEnd(s, r))) = Collapse(old)
<1> DEFINE E == {Blanked(c) : c \in D}
           y == Collapse(s)
           z == Collapse(old)
           c == Survivors(s)
           b == Survivors(old)
           n == Len(z)
           o == abs - 1
           p == c[o + 1]
           e == c[o + n]
           r == WsMatchLoc(s, y, abs, n)
           begin == OrigForNorm(s)
           x1 == RuneAt(y, abs)
           x2 == RuneAt(y, abs + n - 1)
<1>1. /\ y \in Seq(E) /\ Len(y) = Len(c) /\ \A k \in 1..Len(c) : y[k] = Blanked(s[c[k]])
      /\ Turned(c, Len(c), Len(s), Surviving(s))
  BY SurvivorsAre
<1>2. /\ z \in Seq(E) /\ n = Len(b) /\ \A k \in 1..n : z[k] = Blanked(old[b[k]])
      /\ n > 0 => b[1] \in Visible(old) /\ b[n] \in Visible(old)
  BY SurvivorsAre
<1>3. /\ n > 0 => ~Continues(old[b[1]]) /\ old[b[n]] # "L"
      /\ n > 0 => ~IsSpace(old[b[1]]) /\ ~IsSpace(old[b[n]])
  <2>1. n > 0 => ~Continues(old[b[1]]) /\ old[b[n]] # "L"
    <3>1. n = Len(b)
      BY <1>2
    <3> HIDE DEF z, n
    <3>2. Len(b) > 0 => ~Continues(old[b[1]]) /\ old[b[Len(b)]] # "L"
      BY EndsWhole
    <3> QED BY <3>1, <3>2
  <2> QED BY <1>2, <2>1, SurvivingIs
<1>4. z # <<>> /\ WellFormed(s)
  OBVIOUS
<1>5. r = MatchLoc(begin[x1] - 1, begin[x2], "whitespace_fuzzy")
  BY DEF WsMatchLoc
<1>6. abs \in Occurrences(y, z)
  OBVIOUS
<1> HIDE DEF E, y, z, c, b, n, r
<1>7. n \in Nat \ {0} /\ 1 \in 1..n /\ n \in 1..n /\ n > 0
  <2>1. Len(z) \in Nat /\ Len(z) # 0
    BY <1>2, <1>4, LenProperties, EmptySeq
  <2> QED BY <2>1 DEF n
<1>8. abs \in Nat \ {0} /\ o \in 0..Len(y) /\ o + n \in o..Len(y) /\ Part(y, o, o + n) = z
  BY <1>1, <1>2, <1>6, OccursAt DEF n
<1>9. /\ o \in Nat /\ o + n <= Len(c) /\ \A k \in 1..n : o + k \in 1..Len(c)
      /\ o + 1 = abs /\ o + n = abs + n - 1 /\ o + 1 <= o + n
  <2>1. Len(y) \in Nat
    BY <1>1, LenProperties
  <2> DEFINE N == Len(c)
  <2>2. o \in Nat /\ o + n <= N /\ N \in Nat /\ o + 1 = abs /\ o + n = abs + n - 1
    BY <1>1, <1>7, <1>8, <2>1
  <2> HIDE DEF N, o
  <2>3. \A k \in 1..n : o + k \in 1..N
    BY <1>7, <2>2
  <2>4. o + 1 <= o + n
    BY <1>7, <2>2
  <2> QED BY <2>2, <2>3, <2>4 DEF N
<1>10. \A k \in 1..n : z[k] = y[o + k]
  <2>1. \A i \in 1..((o + n) - o) : Part(y, o, o + n)[i] = y[o + i]
    <3> DEFINE x == o + n
    <3>1. o \in 0..Len(y) /\ x \in o..Len(y)
      BY <1>8
    <3> HIDE DEF o, x
    <3>2. Copied(Part(y, o, x), E, y, o, x - o)
      BY Zenon, <1>1, <3>1, PartCopies
    <3> QED BY Zenon, <3>2 DEF Copied, x
  <2>2. (o + n) - o = n
    BY <1>7, <1>9
  <2> QED BY <1>8, <2>1, <2>2
<1>11. \A k \in 1..n : z[k] = Blanked(s[c[o + k]])
  BY <1>1, <1>9, <1>10
<1>12. o + 1 \in 1..Len(c) /\ o + n \in 1..Len(c)
  BY <1>7, <1>9
<1> HIDE DEF o
<1>13. s[p] = old[b[1]] /\ s[e] = old[b[n]] /\ ~Continues(s[p]) /\ s[e] # "L" /\ ~IsSpace(s[p]) /\ ~IsSpace(s[e])
  <2>1. Blanked(s[p]) = Blanked(old[b[1]]) /\ Blanked(s[e]) = Blanked(old[b[n]])
    BY <1>2, <1>7, <1>11
  <2>2. ~IsSpace(old[b[1]]) /\ ~IsSpace(old[b[n]])
    BY <1>3, <1>7
  <2> HIDE DEF p, e
  <2>3. Blanked(s[p]) = old[b[1]] /\ Blanked(s[e]) = old[b[n]]
    BY Zenon, <2>1, <2>2, BlankedIs
  <2>4. s[p] = old[b[1]] /\ s[e] = old[b[n]]
    BY Zenon, <2>2, <2>3, BlankedIs
  <2> QED BY <1>3, <1>7, <2>2, <2>4
<1>14. /\ x1 \in 1..Len(begin) /\ x2 \in 1..Len(begin) /\ Turned(begin, Len(begin), Len(s), Leads(s))
       /\ Unshifted(s) => begin[x1] = p
       /\ Unshifted(s) => begin[x2] = IF Continues(s[e]) THEN e - 1 ELSE e
  <2>1. abs \in 1..Len(c) /\ abs + n - 1 \in 1..Len(c) /\ c[abs] = p /\ c[abs + n - 1] = e
    BY <1>9, <1>12
  <2>2. ~Continues(s[c[abs]])
    BY <1>13, <2>1
  <2> HIDE DEF p, e
  <2> DEFINE k == abs + n - 1
  <2>3. k \in 1..Len(c) /\ c[k] = e /\ x2 = RuneAt(y, k)
    BY <2>1
  <2> HIDE DEF k, x2
  <2>4. /\ x1 \in 1..Len(begin) /\ Turned(begin, Len(begin), Len(s), Leads(s))
        /\ Unshifted(s) => begin[x1] = IF Continues(s[c[abs]]) THEN c[abs] - 1 ELSE c[abs]
    BY Zenon, <1>4, <2>1, RuneIs DEF c, y
  <2>5. /\ RuneAt(y, k) \in 1..Len(begin)
        /\ Unshifted(s) => begin[RuneAt(y, k)] = IF Continues(s[c[k]]) THEN c[k] - 1 ELSE c[k]
    BY Zenon, <1>4, <2>3, RuneIs DEF c, y
  <2> QED BY Zenon, <2>1, <2>2, <2>3, <2>4, <2>5
<1>15. Len(s) \in Nat
  BY LenProperties
<1>16. r.from = begin[x1] - 1 /\ r.end = begin[x2] /\ r.strategy = "whitespace_fuzzy"
  BY <1>5 DEF MatchLoc
<1>17. x1 <= x2
  <2>1. abs \in Int /\ abs + n - 1 \in Int /\ abs <= abs + n - 1
    BY <1>7, <1>8
  <2> QED BY <2>1, RunesGrow
<1> DEFINE t == Part(s, p - 1, e)
<1>18. /\ p \in 1..Len(s) /\ e \in 1..Len(s) /\ p - 1 < e
       /\ Len(Collapse(t)) = n /\ \A k \in 1..n : Collapse(t)[k] = Blanked(s[c[o + k]])
  <2>1. o + n <= Len(Survivors(s)) /\ p = Survivors(s)[o + 1] /\ e = Survivors(s)[o + n]
    BY <1>9 DEF c, p, e
  <2>2. p \in Visible(s) /\ e \in Visible(s)
    <3>1. p \in 1..Len(s) /\ e \in 1..Len(s)
      BY <1>1, <1>12 DEF Turned
    <3> HIDE DEF p, e
    <3> QED BY <1>13, <3>1, SurvivingIs
  <2> HIDE DEF p, e
  <2>3. n \in Nat \ {0} /\ o \in Nat
    BY <1>7, <1>9
  <2>4. o + n <= Len(Survivors(s))
    BY <2>1
  <2>5. Survive(s, o, n, p, e)
    BY Zenon, <2>1, <2>2, <2>3, <2>4 DEF Survive
  <2>6. Collapses(s, o, n, p, e)
    BY <2>5, PartCollapses
  <2> QED BY Zenon, <2>6 DEF Collapses, c
<1> HIDE DEF p, e, begin, x1, x2
<1>19. SoundRegion(s, r)
  <2> DEFINE u == begin[x1]
             v == begin[x2]
  <2>1. u \in 1..Len(s) /\ v \in 1..Len(s) /\ u <= v
    <3>1. begin[x1] <= begin[x2]
      BY <1>14, <1>17, TurnOrder
    <3> QED BY <1>14, <3>1 DEF Turned
  <2> HIDE DEF u, v
  <2>2. r.from = u - 1 /\ r.end = v
    BY <1>16 DEF u, v
  <2> QED BY <1>15, <2>1, <2>2 DEF SoundRegion
<1>20. p - 1 \in 0..Len(s) /\ e \in (p - 1)..Len(s) /\ e \in Int
  BY <1>15, <1>18
<1>21. ASSUME Unshifted(s) PROVE Collapse(TextAt(s, ToCharEnd(s, r))) = z
  <2> DEFINE q == ToCharEnd(s, r)
  <2>1. Lies(q, p - 1, e)
    <3>1. r.from = p - 1 /\ r.end = IF Continues(s[e]) THEN e - 1 ELSE e
      BY Zenon, <1>14, <1>16, <1>21
    <3>2. DOMAIN r = {"from", "end", "strategy"}
      BY <1>5 DEF MatchLoc
    <3>3. \A i \in 1..Len(s) : Continues(s[i]) <=> i > 1 /\ s[i - 1] = "L"
      BY <1>4 DEF WellFormed
    <3>4. CASE Continues(s[e])
      <4>1. r.end = e - 1 /\ (e - 1) + 1 = e /\ e - 1 < Len(s)
        BY <1>15, <1>18, <3>1, <3>4
      <4>2. q = [r EXCEPT !.end = r.end + 1]
        BY <3>4, <4>1 DEF ToCharEnd
      <4> HIDE DEF q
      <4>3. q.from = r.from /\ q.end = r.end + 1
        BY <1>5, <4>2 DEF MatchLoc
      <4> QED BY <3>1, <4>1, <4>3 DEF Lies
    <3>5. CASE ~Continues(s[e])
      <4>1. r.end = e
        BY <3>1, <3>5
      <4>2. ~(e < Len(s) /\ Continues(s[e + 1]))
        <5> SUFFICES ASSUME e < Len(s), Continues(s[e + 1]) PROVE FALSE
          OBVIOUS
        <5>1. e + 1 \in 1..Len(s) /\ (e + 1) - 1 = e
          BY <1>15, <1>18
        <5>2. s[e] = "L"
          BY <3>3, <5>1
        <5> QED BY <1>13, <5>2
      <4>3. q = r
        BY <4>1, <4>2 DEF ToCharEnd
      <4> QED BY <3>1, <4>1, <4>3 DEF Lies
    <3> QED BY <3>4, <3>5
  <2> HIDE DEF q
  <2>2. TextAt(s, q) = t
    BY <1>20, <2>1, RegionIs
  <2> DEFINE w == Collapse(t)
  <2>3. t \in Seq(D)
    BY <1>20, PartIs
  <2>4. w \in Seq(E)
    BY <2>3, SurvivorsAre DEF E
  <2>5. Len(w) = n /\ \A k \in 1..n : w[k] = z[k]
    BY <1>11, <1>18
  <2> HIDE DEF w, t
  <2>6. z \in Seq(E) /\ Len(z) = n
    BY <1>2 DEF n
  <2>7. w = z
    BY <2>4, <2>5, <2>6
  <2> QED BY Zenon, <2>2, <2>7 DEF w, q
<1> QED BY Zenon, <1>16, <1>19, <1>21 DEF r, y, n, z

-----------------------------------------------------------------------------
(* Lines *)

\* The lines of a text: the k-th is what is between the k-th cut and the next.
Lined(s, N, c) ==
    /\ N \in Nat \ {0} /\ c[1] = 0 /\ c[N + 1] = Len(s)
    /\ \A k \in 1..(N + 1) : c[k] \in 0..Len(s)
    /\ \A k \in 1..N : c[k] <= c[k + 1]
    /\ \A j, k \in 1..N : j < k => c[j] < c[k]
    /\ \A k \in 2..N : c[k] \in 1..Len(s) /\ s[c[k]] = "nl"
    /\ \A x \in 1..Len(s) : s[x] = "nl" => \E k \in 2..N : c[k] = x
    /\ Len(LineSpans(s)) = N
    /\ \A k \in 1..N : LineSpans(s)[k][1] = c[k] + 1 /\ LineSpans(s)[k][2] = c[k + 1]
    /\ Len(Lines(s)) = N /\ Len(TrimmedLines(s)) = N
    /\ \A k \in 1..N : Lines(s)[k] = Part(s, c[k], c[k + 1])
    /\ \A k \in 1..N : TrimmedLines(s)[k] = TrimSpace(Part(s, c[k], c[k + 1]))

LEMMA LinedIs ==
    ASSUME NEW D, NEW s \in Seq(D)
    PROVE  \E N, c : Lined(s, N, c)
<1> DEFINE L == Len(s)
           B == {i \in 1..L : s[i] = "nl"}
           at == InTurn(L, B)
           p == Len(at)
           N == p + 1
           cuts == <<0>> \o at
           c == [k \in 1..(N + 1) |-> IF k <= N THEN cuts[k] ELSE L]
           z == LineSpans(s)
           v == Lines(s)
           w == TrimmedLines(s)
<1>1. L \in Nat
  BY LenProperties
<1>2. Turned(at, p, L, B)
  <2> HIDE DEF L, B
  <2> QED BY <1>1, TurnedIs
<1>3. z = [k \in 1..Len(cuts) |-> <<cuts[k] + 1, IF k < Len(cuts) THEN cuts[k + 1] ELSE L>>]
  BY DEF LineSpans
<1>4. /\ v = [k \in 1..Len(z) |-> SubSeq(s, z[k][1], z[k][2])]
      /\ w = [k \in 1..Len(v) |-> TrimSpace(v[k])]
  BY DEF Lines, TrimmedLines
<1>5. \A x \in 1..L : x \in B <=> s[x] = "nl"
  OBVIOUS
<1> HIDE DEF at, B, z, v, w
<1>6. /\ p \in Nat /\ at \in Seq(1..L)
      /\ \A i, j \in 1..p : i < j => at[i] < at[j]
      /\ \A i \in 1..p : at[i] \in B /\ at[i] \in 1..L
      /\ \A o \in 1..L : o \in B => \E i \in 1..p : at[i] = o
  BY <1>2 DEF Turned
<1>7. Len(cuts) = N /\ cuts[1] = 0 /\ \A k \in 2..N : k - 1 \in 1..p /\ cuts[k] = at[k - 1]
  <2> DEFINE E == 0..L
             head == <<0>>
  <2>1. head \in Seq(E) /\ Len(head) = 1 /\ head[1] = 0
    BY <1>1
  <2>2. at \in Seq(E)
    BY <1>6, <1>1
  <2> HIDE DEF E, head, p
  <2>3. /\ Len(head \o at) = 1 + Len(at)
        /\ \A i \in 1..(1 + Len(at)) : (head \o at)[i] = IF i <= 1 THEN head[i] ELSE at[i - 1]
    BY <2>1, <2>2, ConcatProperties
  <2>4. cuts = head \o at
    BY DEF head
  <2> HIDE DEF cuts
  <2>5. Len(cuts) = N /\ \A i \in 1..N : cuts[i] = IF i <= 1 THEN head[i] ELSE at[i - 1]
    BY <1>6, <2>3, <2>4 DEF p
  <2>6. 1 \in 1..N /\ \A k \in 2..N : k \in 1..N /\ k - 1 \in 1..p /\ ~(k <= 1)
    BY <1>6
  <2> QED BY <2>1, <2>5, <2>6
<1> HIDE DEF cuts, p
<1>8. N \in Nat \ {0} /\ 1 \in 1..(N + 1) /\ 1 \in 1..N /\ N + 1 \in 1..(N + 1) /\ ~(N + 1 <= N)
  BY <1>6
<1>9. \A k \in 1..N : k \in 1..(N + 1) /\ k + 1 \in 1..(N + 1) /\ k <= N /\ (k < N <=> k + 1 <= N)
  BY <1>8
<1> HIDE DEF N
<1>10. /\ c[N + 1] = L
       /\ \A k \in 1..N : c[k] = cuts[k] /\ c[k + 1] = IF k < N THEN cuts[k + 1] ELSE L
  BY <1>8, <1>9
<1> HIDE DEF c
<1>11. \A k \in 2..N : k - 1 \in 1..p /\ c[k] = at[k - 1] /\ c[k] \in 1..L /\ k \in 1..N
  <2> TAKE k \in 2..N
  <2>1. k \in 1..N
    BY <1>8
  <2> QED BY <1>6, <1>7, <1>10, <2>1
<1>12. c[1] = 0
  BY <1>7, <1>8, <1>10
<1>13. \A k \in 1..(N + 1) : c[k] \in 0..L
  <2> TAKE k \in 1..(N + 1)
  <2>1. CASE k = 1
    BY <1>1, <1>12, <2>1
  <2>2. CASE k = N + 1
    BY <1>1, <1>10, <2>2
  <2>3. CASE k # 1 /\ k # N + 1
    <3>1. k \in 2..N
      BY <1>8, <2>3
    <3> QED BY <1>1, <1>11, <3>1
  <2> QED BY <2>1, <2>2, <2>3
<1>14. \A j, k \in 1..N : j < k => c[j] < c[k]
  <2> TAKE j \in 1..N, k \in 1..N
  <2> SUFFICES ASSUME j < k PROVE c[j] < c[k]
    OBVIOUS
  <2>1. k \in 2..N
    BY <1>8
  <2>2. CASE j = 1
    BY <1>1, <1>11, <1>12, <2>1, <2>2
  <2>3. CASE j # 1
    <3>1. j \in 2..N /\ j - 1 < k - 1
      BY <1>8, <2>3
    <3>2. at[j - 1] < at[k - 1]
      BY <1>6, <1>11, <2>1, <3>1
    <3> QED BY <1>11, <2>1, <3>1, <3>2
  <2> QED BY <2>2, <2>3
<1>15. \A k \in 1..N : c[k] <= c[k + 1]
  <2> TAKE k \in 1..N
  <2>1. CASE k = N
    <3>1. c[k] \in 0..L /\ c[k + 1] = L
      BY <1>8, <1>9, <1>10, <1>13, <2>1
    <3> QED BY <1>1, <3>1
  <2>2. CASE k # N
    <3>1. k \in 1..N /\ k + 1 \in 1..N /\ k < k + 1
      BY <1>8, <2>2
    <3>2. c[k] < c[k + 1]
      BY <1>14, <3>1
    <3>3. c[k] \in Int /\ c[k + 1] \in Int
      BY <1>9, <1>13
    <3> QED BY <3>2, <3>3
  <2> QED BY <2>1, <2>2
<1>16. \A k \in 2..N : s[c[k]] = "nl"
  BY <1>5, <1>6, <1>11
<1>17. \A x \in 1..L : s[x] = "nl" => \E k \in 2..N : c[k] = x
  <2> TAKE x \in 1..L
  <2> SUFFICES ASSUME s[x] = "nl" PROVE \E k \in 2..N : c[k] = x
    OBVIOUS
  <2>1. PICK i \in 1..p : at[i] = x
    BY <1>5, <1>6
  <2>2. i + 1 \in 2..N /\ (i + 1) - 1 = i
    BY <1>6 DEF N
  <2>3. c[i + 1] = at[i]
    BY <1>11, <2>2
  <2> QED BY <2>1, <2>2, <2>3
<1>18. Len(z) = N /\ \A k \in 1..N : z[k][1] = c[k] + 1 /\ z[k][2] = c[k + 1]
  <2> DEFINE f(k) == cuts[k] + 1
             g(k) == IF k < N THEN cuts[k + 1] ELSE L
  <2>1. z = [k \in 1..N |-> <<f(k), g(k)>>]
    BY <1>3, <1>7
  <2>2. \A k \in 1..N : f(k) = c[k] + 1 /\ g(k) = c[k + 1]
    BY <1>10
  <2> HIDE DEF f, g
  <2>3. Len(z) = N /\ \A k \in 1..N : z[k][1] = f(k) /\ z[k][2] = g(k)
    BY <1>8, <2>1
  <2> QED BY <2>2, <2>3
<1>19. Len(v) = N /\ \A k \in 1..N : v[k] = Part(s, c[k], c[k + 1])
  <2> DEFINE f(k) == SubSeq(s, z[k][1], z[k][2])
  <2>1. v = [k \in 1..N |-> f(k)]
    BY <1>4, <1>18
  <2>2. \A k \in 1..N : f(k) = Part(s, c[k], c[k + 1])
    <3> TAKE k \in 1..N
    <3>1. z[k][1] = c[k] + 1 /\ z[k][2] = c[k + 1]
      BY <1>18
    <3> QED BY Zenon, <3>1 DEF Part
  <2> HIDE DEF f
  <2>3. Len(v) = N /\ \A k \in 1..N : v[k] = f(k)
    BY <1>8, <2>1
  <2> QED BY <2>2, <2>3
<1>21. Len(w) = N /\ \A k \in 1..N : w[k] = TrimSpace(Part(s, c[k], c[k + 1]))
  <2> DEFINE f(k) == TrimSpace(v[k])
  <2>1. w = [k \in 1..N |-> f(k)]
    BY <1>4, <1>19
  <2>2. \A k \in 1..N : f(k) = TrimSpace(Part(s, c[k], c[k + 1]))
    BY <1>19
  <2> HIDE DEF f
  <2>3. Len(w) = N /\ \A k \in 1..N : w[k] = f(k)
    BY <1>8, <2>1
  <2> QED BY <2>2, <2>3
<1>20. Lined(s, N, c)
  <2>1. \A k \in 2..N : c[k] \in 1..L /\ s[c[k]] = "nl"
    BY <1>11, <1>16
  <2> QED BY Zenon, <1>8, <1>10, <1>12, <1>13, <1>14, <1>15, <1>17, <1>18, <1>19, <1>21, <2>1 DEF Lined, L, z, v, w
<1> QED BY <1>20

LEMMA EmptyPart ==
    ASSUME NEW D, NEW s \in Seq(D), NEW a \in 0..Len(s)
    PROVE  Part(s, a, a) = <<>>
<1> DEFINE e == a
           v == Part(s, a, e)
<1>1. Len(s) \in Nat
  BY LenProperties
<1>2. e \in a..Len(s) /\ e - a = 0
  BY <1>1
<1> HIDE DEF e
<1>3. v \in Seq(D) /\ Len(v) = e - a
  BY <1>2, PartIs
<1> HIDE DEF v
<1>4. v = <<>>
  BY <1>2, <1>3, EmptySeq
<1> QED BY <1>4 DEF v, e

\* The trimmed text of what has no ink is empty, and of what has ink is a part of it.
LEMMA TrimmedIs ==
    ASSUME NEW D, NEW s \in Seq(D)
    PROVE  /\ Inked(s) = {} => TrimSpace(s) = <<>>
           /\ Len(s) = 0 => Inked(s) = {}
           /\ \E a \in 0..Len(s) : \E e \in a..Len(s) : TrimSpace(s) = Part(s, a, e)
<1> DEFINE L == Len(s)
           ink == Visible(s)
<1>1. L \in Nat
  BY LenProperties
<1>2. ink \in SUBSET (1..L) /\ Inked(s) \in SUBSET (1..L) /\ ink \subseteq Inked(s)
  BY SurvivingIs
<1>3. TrimSpace(s) = IF ink = {} THEN <<>> ELSE SubSeq(s, Min(ink), Max(ink))
  BY DEF TrimSpace
<1> HIDE DEF ink, L
<1>4. ink \in SUBSET Int /\ \A k \in ink : 1 <= k /\ k <= L
  BY <1>1, <1>2
<1>5. (L = 0 => Inked(s) = {}) /\ (Inked(s) = {} => ink = {})
  BY <1>1, <1>2
<1>6. \E a \in 0..L : \E e \in a..L : TrimSpace(s) = Part(s, a, e)
  <2>1. CASE ink = {}
    <3>1. Part(s, 0, 0) = <<>>
      <4>1. 0 \in 0..Len(s)
        BY <1>1 DEF L
      <4> QED BY <4>1, EmptyPart
    <3>2. 0 \in 0..L
      BY <1>1
    <3> QED BY <1>3, <2>1, <3>1, <3>2
  <2>2. CASE ink # {}
    <3>1. 1 \in Int /\ L \in Int
      BY <1>1
    <3>2. PICK x \in ink : \A k \in ink : x <= k
      BY <1>4, <2>2, <3>1, LeastExists
    <3>3. PICK y \in ink : \A k \in ink : k <= y
      BY <1>4, <2>2, <3>1, GreatestExists
    <3>4. Min(ink) = x
      BY <1>4, <3>2, MinIs
    <3>5. Max(ink) = y
      BY <1>4, <3>3, MaxIs
    <3>6. x - 1 \in 0..L /\ y \in (x - 1)..L /\ (x - 1) + 1 = x
      BY <1>1, <1>4, <3>2, <3>3
    <3>7. TrimSpace(s) = Part(s, x - 1, y)
      BY Zenon, <1>3, <2>2, <3>4, <3>5, <3>6 DEF Part
    <3> QED BY <3>6, <3>7
  <2> QED BY <2>1, <2>2
<1> QED BY <1>3, <1>5, <1>6 DEF L, ink

\* w are the lines from the i-th on, n of them, and perhaps an empty one.
LinesFrom(w, all, i, n) ==
    /\ Len(w) \in Nat /\ n <= Len(w)
    /\ \A k \in 1..n : w[k] = all[(i + k) - 1]
    /\ \A k \in 1..Len(w) : k > n => w[k] = <<>>

\* The lines of a part that begins and ends at cuts are those of the whole, and behind a
\* break at its end one more, which is empty.
LEMMA LinesOfPart ==
    ASSUME NEW D, NEW s \in Seq(D), NEW N, NEW c, Lined(s, N, c),
           NEW i \in 1..N, NEW n \in Nat \ {0}, i + n <= N + 1
    PROVE  LinesFrom(Lines(Part(s, c[i], c[i + n])), Lines(s), i, n)
<1> DEFINE L == Len(s)
           a == c[i]
           e == c[i + n]
           t == Part(s, a, e)
           m == e - a
           q == IF i + n <= N THEN n ELSE n - 1
           v == [k \in 1..q |-> c[i + k] - a]
<1>1. /\ L \in Nat /\ N \in Nat \ {0} /\ c[1] = 0 /\ c[N + 1] = L
      /\ \A k \in 1..(N + 1) : c[k] \in 0..L
      /\ \A k \in 1..N : c[k] <= c[k + 1]
      /\ \A j, k \in 1..N : j < k => c[j] < c[k]
      /\ \A k \in 2..N : c[k] \in 1..L /\ s[c[k]] = "nl"
      /\ \A x \in 1..L : s[x] = "nl" => \E k \in 2..N : c[k] = x
      /\ \A k \in 1..N : Lines(s)[k] = Part(s, c[k], c[k + 1])
  <2>1. Len(s) \in Nat
    BY LenProperties
  <2> QED BY Zenon, <2>1 DEF Lined, L
<1> HIDE DEF L
<1>2. \A k \in 1..N, j \in 1..(N + 1) : k <= j => c[k] <= c[j]
  <2> TAKE k \in 1..N, j \in 1..(N + 1)
  <2> SUFFICES ASSUME k <= j PROVE c[k] <= c[j]
    OBVIOUS
  <2>1. k \in 1..(N + 1)
    BY <1>1
  <2>2. c[k] \in 0..L /\ c[j] \in 0..L
    BY <1>1, <2>1
  <2>3. CASE j = N + 1
    BY <1>1, <2>2, <2>3
  <2>4. CASE j # N + 1 /\ k = j
    BY <1>1, <2>2, <2>4
  <2>5. CASE j # N + 1 /\ k # j
    <3>1. j \in 1..N /\ k < j
      BY <1>1, <2>5
    <3>2. c[k] < c[j]
      BY <1>1, <3>1
    <3> QED BY <1>1, <2>2, <3>2
  <2> QED BY <2>3, <2>4, <2>5
<1>3. /\ i \in 1..(N + 1) /\ i + n \in 1..(N + 1) /\ i <= i + n
      /\ \A k \in 0..n : i + k \in 1..(N + 1) /\ i <= i + k /\ (k < n => i + k \in 1..N)
  BY <1>1
<1>4. a \in 0..L /\ e \in a..L /\ a \in Nat /\ e \in Nat /\ m \in Nat /\ a <= e
  <2>1. c[i] <= c[i + n] /\ c[i] \in 0..L /\ c[i + n] \in 0..L
    BY <1>1, <1>2, <1>3
  <2> QED BY <1>1, <2>1
<1>5. t \in Seq(D) /\ Len(t) = m /\ \A x \in 1..m : t[x] = s[a + x]
  <2> HIDE DEF a, e
  <2>1. a \in 0..Len(s) /\ e \in a..Len(s)
    BY <1>4 DEF L
  <2> QED BY <2>1, PartIs
<1>6. PICK M, d : Lined(t, M, d)
  BY <1>5, LinedIs
<1> DEFINE w == Lines(t)
           u == [k \in 1..(M - 1) |-> d[k + 1]]
<1>7. /\ M \in Nat \ {0} /\ d[1] = 0 /\ d[M + 1] = m
      /\ \A j, k \in 1..M : j < k => d[j] < d[k]
      /\ \A k \in 2..M : d[k] \in 1..m /\ t[d[k]] = "nl"
      /\ \A x \in 1..m : t[x] = "nl" => \E k \in 2..M : d[k] = x
      /\ Len(w) = M
      /\ \A k \in 1..M : w[k] = Part(t, d[k], d[k + 1])
  <2> HIDE DEF m, t
  <2>1. Len(t) = m
    BY <1>5
  <2> QED BY Zenon, <1>6, <2>1 DEF Lined
<1> HIDE DEF w, t
<1>8. /\ q \in Nat /\ (q = n \/ q = n - 1)
      /\ \A k \in 1..q : i + k \in 2..N /\ i + k \in 1..N /\ i < i + k /\ i + k <= i + n /\ k \in 0..n
  BY <1>1, <1>3
<1> HIDE DEF q
<1>9. \A k \in 1..q : v[k] \in 1..m /\ a + v[k] = c[i + k] /\ t[v[k]] = "nl"
  <2> TAKE k \in 1..q
  <2>1. c[i] < c[i + k] /\ c[i + k] <= c[i + n]
    BY <1>1, <1>2, <1>3, <1>8
  <2> DEFINE x == c[i + k]
  <2>2. x \in 1..L /\ s[x] = "nl"
    BY <1>1, <1>8
  <2>3. v[k] = x - a /\ a < x /\ x <= e
    BY <2>1
  <2> HIDE DEF x, v, a, e
  <2>4. v[k] \in 1..m /\ a + v[k] = x
    BY <1>1, <1>4, <2>2, <2>3
  <2>5. t[v[k]] = "nl"
    BY <1>5, <2>2, <2>4
  <2> QED BY <2>4, <2>5 DEF x
<1>10. \A j, k \in 1..q : j < k => v[j] < v[k]
  <2> TAKE j \in 1..q, k \in 1..q
  <2> SUFFICES ASSUME j < k PROVE v[j] < v[k]
    OBVIOUS
  <2>1. i + j \in 1..N /\ i + k \in 1..N /\ i + j < i + k
    BY <1>8
  <2>2. c[i + j] < c[i + k]
    BY <1>1, <2>1
  <2> HIDE DEF v, a, e, m
  <2>3. v[j] \in Int /\ v[k] \in Int /\ a + v[j] = c[i + j] /\ a + v[k] = c[i + k]
    BY <1>9
  <2> QED BY <1>4, <2>2, <2>3
<1>11. \A k \in 1..(M - 1) : u[k] = d[k + 1] /\ k + 1 \in 2..M /\ k + 1 \in 1..M /\ u[k] \in 1..m /\ t[u[k]] = "nl"
  BY <1>7
<1>12. \A j, k \in 1..(M - 1) : j < k => u[j] < u[k]
  <2> TAKE j \in 1..(M - 1), k \in 1..(M - 1)
  <2> SUFFICES ASSUME j < k PROVE u[j] < u[k]
    OBVIOUS
  <2>1. j + 1 < k + 1
    BY <1>7
  <2> HIDE DEF u
  <2> QED BY <1>7, <1>11, <2>1
<1> HIDE DEF v, u
<1>13. \A x \in 1..m : t[x] = "nl" => \E k \in 1..q : v[k] = x
  <2> TAKE x \in 1..m
  <2> SUFFICES ASSUME t[x] = "nl" PROVE \E k \in 1..q : v[k] = x
    OBVIOUS
  <2> HIDE DEF a, e
  <2>1. a + x \in 1..L /\ s[a + x] = "nl" /\ a < a + x /\ a + x <= e
    BY <1>1, <1>4, <1>5
  <2>2. PICK k \in 2..N : c[k] = a + x
    BY <1>1, <2>1
  <2>3. k \in 1..N /\ k \in 1..(N + 1) /\ k \in Int
    BY <1>1
  <2>4. i < k
    <3> SUFFICES ASSUME k <= i PROVE FALSE
      BY <1>1, <2>3
    <3>1. c[k] <= c[i]
      BY <1>2, <1>3, <2>3
    <3> QED BY <1>4, <2>1, <2>2, <3>1 DEF a
  <2>5. k <= i + n
    <3> SUFFICES ASSUME i + n < k PROVE FALSE
      BY <1>1, <2>3
    <3>1. i + n \in 1..N
      BY <1>1, <1>3, <2>3
    <3>2. c[i + n] < c[k]
      BY <1>1, <2>3, <3>1
    <3> QED BY <1>4, <2>1, <2>2, <3>2 DEF e
  <2>6. k - i \in 1..q /\ i + (k - i) = k
    BY <1>1, <2>3, <2>4, <2>5 DEF q
  <2>7. v[k - i] \in 1..m /\ a + v[k - i] = a + x
    BY <1>9, <2>2, <2>6
  <2>8. v[k - i] = x
    BY <1>4, <2>7
  <2> QED BY <2>6, <2>8
<1>14. \A x \in 1..m : t[x] = "nl" => \E k \in 1..(M - 1) : u[k] = x
  <2> TAKE x \in 1..m
  <2> SUFFICES ASSUME t[x] = "nl" PROVE \E k \in 1..(M - 1) : u[k] = x
    OBVIOUS
  <2>1. PICK k \in 2..M : d[k] = x
    BY <1>7
  <2>2. k - 1 \in 1..(M - 1) /\ (k - 1) + 1 = k
    BY <1>7
  <2> QED BY <1>11, <2>1, <2>2
<1>15. M - 1 = q /\ \A k \in 1..(M - 1) : u[k] = v[k]
  <2> HIDE DEF m, a, e
  <2> DEFINE p == M - 1
  <2>1. p \in Nat
    BY <1>7
  <2>2. \A k \in 1..p : u[k] \in Int /\ u[k] \in 1..m /\ t[u[k]] = "nl"
    BY <1>4, <1>11
  <2>3. \A k \in 1..q : v[k] \in Int /\ v[k] \in 1..m /\ t[v[k]] = "nl"
    BY <1>4, <1>9
  <2>4. \A k \in 1..p : \E j \in 1..q : v[j] = u[k]
    BY <1>13, <2>2
  <2>5. \A k \in 1..q : \E j \in 1..p : u[j] = v[k]
    BY <1>14, <2>3
  <2>6. \A j, k \in 1..p : j < k => u[j] < u[k]
    BY <1>12
  <2> HIDE DEF p
  <2>7. SameCells(p, u, q, v)
    BY Zenon, <1>8, <1>10, <2>1, <2>2, <2>3, <2>4, <2>5, <2>6 DEF SameCells
  <2>8. p = q /\ \A k \in 1..p : u[k] = v[k]
    BY <2>7, OneOrder
  <2> QED BY <2>8 DEF p
<1>16. M = q + 1
  BY <1>7, <1>8, <1>15
<1>17. \A k \in 1..M : d[k] = c[(i + k) - 1] - a
  <2> TAKE k \in 1..M
  <2>1. CASE k = 1
    <3>1. (i + k) - 1 = i
      BY <2>1
    <3> QED BY <1>4, <1>7, <2>1, <3>1
  <2>2. CASE k # 1
    <3> DEFINE j == k - 1
    <3>1. j \in 1..(M - 1) /\ j + 1 = k /\ i + j = (i + k) - 1 /\ j \in 1..q
      <4>1. M \in Nat \ {0} /\ M = q + 1 /\ q \in Nat
        BY <1>7, <1>8, <1>16
      <4>2. i \in Nat
        BY <1>1
      <4> QED BY <2>2, <4>1, <4>2
    <3> HIDE DEF j
    <3>2. d[k] = v[j]
      BY <1>11, <1>15, <3>1
    <3>3. v[j] \in 1..m /\ a + v[j] = c[i + j]
      BY <1>9, <3>1
    <3> HIDE DEF a, m
    <3>4. v[j] = c[i + j] - a
      <4> DEFINE x == v[j]
                 y == c[i + j]
      <4>1. x \in Int /\ a + x = y
        BY <3>3
      <4> HIDE DEF x, y
      <4>2. x = y - a
        BY <1>4, <4>1
      <4> QED BY <4>2 DEF x, y
    <3> QED BY Zenon, <3>1, <3>2, <3>4
  <2> QED BY <2>1, <2>2
<1>18. \A k \in 1..n : k \in 1..M /\ d[k] = c[(i + k) - 1] - a /\ d[k + 1] = c[i + k] - a
  <2> TAKE k \in 1..n
  <2>1. k \in 1..M
    BY <1>8, <1>16
  <2>2. CASE k + 1 \in 1..M
    <3>1. (i + (k + 1)) - 1 = i + k
      OBVIOUS
    <3>2. d[k + 1] = c[(i + (k + 1)) - 1] - a
      BY <1>17, <2>2
    <3> QED BY Zenon, <1>17, <2>1, <3>1, <3>2
  <2>3. CASE k + 1 \notin 1..M
    <3>1. k + 1 = M + 1 /\ k = n
      BY <1>8, <1>16, <2>1, <2>3
    <3>2. d[k + 1] = m /\ c[i + k] - a = m
      BY <1>7, <3>1
    <3> QED BY Zenon, <1>17, <2>1, <3>2
  <2> QED BY <2>2, <2>3
<1>19. ASSUME NEW k \in 1..n PROVE w[k] = Lines(s)[(i + k) - 1]
  <2> DEFINE j == (i + k) - 1
             x == c[j]
             y == c[j + 1]
  <2>1. j \in 1..N /\ j + 1 = i + k /\ i <= j /\ j + 1 \in 1..(N + 1) /\ j + 1 <= i + n /\ j \in 1..(N + 1)
    BY <1>1
  <2>2. a <= x /\ x <= y /\ x \in 0..L /\ y \in 0..L
    <3> HIDE DEF j
    <3> QED BY <1>1, <1>2, <1>3, <2>1
  <2>3. y <= e
    <3>1. CASE j + 1 = i + n
      BY <1>4, <3>1
    <3>2. CASE j + 1 # i + n
      <4> HIDE DEF j
      <4>1. j + 1 \in 1..N
        BY <1>1, <1>3, <2>1, <3>2
      <4> QED BY <1>2, <1>3, <2>1, <4>1
    <3> QED BY <3>1, <3>2
  <2>4. w[k] = Part(t, x - a, y - a)
    <3>1. k \in 1..M /\ d[k] = x - a /\ d[k + 1] = y - a
      BY Zenon, <1>18, <2>1
    <3> QED BY Zenon, <1>7, <3>1
  <2>5. Lines(s)[j] = Part(s, x, y)
    <3> HIDE DEF j
    <3> QED BY <1>1, <2>1
  <2> HIDE DEF x, y, j, a, e
  <2>6. /\ a \in 0..Len(s) /\ e \in a..Len(s) /\ x - a \in 0..(e - a) /\ y - a \in (x - a)..(e - a)
        /\ a + (x - a) = x /\ a + (y - a) = y
    BY <1>1, <1>4, <2>2, <2>3 DEF L
  <2>7. Part(Part(s, a, e), x - a, y - a) = Part(s, a + (x - a), a + (y - a))
    BY <2>6, PartOfPart
  <2>8. Part(t, x - a, y - a) = Part(s, x, y)
    BY Zenon, <2>6, <2>7 DEF t
  <2> QED BY Zenon, <2>4, <2>5, <2>8 DEF j
<1>20. ASSUME NEW k \in 1..M, k > n PROVE w[k] = <<>>
  <2>1. k = n + 1 /\ M = n + 1 /\ (i + k) - 1 = i + n
    BY <1>8, <1>16, <1>20
  <2>2. d[k] = m /\ d[k + 1] = m
    <3>1. d[k] = c[i + n] - a
      BY <1>17, <2>1
    <3> QED BY <1>7, <2>1, <3>1
  <2> HIDE DEF m
  <2>3. m \in 0..Len(t) /\ m \in m..Len(t) /\ m - m = 0
    BY <1>4, <1>5
  <2>4. Part(t, m, m) = <<>>
    BY <1>5, <2>3, EmptyPart
  <2> QED BY Zenon, <1>7, <2>2, <2>4
<1>21. M \in Nat /\ n <= M
  BY <1>7, <1>8, <1>16
<1>22. LinesFrom(w, Lines(s), i, n)
  <2>1. Len(w) = M
    BY <1>7
  <2> QED BY Zenon, <1>19, <1>20, <1>21, <2>1 DEF LinesFrom
<1> QED BY Zenon, <1>22 DEF w, t

\* How many lines of a text are not empty.
LEMMA HowManyLines ==
    ASSUME NEW s, NEW n \in Nat, Len(Lines(s)) \in Nat, n <= Len(Lines(s)),
           \A k \in 1..n : Inked(Lines(s)[k]) # {},
           \A k \in 1..Len(Lines(s)) : k > n => Inked(Lines(s)[k]) = {}
    PROVE  Len(NonEmptyLines(s)) = n
<1> DEFINE all == Lines(s)
           z == TrimmedLines(s)
           M == Len(all)
           S == {k \in 1..M : Inked(all[k]) # {}}
<1>1. M \in Nat /\ n \in Nat /\ n <= M
  OBVIOUS
<1>2. S = 1..n
  <2>1. \A k \in 1..M : k <= n => k \in 1..n
    BY <1>1
  <2>2. \A k \in 1..n : k \in 1..M
    BY <1>1
  <2>3. \A k \in 1..M : ~(k <= n) => k > n
    BY <1>1
  <2> QED BY <2>1, <2>2, <2>3
<1>3. NonEmptyLines(s) = [k \in 1..Len(InTurn(M, S)) |-> z[InTurn(M, S)[k]]]
  <2>1. NonEmptyLines(s) = [k \in 1..Len(InTurn(Len(z), S)) |-> z[InTurn(Len(z), S)[k]]]
    BY DEF NonEmptyLines, Picked
  <2>2. z = [k \in 1..M |-> TrimSpace(all[k])]
    BY DEF TrimmedLines
  <2> HIDE DEF S, z, all, M
  <2>3. Len(z) = M
    BY <1>1, <2>2
  <2> QED BY Zenon, <2>1, <2>3
<1> HIDE DEF S, z, all, M
<1>4. S \in SUBSET (1..M)
  BY <1>1, <1>2
<1>5. Len(InTurn(M, S)) = Cardinality(S)
  BY <1>1, <1>4, InTurnSizes
<1>6. Cardinality(S) = n
  <2>1. 1 \in Int /\ n \in Int
    BY <1>1
  <2>2. Cardinality(1..n) = IF 1 > n THEN 0 ELSE n - 1 + 1
    BY <2>1, FS_Interval
  <2>3. (IF 1 > n THEN 0 ELSE n - 1 + 1) = n
    BY <1>1
  <2> QED BY Zenon, <1>2, <2>2, <2>3
<1>7. NonEmptyLines(s) = [k \in 1..n |-> z[InTurn(M, S)[k]]]
  BY Zenon, <1>3, <1>5, <1>6
<1> QED BY <1>1, <1>7

LineSound(content, old, r) ==
    /\ Len(NonEmptyLines(TextAt(content, r))) = Len(NonEmptyLines(old))
    /\ r.from = 0 \/ content[r.from] = "nl"

LEMMA LineRegionIs ==
    ASSUME NEW D, NEW s \in Seq(D), NEW old, Len(NonEmptyLines(old)) \in Nat, NEW r \in LineFuzzyMatch(s, old)
    PROVE  SoundRegion(s, r) /\ LineSound(s, old, r) /\ r.strategy = "line_fuzzy"
<1> DEFINE file == TrimmedLines(s)
           all == Lines(s)
           asked == NonEmptyLines(old)
           n == Len(asked)
           z == LineSpans(s)
<1>1. PICK N, c : Lined(s, N, c)
  BY LinedIs
<1>2. /\ N \in Nat \ {0} /\ c[1] = 0 /\ Len(file) = N
      /\ \A k \in 1..(N + 1) : c[k] \in 0..Len(s)
      /\ \A k \in 2..N : c[k] \in 1..Len(s) /\ s[c[k]] = "nl"
      /\ \A k \in 1..N : z[k][1] = c[k] + 1 /\ z[k][2] = c[k + 1]
      /\ \A k \in 1..N : file[k] = TrimSpace(Part(s, c[k], c[k + 1]))
      /\ \A k \in 1..N : all[k] = Part(s, c[k], c[k + 1])
      /\ \A k \in 1..N : c[k] <= c[k + 1]
      /\ \A j, k \in 1..N : j < k => c[j] < c[k]
      /\ c[N + 1] = Len(s)
  BY Zenon, <1>1 DEF Lined
<1>3. n # 0 /\ \E i \in {k \in 1..(Len(file) - n + 1) : \A j \in 0..(n - 1) : LinePairMatches(file[k + j], asked[j + 1])} :
         r = MatchLoc(z[i][1] - 1, z[i + n - 1][2], "line_fuzzy")
  BY DEF LineFuzzyMatch
<1>4. n \in Nat
  OBVIOUS
<1>5. \A x, y : LinePairMatches(x, y) => x # <<>>
  BY DEF LinePairMatches
<1> HIDE DEF file, all, asked, z, n
<1>6. PICK i \in 1..(N - n + 1) : /\ \A j \in 0..(n - 1) : file[i + j] # <<>>
                                  /\ r = MatchLoc(z[i][1] - 1, z[i + n - 1][2], "line_fuzzy")
  BY <1>2, <1>3, <1>5
<1>7. /\ n \in Nat \ {0} /\ i \in 1..N /\ i + n <= N + 1 /\ (i + n) - 1 \in 1..N /\ ((i + n) - 1) + 1 = i + n
      /\ i + n \in 1..(N + 1) /\ i \in 1..(N + 1) /\ i + n - 1 = (i + n) - 1 /\ i + 1 \in 1..(N + 1)
  BY <1>2, <1>3, <1>4
<1> DEFINE a == c[i]
           e == c[i + n]
           t == Part(s, a, e)
           w == Lines(t)
<1>8. /\ Len(w) \in Nat /\ n <= Len(w)
      /\ \A k \in 1..n : w[k] = all[(i + k) - 1]
      /\ \A k \in 1..Len(w) : k > n => w[k] = <<>>
  <2>1. Lined(s, N, c) /\ i \in 1..N /\ n \in Nat \ {0} /\ i + n <= N + 1
    BY <1>1, <1>7
  <2>2. LinesFrom(Lines(Part(s, c[i], c[i + n])), Lines(s), i, n)
    BY Zenon, <2>1, LinesOfPart
  <2> QED BY Zenon, <2>2 DEF LinesFrom, all
<1>9. \A k \in 1..n : Inked(w[k]) # {}
  <2> TAKE k \in 1..n
  <2> DEFINE j == (i + k) - 1
             x == Part(s, c[j], c[j + 1])
  <2>1. k - 1 \in 0..(n - 1) /\ i + (k - 1) = j /\ j \in 1..N /\ j \in 1..(N + 1) /\ j + 1 \in 1..(N + 1)
    <3>1. N \in Nat /\ n \in Nat /\ i \in Nat /\ i >= 1 /\ i + n <= N + 1
      BY <1>2, <1>7
    <3> QED BY <3>1
  <2>2. file[i + (k - 1)] # <<>>
    BY <1>6, <2>1
  <2>3. w[k] = all[j]
    BY <1>8
  <2> HIDE DEF j, w
  <2>4. file[j] = TrimSpace(x) /\ all[j] = x
    BY <1>2, <2>1
  <2>5. c[j] \in 0..Len(s) /\ c[j + 1] \in c[j]..Len(s)
    <3>1. c[j] \in 0..Len(s) /\ c[j + 1] \in 0..Len(s) /\ c[j] <= c[j + 1]
      BY <1>2, <2>1
    <3>2. Len(s) \in Nat
      BY LenProperties
    <3> QED BY <3>1, <3>2
  <2>6. x \in Seq(D)
    BY <2>5, PartIs
  <2> HIDE DEF x
  <2>7. Inked(x) # {}
    BY <2>1, <2>2, <2>4, <2>6, TrimmedIs
  <2> QED BY Zenon, <2>3, <2>4, <2>7
<1>10. Len(NonEmptyLines(t)) = n
  <2>1. \A k \in 1..Len(w) : k > n => Inked(w[k]) = {}
    <3>1. <<>> \in Seq(D) /\ Len(<<>>) = 0
      OBVIOUS
    <3>2. Inked(<<>>) = {}
      BY <3>1, TrimmedIs
    <3> HIDE DEF w
    <3> QED BY <1>8, <3>2
  <2> HIDE DEF t
  <2> QED BY <1>4, <1>8, <1>9, <2>1, HowManyLines
<1>11. Lies(r, a, e) /\ r.strategy = "line_fuzzy"
  <2>1. z[i][1] = a + 1 /\ z[i + n - 1][2] = e /\ (a + 1) - 1 = a
    <3>1. z[i][1] = c[i] + 1
      BY <1>2, <1>7
    <3>2. z[(i + n) - 1][2] = c[((i + n) - 1) + 1]
      BY <1>2, <1>7
    <3>3. (c[i] + 1) - 1 = c[i]
      <4>1. c[i] \in 0..Len(s)
        BY <1>2, <1>7
      <4> QED BY <4>1
    <3> QED BY Zenon, <1>7, <3>1, <3>2, <3>3
  <2>2. r.from = z[i][1] - 1 /\ r.end = z[i + n - 1][2] /\ r.strategy = "line_fuzzy"
    BY <1>6 DEF MatchLoc
  <2> HIDE DEF a, e
  <2> QED BY Zenon, <2>1, <2>2 DEF Lies
<1>12. Len(s) \in Nat /\ a \in 0..Len(s) /\ e \in 0..Len(s)
  BY <1>2, <1>7, LenProperties
<1>13. a < e
  <2> DEFINE b == c[i + 1]
  <2>1. file[i] # <<>>
    <3>1. 0 \in 0..(n - 1) /\ i + 0 = i
      BY <1>7
    <3> QED BY <1>6, <3>1
  <2>2. a <= b /\ b \in 0..Len(s)
    BY <1>2, <1>7
  <2>3. a # b
    <3> SUFFICES ASSUME b = a PROVE FALSE
      OBVIOUS
    <3>1. file[i] = TrimSpace(Part(s, a, a))
      BY <1>2, <1>7
    <3>2. Part(s, a, a) = <<>>
      BY <1>12, EmptyPart
    <3> DEFINE x == Part(s, a, a)
    <3>3. x \in Seq(D) /\ Len(x) = 0
      BY <3>2
    <3> HIDE DEF x
    <3>4. TrimSpace(x) = <<>>
      BY <3>3, TrimmedIs
    <3> QED BY <2>1, <3>1, <3>4 DEF x
  <2>4. b <= e
    <3>1. CASE n = 1
      BY <1>12, <3>1
    <3>2. CASE n # 1
      <4>1. i + 1 \in 1..N /\ i + 1 < i + n
        BY <1>2, <1>7, <3>2
      <4>2. CASE i + n \in 1..N
        BY <1>2, <1>12, <2>2, <4>1, <4>2
      <4>3. CASE i + n \notin 1..N
        <5>1. i + n = N + 1
          <6>1. N \in Nat \ {0}
            BY <1>2
          <6>2. i \in Nat /\ n \in Nat \ {0} /\ i + n <= N + 1 /\ i >= 1
            BY <1>7
          <6> QED BY <4>3, <6>1, <6>2
        <5> QED BY <1>2, <1>12, <2>2, <5>1
      <4> QED BY <4>2, <4>3
    <3> QED BY <3>1, <3>2
  <2> HIDE DEF a, b, e
  <2> QED BY <1>12, <2>2, <2>3, <2>4
<1>14. TextAt(s, r) = t /\ SoundRegion(s, r)
  <2> HIDE DEF a, e
  <2>1. e \in a..Len(s)
    BY <1>12, <1>13
  <2> QED BY <1>11, <1>12, <1>13, <2>1, RegionIs
<1>15. r.from = 0 \/ s[r.from] = "nl"
  <2>1. r.from = a
    BY <1>11 DEF Lies
  <2>2. CASE i = 1
    BY <1>2, <2>1, <2>2
  <2>3. CASE i # 1
    <3>1. i \in 2..N
      BY <1>7, <1>2, <2>3
    <3> QED BY <1>2, <2>1, <3>1
  <2> QED BY <2>2, <2>3
<1>16. Len(NonEmptyLines(TextAt(s, r))) = n
  BY Zenon, <1>10, <1>14
<1>17. LineSound(s, old, r)
  BY Zenon, <1>15, <1>16 DEF LineSound, n, asked
<1> QED BY Zenon, <1>11, <1>14, <1>17

-----------------------------------------------------------------------------
(* Shared runs *)

\* Of sequences with a length in common bound, the longest is one of them and none is longer.
LEMMA FirstLongestIs ==
    ASSUME NEW n \in Nat \ {0}, NEW seqs, DOMAIN seqs = 1..n, NEW b \in Nat,
           \A k \in 1..n : Len(seqs[k]) \in 0..b
    PROVE  \E k \in 1..n : FirstLongest(seqs) = seqs[k] /\ \A j \in 1..n : Len(seqs[j]) <= Len(seqs[k])
<1> DEFINE longest == {k \in 1..n : \A j \in 1..n : Len(seqs[j]) <= Len(seqs[k])}
           sizes == {Len(seqs[k]) : k \in 1..n}
<1>1. FirstLongest(seqs) = IF longest = {} THEN <<>> ELSE seqs[Min(longest)]
  BY DEF FirstLongest
<1>2. \E k : k \in longest
  <2>1. sizes \in SUBSET Int /\ \A x \in sizes : x <= b
    OBVIOUS
  <2>2. sizes # {}
    <3>1. 1 \in 1..n
      OBVIOUS
    <3> QED BY <3>1
  <2>3. \A k \in 1..n : Len(seqs[k]) \in sizes
    OBVIOUS
  <2>4. \A x \in sizes : \E k \in 1..n : x = Len(seqs[k])
    OBVIOUS
  <2> HIDE DEF sizes
  <2>5. b \in Int
    OBVIOUS
  <2>6. PICK x \in sizes : \A y \in sizes : y <= x
    BY <2>1, <2>2, <2>5, GreatestExists
  <2>7. PICK k \in 1..n : x = Len(seqs[k])
    BY <2>4
  <2>8. \A j \in 1..n : Len(seqs[j]) <= Len(seqs[k])
    BY Zenon, <2>3, <2>6, <2>7
  <2> QED BY <2>8
<1>3. longest \in SUBSET Int /\ longest # {} /\ 1 \in Int /\ \A k \in longest : 1 <= k
  BY <1>2
<1>4. \A k \in longest : k \in 1..n /\ \A j \in 1..n : Len(seqs[j]) <= Len(seqs[k])
  OBVIOUS
<1> HIDE DEF longest
<1>5. PICK m \in longest : \A k \in longest : m <= k
  BY <1>3, LeastExists
<1>6. Min(longest) = m
  BY <1>3, <1>5, MinIs
<1>7. FirstLongest(seqs) = seqs[m]
  BY Zenon, <1>1, <1>3, <1>6
<1> QED BY <1>4, <1>5, <1>7

\* The window of old from start to e is in the content.
Stays(content, old, start, e) == e <= Len(old) /\ Holds(content, SubSeq(old, start, e))

LEMMA GrowIs ==
    ASSUME NEW content, NEW old, Len(old) \in Nat, NEW start \in Nat, NEW end \in Nat
    PROVE  LET g == Grow(content, old, start, end) IN
           /\ g \in Int /\ end - 1 <= g
           /\ \A x \in end..g : Stays(content, old, start, x)
           /\ ~Stays(content, old, start, g + 1)
<1> DEFINE L == Len(old)
           Stay(e) == Stays(content, old, start, e)
           G(f, e) == IF Stay(e) THEN f[e + 1] ELSE e - 1
           F == [f \in [Nat -> Int] |-> [e \in Nat |-> G(f, e)]]
           S == Int
           base == 0
           grow == CHOOSE x : x = [e \in Nat |-> G(x, e)]
<1>1. L \in Nat
  OBVIOUS
<1>2. \A e : Stay(e) => e <= L
  BY DEF Stays
<1>3. Grow(content, old, start, end) = grow[end]
  BY DEF Grow, Stays
<1> HIDE DEF Stay, L
<1>4. F \in [[Nat -> S] -> [Nat -> S]] /\ base \in S
  <2>1. \A f \in [Nat -> S], e \in Nat : G(f, e) \in S
    <3> TAKE f \in [Nat -> S], e \in Nat
    <3>1. e + 1 \in Nat /\ e - 1 \in Int
      OBVIOUS
    <3>2. f[e + 1] \in S
      BY <3>1
    <3> QED BY <3>1, <3>2
  <2> HIDE DEF G
  <2> QED BY <2>1
<1>5. ASSUME NEW f \in [Nat -> S], NEW h \in [Nat -> S], NEW e \in Nat, \A j \in Nat : e < j /\ e <= L => f[j] = h[j]
      PROVE  F[f][e] = F[h][e]
  <2>1. F[f][e] = G(f, e) /\ F[h][e] = G(h, e)
    OBVIOUS
  <2>2. CASE Stay(e)
    <3>1. e + 1 \in Nat /\ e < e + 1 /\ e <= L
      BY <1>2, <2>2
    <3>2. f[e + 1] = h[e + 1]
      BY <1>5, <3>1
    <3> QED BY <2>1, <2>2, <3>2
  <2>3. CASE ~Stay(e)
    BY <2>1, <2>3
  <2> QED BY <2>2, <2>3
<1>6. \E f \in [Nat -> S] : F[f] = f
  <2> HIDE DEF F, S, base
  <2> QED BY <1>1, <1>4, <1>5, FixedPointExists
<1>7. grow = [e \in Nat |-> G(grow, e)]
  <2>1. PICK f \in [Nat -> S] : F[f] = f
    BY <1>6
  <2>2. f = [e \in Nat |-> G(f, e)]
    BY <2>1
  <2> HIDE DEF G
  <2> QED BY <2>2
<1> HIDE DEF grow, F
<1>8. \A e \in Nat : grow[e] = G(grow, e)
  <2> HIDE DEF G
  <2> QED BY <1>7
<1> DEFINE Good(e, g) == g \in Int /\ e - 1 <= g /\ (\A x \in e..g : Stay(x)) /\ ~Stay(g + 1)
           T == {e \in Nat : Good(e, grow[e])}
<1>9. ASSUME NEW e \in Nat, \A j \in Nat : e < j /\ e <= L => j \in T PROVE e \in T
  <2>1. grow[e] = G(grow, e)
    BY <1>8
  <2>2. CASE Stay(e)
    <3> DEFINE g == grow[e + 1]
    <3>1. e + 1 \in Nat /\ e < e + 1 /\ e <= L
      BY <1>2, <2>2
    <3>2. Good(e + 1, g)
      BY <1>9, <3>1
    <3>3. grow[e] = g
      BY <2>1, <2>2
    <3> HIDE DEF g
    <3>4. g \in Int /\ e - 1 <= g
      BY <3>2
    <3>5. ASSUME NEW x \in e..g PROVE Stay(x)
      <4>1. CASE x = e
        BY <2>2, <4>1
      <4>2. CASE x # e
        <5>1. x \in (e + 1)..g
          BY <3>4, <4>2
        <5> QED BY <3>2, <5>1
      <4> QED BY <4>1, <4>2
    <3>6. Good(e, g)
      BY <3>2, <3>4, <3>5
    <3> QED BY <3>3, <3>6
  <2>3. CASE ~Stay(e)
    <3> DEFINE g == e - 1
    <3>1. grow[e] = g
      BY <2>1, <2>3
    <3>2. g \in Int /\ e - 1 <= g /\ e..g = {} /\ g + 1 = e
      OBVIOUS
    <3> HIDE DEF g
    <3>3. Good(e, g)
      BY <2>3, <3>2
    <3> QED BY <3>1, <3>3
  <2> QED BY <2>2, <2>3
<1>10. T = Nat
  <2>1. T \in SUBSET Nat
    OBVIOUS
  <2> HIDE DEF T
  <2> QED BY <1>1, <1>9, <2>1, Downward
<1>11. Good(end, grow[end])
  <2>1. end \in T
    BY <1>10
  <2> HIDE DEF Good
  <2> QED BY <2>1
<1> QED BY <1>3, <1>11 DEF Stay

LEMMA HoldsPart ==
    ASSUME NEW D, NEW s \in Seq(D), NEW t \in Seq(D), Holds(s, t), NEW x \in 0..Len(t), NEW y \in x..Len(t)
    PROVE  Holds(s, Part(t, x, y))
<1>1. PICK i : i \in Occurrences(s, t)
  BY DEF Holds
<1> DEFINE m == Len(t)
           a == i - 1
           e == a + m
<1>2. a \in 0..Len(s) /\ e \in a..Len(s) /\ Part(s, a, e) = t
  <2>1. i \in Occurrences(s, t)
    BY <1>1
  <2> QED BY <2>1, OccursAt
<1>3. m \in Nat /\ Len(s) \in Nat
  BY LenProperties
<1>4. e - a = m /\ a \in Int
  <2>1. a \in Int
    BY <1>2, <1>3
  <2> HIDE DEF a, m
  <2> QED BY <1>3, <2>1
<1> HIDE DEF a, e
<1>5. x \in 0..(e - a) /\ y \in x..(e - a)
  BY <1>4
<1>6. Part(Part(s, a, e), x, y) = Part(s, a + x, a + y)
  BY <1>2, <1>5, PartOfPart
<1>7. a + x \in 0..Len(s) /\ a + y \in (a + x)..Len(s)
  <2>1. x \in Int /\ y \in Int /\ 0 <= x /\ x <= y /\ y <= m
    BY <1>3
  <2> HIDE DEF m
  <2>2. e <= Len(s) /\ 0 <= a /\ e = a + m /\ e \in Int
    BY <1>2, <1>3 DEF e, m
  <2> QED BY <1>3, <1>4, <2>1, <2>2
<1>8. Holds(s, Part(s, a + x, a + y))
  BY <1>7, PartHeld
<1> QED BY <1>2, <1>6, <1>8

IsPart(t, s) == \E a \in 0..Len(s) : \E e \in a..Len(s) : t = Part(s, a, e)

LEMMA PartsAreHeld ==
    ASSUME NEW D, NEW s \in Seq(D), NEW t, IsPart(t, s)
    PROVE  t \in Seq(D) /\ Len(t) \in 0..Len(s) /\ Holds(s, t)
<1>1. PICK a \in 0..Len(s) : \E e \in a..Len(s) : t = Part(s, a, e)
  BY DEF IsPart
<1>6. PICK e \in a..Len(s) : t = Part(s, a, e)
  BY <1>1
<1>2. Len(s) \in Nat
  BY LenProperties
<1>3. Part(s, a, e) \in Seq(D) /\ Len(Part(s, a, e)) = e - a
  BY PartIs
<1>4. Holds(s, Part(s, a, e))
  BY PartHeld
<1>5. e - a \in 0..Len(s)
  BY <1>2
<1> QED BY <1>6, <1>3, <1>4, <1>5

LEMMA NothingIsPart ==
    ASSUME NEW D, NEW s \in Seq(D)
    PROVE  IsPart(<<>>, s)
<1>1. 0 \in 0..Len(s) /\ 0 \in 0..Len(s)
  BY LenProperties
<1>2. Part(s, 0, 0) = <<>>
  BY <1>1, EmptyPart
<1> QED BY <1>1, <1>2 DEF IsPart

\* The window from a place: as long as the content holds it.
WindowFrom(content, old, m, start) ==
    LET end == Grow(content, old, start, start + m - 1)
    IN IF end >= start + m - 1 THEN SubSeq(old, start, end) ELSE <<>>

LEMMA WindowFromIs ==
    ASSUME NEW D, NEW s \in Seq(D), NEW old \in Seq(D), NEW m \in Nat \ {0}, NEW i \in 1..Len(old)
    PROVE  /\ IsPart(WindowFrom(s, old, m, i), old)
           /\ \A j \in i..Len(old) :
                 Holds(s, Part(old, i - 1, j)) /\ m <= j - (i - 1) => j - (i - 1) <= Len(WindowFrom(s, old, m, i))
<1> DEFINE L == Len(old)
           end == (i + m) - 1
           g == Grow(s, old, i, end)
           w == WindowFrom(s, old, m, i)
<1>1. L \in Nat
  BY LenProperties
<1>2. i \in Nat /\ end \in Nat /\ i + m - 1 = end /\ i <= end /\ i <= L /\ 1 <= i
  BY <1>1
<1>3. w = IF g >= end THEN SubSeq(old, i, g) ELSE <<>>
  BY <1>2 DEF WindowFrom
<1>4. g \in Int /\ end - 1 <= g /\ (\A x \in end..g : Stays(s, old, i, x)) /\ ~Stays(s, old, i, g + 1)
  <2>1. Len(old) \in Nat
    BY <1>1
  <2> HIDE DEF end
  <2> QED BY <1>2, <2>1, GrowIs
<1> HIDE DEF w, g
<1>5. ASSUME g >= end PROVE g \in i..L /\ w = Part(old, i - 1, g)
  <2>1. g \in end..g
    BY <1>2, <1>4, <1>5
  <2>2. g <= L
    BY <1>4, <2>1 DEF Stays
  <2>3. (i - 1) + 1 = i
    BY <1>2
  <2>4. w = Part(old, i - 1, g)
    BY Zenon, <1>3, <1>5, <2>3 DEF Part
  <2>5. g \in i..L
    <3> HIDE DEF end, L
    <3> QED BY <1>1, <1>2, <1>4, <1>5, <2>2
  <2> QED BY <2>4, <2>5
<1>6. i - 1 \in 0..L /\ \A j \in i..L : j \in (i - 1)..L
  BY <1>1
<1>7. IsPart(w, old)
  <2>1. CASE g >= end
    BY <1>5, <1>6, <2>1 DEF IsPart
  <2>2. CASE ~(g >= end)
    BY <1>3, <2>2, NothingIsPart
  <2> QED BY <2>1, <2>2
<1>8. ASSUME NEW j \in i..L, Holds(s, Part(old, i - 1, j)), m <= j - (i - 1) PROVE j - (i - 1) <= Len(w)
  <2>1. j \in (i - 1)..L /\ j \in Int /\ end <= j /\ j <= L
    BY <1>1, <1>2, <1>8
  <2>2. ASSUME NEW x \in end..j PROVE Stays(s, old, i, x)
    <3> DEFINE b == i - 1
               t == Part(old, b, j)
    <3>1. b \in 0..L /\ x - b \in 0..(j - b) /\ b + (x - b) = x /\ b + 0 = b /\ x <= L /\ 0 \in 0..(j - b) /\ b + 1 = i
      <4> HIDE DEF end, L
      <4> QED BY <1>1, <1>2, <2>1
    <3>2. Holds(s, t)
      BY <1>8
    <3> HIDE DEF b
    <3>3. t \in Seq(D) /\ Len(t) = j - b
      <4>1. j \in b..Len(old) /\ b \in 0..Len(old)
        BY <2>1, <3>1 DEF b
      <4> QED BY <4>1, PartIs
    <3>4. Part(t, 0, x - b) = Part(old, b + 0, b + (x - b))
      <4>1. j \in b..Len(old) /\ b \in 0..Len(old) /\ x - b \in 0..(j - b)
        BY <2>1, <3>1 DEF b
      <4> QED BY <3>1, <4>1, PartOfPart
    <3> HIDE DEF t
    <3>5. Holds(s, Part(t, 0, x - b))
      BY <3>1, <3>2, <3>3, HoldsPart
    <3>6. Holds(s, Part(old, b, x))
      BY Zenon, <3>1, <3>4, <3>5
    <3>7. Holds(s, SubSeq(old, i, x))
      BY Zenon, <3>1, <3>6 DEF Part
    <3> QED BY <3>1, <3>7 DEF Stays
  <2>3. j <= g
    <3> SUFFICES ASSUME g < j PROVE FALSE
      BY <1>4, <2>1
    <3>1. g + 1 \in end..j
      <4> HIDE DEF end
      <4> QED BY <1>2, <1>4, <2>1
    <3> QED BY <1>4, <2>2, <3>1
  <2>4. g >= end
    <3> HIDE DEF end
    <3> QED BY <1>2, <1>4, <2>1, <2>3
  <2>5. g \in i..L /\ w = Part(old, i - 1, g)
    BY <1>5, <2>4
  <2>6. Len(Part(old, i - 1, g)) = g - (i - 1)
    <3> DEFINE b == i - 1
    <3>1. b \in 0..Len(old) /\ g \in b..Len(old)
      BY <1>6, <2>5
    <3> HIDE DEF b
    <3>2. Len(Part(old, b, g)) = g - b
      BY <3>1, PartIs
    <3> QED BY <3>2 DEF b
  <2>7. j - (i - 1) <= g - (i - 1)
    BY <1>2, <1>4, <2>1, <2>3
  <2> QED BY Zenon, <2>5, <2>6, <2>7
<1> QED BY <1>7, <1>8 DEF w, L

LEMMA PartInside ==
    ASSUME NEW D, NEW s \in Seq(D), NEW a \in 0..Len(s), NEW e \in a..Len(s), NEW t, IsPart(t, Part(s, a, e))
    PROVE  IsPart(t, s)
<1> DEFINE v == Part(s, a, e)
<1>1. Len(v) = e - a /\ Len(s) \in Nat
  BY PartIs, LenProperties
<1>2. PICK x \in 0..Len(v) : \E y \in x..Len(v) : t = Part(v, x, y)
  BY DEF IsPart
<1>3. PICK y \in x..Len(v) : t = Part(v, x, y)
  BY <1>2
<1> HIDE DEF v
<1>4. x \in 0..(e - a) /\ y \in x..(e - a)
  BY <1>1
<1>5. Part(Part(s, a, e), x, y) = Part(s, a + x, a + y)
  BY <1>4, PartOfPart
<1>6. a + x \in 0..Len(s) /\ a + y \in (a + x)..Len(s)
  BY <1>1, <1>4
<1>7. t = Part(s, a + x, a + y)
  BY Zenon, <1>3, <1>5 DEF v
<1> QED BY <1>6, <1>7 DEF IsPart

\* A part of old, and no shared part of the least length is longer.
LongestRun(longest, s, old, m) ==
    /\ IsPart(longest, old)
    /\ \A i, j \in 1..Len(old) :
          i <= j /\ Holds(s, Part(old, i - 1, j)) /\ m <= j - (i - 1) => j - (i - 1) <= Len(longest)

LEMMA LongestWindowIs ==
    ASSUME NEW D, NEW s \in Seq(D), NEW old \in Seq(D)
    PROVE  LET m == Min({Len(old), MaxSubstringWindow})
           IN LongestRun(LongestCommonWindow(s, old, m), s, old, m)
<1> DEFINE L == Len(old)
           m == Min({L, MaxSubstringWindow})
           longest == LongestCommonWindow(s, old, m)
           seqs == [start \in 1..L |-> WindowFrom(s, old, m, start)]
<1>1. L \in Nat
  BY LenProperties
<1>2. longest = FirstLongest(seqs)
  BY DEF LongestCommonWindow, WindowFrom
<1>3. CASE L = 0
  <2>1. 1..L = {}
    BY <1>3
  <2>2. longest = <<>>
    <3>1. DOMAIN seqs = {}
      BY <2>1
    <3> HIDE DEF seqs, longest
    <3>2. {k \in DOMAIN seqs : \A j \in DOMAIN seqs : Len(seqs[j]) <= Len(seqs[k])} = {}
      BY <3>1
    <3> QED BY <1>2, <3>2 DEF FirstLongest
  <2> HIDE DEF longest
  <2>3. IsPart(longest, old)
    BY <2>2, NothingIsPart
  <2> QED BY <2>1, <2>3 DEF longest, m, L, LongestRun
<1>4. CASE L # 0
  <2>1. m \in Nat \ {0}
    <3>1. L \in Int /\ MaxSubstringWindow \in Int /\ MaxSubstringWindow >= 1
      BY <1>1, MatchersAssumption
    <3>2. m = IF L <= MaxSubstringWindow THEN L ELSE MaxSubstringWindow
      <4> HIDE DEF L
      <4> QED BY <3>1, MinOfTwo
    <3> HIDE DEF m, L
    <3> QED BY <1>1, <1>4, <3>1, <3>2
  <2> HIDE DEF m
  <2>2. \A i \in 1..L : IsPart(seqs[i], old) /\ Len(seqs[i]) \in 0..L
    <3> TAKE i \in 1..L
    <3>1. IsPart(WindowFrom(s, old, m, i), old)
      BY <2>1, WindowFromIs
    <3>2. seqs[i] = WindowFrom(s, old, m, i)
      OBVIOUS
    <3> HIDE DEF seqs
    <3>3. IsPart(seqs[i], old)
      BY <3>1, <3>2
    <3> QED BY <3>3, PartsAreHeld
  <2>3. \A i, j \in 1..L :
           i <= j /\ Holds(s, Part(old, i - 1, j)) /\ m <= j - (i - 1) => j - (i - 1) <= Len(seqs[i])
    <3> TAKE i \in 1..L, j \in 1..L
    <3> SUFFICES ASSUME i <= j, Holds(s, Part(old, i - 1, j)), m <= j - (i - 1) PROVE j - (i - 1) <= Len(seqs[i])
      OBVIOUS
    <3>1. j \in i..L
      BY <1>1
    <3>2. j - (i - 1) <= Len(WindowFrom(s, old, m, i))
      BY <2>1, <3>1, WindowFromIs
    <3> QED BY <3>2
  <2>4. DOMAIN seqs = 1..L
    OBVIOUS
  <2> HIDE DEF seqs, L, longest
  <2>5. PICK k \in 1..L : FirstLongest(seqs) = seqs[k] /\ \A j \in 1..L : Len(seqs[j]) <= Len(seqs[k])
    <3>1. L \in Nat \ {0} /\ L \in Nat /\ \A i \in 1..L : Len(seqs[i]) \in 0..L
      BY <1>1, <1>4, <2>2
    <3> QED BY <2>4, <3>1, FirstLongestIs
  <2>6. IsPart(longest, old)
    BY <1>2, <2>2, <2>5
  <2>7. \A i, j \in 1..L :
           i <= j /\ Holds(s, Part(old, i - 1, j)) /\ m <= j - (i - 1) => j - (i - 1) <= Len(longest)
    <3> TAKE i \in 1..L, j \in 1..L
    <3> SUFFICES ASSUME i <= j, Holds(s, Part(old, i - 1, j)), m <= j - (i - 1) PROVE j - (i - 1) <= Len(longest)
      OBVIOUS
    <3> DEFINE x == Len(seqs[i])
               y == Len(seqs[k])
               d == j - (i - 1)
    <3>1. d <= x /\ x <= y
      BY <2>3, <2>5
    <3>2. x \in 0..L /\ y \in 0..L
      BY <2>2
    <3>3. d \in Int
      BY <1>1
    <3>4. longest = seqs[k]
      BY <1>2, <2>5
    <3> HIDE DEF x, y, d
    <3>5. d <= y
      BY <1>1, <3>1, <3>2, <3>3
    <3> QED BY <3>4, <3>5 DEF d, y
  <2> QED BY Zenon, <2>6, <2>7 DEF longest, m, L, LongestRun
<1> QED BY <1>3, <1>4

LEMMA LongestLineIs ==
    ASSUME NEW D, NEW s, NEW old \in Seq(D)
    PROVE  IsPart(LongestCommonLine(s, old), old)
<1> DEFINE all == TrimmedLines(old)
           seqs == [k \in 1..Len(all) |-> IF Holds(s, all[k]) THEN all[k] ELSE <<>>]
<1>1. PICK N, c : Lined(old, N, c)
  BY LinedIs
<1>2. /\ N \in Nat \ {0} /\ Len(all) = N
      /\ \A k \in 1..(N + 1) : c[k] \in 0..Len(old)
      /\ \A k \in 1..N : c[k] <= c[k + 1]
      /\ \A k \in 1..N : all[k] = TrimSpace(Part(old, c[k], c[k + 1]))
  BY Zenon, <1>1 DEF Lined
<1>3. LongestCommonLine(s, old) = FirstLongest(seqs)
  BY DEF LongestCommonLine
<1>4. DOMAIN seqs = 1..N /\ \A k \in 1..N : seqs[k] = IF Holds(s, all[k]) THEN all[k] ELSE <<>>
  BY <1>2
<1> HIDE DEF all, seqs
<1>5. Len(old) \in Nat
  BY LenProperties
<1>6. \A k \in 1..N : IsPart(all[k], old)
  <2> TAKE k \in 1..N
  <2> DEFINE a == c[k]
             e == c[k + 1]
             t == Part(old, a, e)
  <2>1. k \in 1..(N + 1) /\ k + 1 \in 1..(N + 1)
    BY <1>2
  <2>2. a \in 0..Len(old) /\ e \in 0..Len(old) /\ a <= e /\ all[k] = TrimSpace(t)
    BY <1>2, <2>1
  <2> HIDE DEF a, e
  <2>3. e \in a..Len(old)
    BY <1>5, <2>2
  <2>4. t \in Seq(D)
    BY <2>2, <2>3, PartIs
  <2>5. IsPart(TrimSpace(t), t)
    <3> HIDE DEF t
    <3> QED BY <2>4, TrimmedIs DEF IsPart
  <2>6. IsPart(TrimSpace(t), old)
    <3> DEFINE x == TrimSpace(t)
    <3>1. IsPart(x, Part(old, a, e))
      BY <2>5
    <3> HIDE DEF x, t
    <3>2. IsPart(x, old)
      BY <2>2, <2>3, <3>1, PartInside
    <3> QED BY <3>2 DEF x
  <2> QED BY <2>2, <2>6
<1>7. \A k \in 1..N : IsPart(seqs[k], old) /\ Len(seqs[k]) \in 0..Len(old)
  <2> TAKE k \in 1..N
  <2>1. IsPart(<<>>, old)
    BY NothingIsPart
  <2>2. seqs[k] = all[k] \/ seqs[k] = <<>>
    BY <1>4
  <2>3. IsPart(seqs[k], old)
    BY Zenon, <1>6, <2>1, <2>2
  <2> QED BY <2>3, PartsAreHeld
<1>8. PICK k \in 1..N : FirstLongest(seqs) = seqs[k]
  <2>1. N \in Nat \ {0} /\ \A k \in 1..N : Len(seqs[k]) \in 0..Len(old)
    BY <1>2, <1>7
  <2> QED BY <1>4, <1>5, <2>1, FirstLongestIs
<1> QED BY <1>3, <1>7, <1>8

LEMMA SubRegionIs ==
    ASSUME NEW D, NEW s \in Seq(D), NEW old \in Seq(D), NEW r \in SubFuzzyMatch(s, old)
    PROVE  SoundRegion(s, r) /\ Holds(old, TextAt(s, r)) /\ r.strategy = "substring_fuzzy"
<1> DEFINE longest == LongestCommonSubstring(s, old)
<1>1. IsPart(longest, old)
  <2>1. CASE Len(old) > LongSubstringThreshold
    <3>1. longest = LongestCommonLine(s, old)
      BY <2>1 DEF LongestCommonSubstring
    <3> QED BY <3>1, LongestLineIs
  <2>2. CASE ~(Len(old) > LongSubstringThreshold)
    <3>1. longest = LongestCommonWindow(s, old, Min({Len(old), MaxSubstringWindow}))
      BY <2>2 DEF LongestCommonSubstring
    <3>2. IsPart(LongestCommonWindow(s, old, Min({Len(old), MaxSubstringWindow})), old)
      BY Zenon, LongestWindowIs DEF LongestRun
    <3> QED BY Zenon, <3>1, <3>2
  <2> QED BY <2>1, <2>2
<1>2. longest # <<>> /\ \E i \in Occurrences(s, longest) : r = Region(i, Len(longest), "substring_fuzzy")
  BY DEF SubFuzzyMatch
<1> HIDE DEF longest
<1>3. longest \in Seq(D) /\ Holds(old, longest)
  BY <1>1, PartsAreHeld
<1>4. PICK i \in Occurrences(s, longest) : r = Region(i, Len(longest), "substring_fuzzy")
  BY <1>2
<1>5. LET x == Region(i, Len(longest), "substring_fuzzy") IN
      SoundRegion(s, x) /\ TextAt(s, x) = longest /\ x.strategy = "substring_fuzzy"
  BY <1>2, <1>3, OccurrenceIs
<1> QED BY Zenon, <1>3, <1>4, <1>5

LEMMA LinesCounted ==
    ASSUME NEW D, NEW s \in Seq(D)
    PROVE  Len(NonEmptyLines(s)) \in Nat
<1> DEFINE all == TrimmedLines(s)
           M == Len(all)
           rows == Lines(s)
           S == {k \in 1..Len(rows) : Inked(rows[k]) # {}}
           at == InTurn(M, S)
<1>1. PICK N, c : Lined(s, N, c)
  BY LinedIs
<1>2. M \in Nat
  <2>1. M = N /\ N \in Nat \ {0}
    BY Zenon, <1>1 DEF Lined
  <2> HIDE DEF M
  <2> QED BY <2>1
<1>3. NonEmptyLines(s) = [k \in 1..Len(at) |-> all[at[k]]]
  BY DEF NonEmptyLines, Picked
<1> HIDE DEF M, S, all, rows
<1>4. Turned(at, Len(at), M, S)
  BY <1>2, TurnedIs
<1> HIDE DEF at
<1>5. Len(at) \in Nat
  BY <1>4 DEF Turned
<1> QED BY <1>3, <1>5

-----------------------------------------------------------------------------
(* The four readings *)

LEMMA RegionsAreRead ==
    ASSUME NEW D, NEW content \in Seq(D), NEW old \in Seq(D), WellFormed(content), WellFormed(old)
    PROVE  RegionsRead(content, old)
<1> DEFINE found == FindAllMatches(content, old)
           Reads(r) == /\ r.strategy = "exact" => TextAt(content, r) = old
                       /\ r.strategy = "whitespace_fuzzy" /\ Unshifted(content) =>
                             Collapse(TextAt(content, ToCharEnd(content, r))) = Collapse(old)
                       /\ r.strategy = "line_fuzzy" => LineSound(content, old, r)
                       /\ r.strategy = "substring_fuzzy" => Holds(old, TextAt(content, r))
<1>1. ASSUME NEW r \in found PROVE SoundRegion(content, r) /\ Reads(r)
  <2>1. \/ r \in ExactMatch(content, old) \/ r \in WsFuzzyMatch(content, old)
        \/ r \in LineFuzzyMatch(content, old) \/ r \in SubFuzzyMatch(content, old)
    BY <1>1 DEF FindAllMatches
  <2>2. CASE r \in ExactMatch(content, old)
    <3>1. old # <<>> /\ \E i \in Occurrences(content, old) : r = Region(i, Len(old), "exact")
      BY <2>2 DEF ExactMatch
    <3>2. PICK i \in Occurrences(content, old) : r = Region(i, Len(old), "exact")
      BY <3>1
    <3>3. LET x == Region(i, Len(old), "exact") IN
          SoundRegion(content, x) /\ TextAt(content, x) = old /\ x.strategy = "exact"
      BY <3>1, OccurrenceIs
    <3>4. SoundRegion(content, r) /\ TextAt(content, r) = old /\ r.strategy = "exact"
      BY Zenon, <3>2, <3>3
    <3> QED BY <3>4
  <2>3. CASE r \in WsFuzzyMatch(content, old)
    <3> DEFINE y == Collapse(content)
               z == Collapse(old)
    <3>1. /\ z # <<>>
          /\ \E abs \in LeftToRight(y, z) : r = WsMatchLoc(content, y, abs, Len(z))
      BY <2>3 DEF WsFuzzyMatch
    <3>2. PICK abs \in LeftToRight(y, z) : r = WsMatchLoc(content, y, abs, Len(z))
      BY <3>1
    <3>3. y \in Seq({Blanked(c) : c \in D}) /\ z \in Seq({Blanked(c) : c \in D})
      BY SurvivorsAre
    <3>4. abs \in Occurrences(y, z)
      <4> HIDE DEF y, z
      <4>1. LeftToRight(y, z) \subseteq Occurrences(y, z)
        BY <3>1, <3>3, LeftToRightIs
      <4> QED BY <3>2, <4>1
    <3>5. LET x == WsMatchLoc(content, Collapse(content), abs, Len(Collapse(old))) IN
          /\ SoundRegion(content, x) /\ x.strategy = "whitespace_fuzzy"
          /\ Unshifted(content) => Collapse(TextAt(content, ToCharEnd(content, x))) = Collapse(old)
      BY <3>1, <3>4, WsRegionIs
    <3>6. /\ SoundRegion(content, r) /\ r.strategy = "whitespace_fuzzy"
          /\ Unshifted(content) => Collapse(TextAt(content, ToCharEnd(content, r))) = Collapse(old)
      BY Zenon, <3>2, <3>5
    <3> HIDE DEF y, z
    <3> QED BY <3>6
  <2>4. CASE r \in LineFuzzyMatch(content, old)
    <3>1. Len(NonEmptyLines(old)) \in Nat
      BY LinesCounted
    <3>2. SoundRegion(content, r) /\ LineSound(content, old, r) /\ r.strategy = "line_fuzzy"
      BY <2>4, <3>1, LineRegionIs
    <3> QED BY <3>2
  <2>5. CASE r \in SubFuzzyMatch(content, old)
    <3>1. SoundRegion(content, r) /\ Holds(old, TextAt(content, r)) /\ r.strategy = "substring_fuzzy"
      BY <2>5, SubRegionIs
    <3> QED BY <3>1
  <2> QED BY <2>1, <2>2, <2>3, <2>4, <2>5
<1> QED BY Zenon, <1>1 DEF RegionsRead, SoundRegion, LineSound

LEMMA CloserIsFound ==
    ASSUME NEW D, NEW content \in Seq(D), NEW old \in Seq(D)
    PROVE  NothingCloser(content, old)
<1> DEFINE found == FindAllMatches(content, old)
           m == Min({Len(old), MaxSubstringWindow})
           longest == LongestCommonWindow(content, old, m)
           shared == Shared(content, old)
           y == Collapse(content)
           z == Collapse(old)
<1>1. ASSUME z # <<>>, Holds(y, z) PROVE \E r \in found : r.strategy \in {"exact", "whitespace_fuzzy"}
  <2>1. y \in Seq({Blanked(c) : c \in D}) /\ z \in Seq({Blanked(c) : c \in D})
    BY SurvivorsAre
  <2>2. LeftToRight(y, z) # {}
    <3> HIDE DEF y, z
    <3>1. Occurrences(y, z) # {}
      BY <1>1 DEF Holds
    <3> QED BY <1>1, <2>1, <3>1, LeftToRightIs
  <2>3. \A abs : WsMatchLoc(content, y, abs, Len(z)).strategy = "whitespace_fuzzy"
    BY DEF WsMatchLoc, MatchLoc
  <2>4. WsFuzzyMatch(content, old) = {WsMatchLoc(content, y, abs, Len(z)) : abs \in LeftToRight(y, z)}
    BY <1>1 DEF WsFuzzyMatch
  <2>5. \A r \in ExactMatch(content, old) : r.strategy = "exact"
    BY DEF ExactMatch, Region, MatchLoc
  <2> HIDE DEF y, z
  <2>6. WsFuzzyMatch(content, old) # {} /\ \A r \in WsFuzzyMatch(content, old) : r.strategy = "whitespace_fuzzy"
    BY Zenon, <2>2, <2>3, <2>4
  <2>7. found = IF ExactMatch(content, old) # {} THEN ExactMatch(content, old) ELSE WsFuzzyMatch(content, old)
    BY Zenon, <2>6 DEF FindAllMatches
  <2> HIDE DEF found
  <2> QED BY Zenon, <2>5, <2>6, <2>7
<1>2. ASSUME NEW t \in shared, Len(t) >= m PROVE Len(t) <= Len(longest)
  <2>1. /\ IsPart(longest, old)
        /\ \A i, j \in 1..Len(old) :
              i <= j /\ Holds(content, Part(old, i - 1, j)) /\ m <= j - (i - 1) => j - (i - 1) <= Len(longest)
    <3>1. LongestRun(longest, content, old, m)
      BY LongestWindowIs
    <3> HIDE DEF longest, m
    <3> QED BY <3>1 DEF LongestRun
  <2>2. t # <<>> /\ Holds(content, t) /\ \E i, j \in 1..Len(old) : t = SubSeq(old, i, j)
    BY <1>2 DEF Shared
  <2> HIDE DEF longest, m, shared
  <2>3. PICK i \in 1..Len(old) : \E j \in 1..Len(old) : t = SubSeq(old, i, j)
    BY <2>2
  <2>4. PICK j \in 1..Len(old) : t = SubSeq(old, i, j)
    BY <2>3
  <2>5. Len(old) \in Nat
    BY LenProperties
  <2>6. i <= j
    <3> SUFFICES ASSUME j < i PROVE FALSE
      BY <2>5
    <3>1. SubSeq(old, i, j) = <<>>
      BY <2>5, SubSeqEmpty
    <3> QED BY <2>2, <2>4, <3>1
  <2> DEFINE b == i - 1
  <2>7. b \in 0..Len(old) /\ j \in b..Len(old) /\ b + 1 = i
    BY <2>5, <2>6
  <2>8. i <= j /\ Holds(content, Part(old, b, j)) /\ m <= j - b => j - b <= Len(longest)
    BY <2>1
  <2> HIDE DEF b
  <2>9. t = Part(old, b, j)
    BY Zenon, <2>4, <2>7 DEF Part
  <2>10. Len(t) = j - b
    BY <2>7, <2>9, PartIs
  <2>11. m <= j - b
    <3>1. m \in Int
      BY <2>5, MatchersAssumption, MinOfTwo DEF m
    <3> QED BY <1>2, <2>5, <2>7, <2>10, <3>1
  <2> QED BY Zenon, <2>2, <2>6, <2>8, <2>9, <2>10, <2>11
<1>3. z # <<>> /\ Holds(y, z) => \E r \in found : r.strategy \in {"exact", "whitespace_fuzzy"}
  BY Zenon, <1>1
<1>4. \A t \in shared : Len(t) >= m => Len(t) <= Len(longest)
  <2> HIDE DEF shared, m, longest
  <2> QED BY Zenon, <1>2
<1> QED BY Zenon, <1>3, <1>4 DEF NothingCloser

\* The region an edit of patch_file replaces reads like the text that was asked for, and no closer
\* reading is overlooked (match.go), for every file and every text.
THEOREM RegionsAlwaysRead == TextSpec => []RegionsTrue
<1>1. TextInv => RegionsTrue
  <2> SUFFICES ASSUME TextInv, tool = "match" PROVE RegionsRead(text, query) /\ NothingCloser(text, query)
    BY DEF RegionsTrue
  <2> DEFINE A == Letters("match")
             B == {query[k] : k \in DOMAIN query}
             D == A \cup B
  <2>1. text \in Seq(A)
    <3>1. "match" \in DOMAIN Pieces
      BY DEF TextInv
    <3> QED BY <3>1 DEF TextInv
  <2>2. query \in Seq(B)
    <3>1. CASE "match" \in DOMAIN Asked
      <4>1. query \in Asked["match"]
        BY <3>1 DEF TextInv
      <4> QED BY <3>1, <4>1, TextAssumption
    <3>2. CASE "match" \notin DOMAIN Asked
      <4>1. query = <<>>
        BY <3>2 DEF TextInv
      <4> QED BY <4>1
    <3> QED BY <3>1, <3>2
  <2> HIDE DEF A, B
  <2>3. text \in Seq(D) /\ query \in Seq(D)
    BY <2>1, <2>2
  <2>4. WellFormed(text) /\ WellFormed(query)
    BY DEF TextInv
  <2> HIDE DEF D
  <2> QED BY <2>3, <2>4, RegionsAreRead, CloserIsFound
<1> QED BY <1>1, TextHolds, PTL
=============================================================================
