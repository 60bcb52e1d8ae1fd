--------------------------- MODULE PatchFileProof ---------------------------
(***************************************************************************)
(* Proofs about PatchFile for every file size, every set of calls and every *)
(* outcome of the matchers: accepted regions never overlap, the splice puts *)
(* in exactly what they ask for, and the file is replaced as a whole, and   *)
(* only as announced.                                                       *)
(***************************************************************************)
EXTENDS PatchFile, Counting

-----------------------------------------------------------------------------
(* Overlap detection *)

Result == [ok : BOOLEAN, insert : BOOLEAN, at : SUBSET Int, len : Int]

\* A region belongs to a result, and starts and ends at offsets.
LEMMA RegionsType ==
    ASSUME NEW rs \in Seq(Result), NEW a \in Regions(rs)
    PROVE  /\ a.of \in DOMAIN rs /\ rs[a.of].ok
           /\ a.start \in Int /\ a.start \in rs[a.of].at
           /\ a = [of |-> a.of, start |-> a.start, end |-> a.start + rs[a.of].len]
<1>1. PICK k \in DOMAIN rs : rs[k].ok /\ \E o \in rs[k].at :
                               a = [of |-> k, start |-> o, end |-> o + rs[k].len]
  BY DEF Regions
<1>2. rs[k] \in Result
  OBVIOUS
<1> QED BY <1>1, <1>2 DEF Result

\* Of two distinct regions that overlap, one loses: this is the loop over all pairs
\* of edit.go:271-287.
LEMMA OneLoses ==
    ASSUME NEW rs \in Seq(Result), NEW a \in Regions(rs), NEW b \in Regions(rs),
           a # b, RangesOverlap(a, b)
    PROVE  Loses(a, b) \/ Loses(b, a)
<1>1. /\ a.start \in Int /\ b.start \in Int /\ a.of \in Nat /\ b.of \in Nat
      /\ a.start = b.start => a.of # b.of
  BY RegionsType
<1>2. CASE a.start < b.start
  BY <1>2 DEF Loses, RangesOverlap
<1>3. CASE b.start < a.start
  BY <1>3 DEF Loses, RangesOverlap
<1>4. CASE a.start = b.start
  BY <1>1, <1>4 DEF Loses, RangesOverlap, Listed
<1> QED BY <1>1, <1>2, <1>3, <1>4

\* What overlap detection accepts was accepted before, and did not lose.
LEMMA AcceptedRegions ==
    ASSUME NEW rs \in Seq(Result), NEW a \in Regions(DetectOverlaps(rs))
    PROVE  a \in Regions(rs) /\ \A b \in Regions(rs) : ~Loses(a, b)
<1> DEFINE lost == {r.of : r \in {r \in Regions(rs) : \E b \in Regions(rs) : Loses(r, b)}}
           ds == [k \in DOMAIN rs |-> [rs[k] EXCEPT !.ok = @ /\ k \notin lost]]
<1>1. ds = DetectOverlaps(rs)
  BY DEF DetectOverlaps
<1> HIDE DEF ds, lost
<1>2. PICK k \in DOMAIN ds : ds[k].ok /\ \E o \in ds[k].at :
                               a = [of |-> k, start |-> o, end |-> o + ds[k].len]
  BY <1>1 DEF Regions
<1>3. k \in DOMAIN rs /\ rs[k] \in Result
  BY DEF ds
<1>4. ds[k] = [rs[k] EXCEPT !.ok = @ /\ k \notin lost]
  BY <1>3 DEF ds
<1>5. ds[k].at = rs[k].at /\ ds[k].len = rs[k].len /\ (ds[k].ok => rs[k].ok /\ k \notin lost)
  BY <1>3, <1>4 DEF Result
<1>6. a.of = k /\ a \in Regions(rs)
  BY <1>2, <1>3, <1>5 DEF Regions
<1>7. \A b \in Regions(rs) : ~Loses(a, b)
  BY <1>2, <1>5, <1>6 DEF lost
<1> QED BY <1>6, <1>7

Apart(rs) == \A a, b \in Regions(rs) : a # b => ~RangesOverlap(a, b)

\* Overlap detection leaves no two regions that overlap, whatever the matchers found.
THEOREM OverlapsRejected ==
    ASSUME NEW rs \in Seq(Result)
    PROVE  Apart(DetectOverlaps(rs))
<1> SUFFICES ASSUME NEW a \in Regions(DetectOverlaps(rs)), NEW b \in Regions(DetectOverlaps(rs)),
                    a # b, RangesOverlap(a, b)
             PROVE  FALSE
  BY DEF Apart
<1>1. a \in Regions(rs) /\ b \in Regions(rs)
  BY AcceptedRegions
<1>2. ~Loses(a, b) /\ ~Loses(b, a)
  BY <1>1, AcceptedRegions
<1> QED BY <1>1, <1>2, OneLoses

-----------------------------------------------------------------------------
(* Sorted regions *)

Region == [of : Nat, start : Nat, end : Nat]

\* Regions of a content of n bytes; a result has one region at an offset.
Fitting(R, n) ==
    /\ IsFiniteSet(R) /\ R \subseteq Region
    /\ \A r \in R : r.start <= r.end /\ r.end <= n
    /\ \A a, b \in R : a.of = b.of /\ a.start = b.start => a = b

\* Sorting lists every region once, in order of start.
LEMMA AscendingIs ==
    ASSUME NEW n \in Nat, NEW R, Fitting(R, n)
    PROVE  LET up == InOrder(R, Ascending)
               size == Cardinality(R)
           IN /\ size \in Nat /\ up \in [1..size -> R]
              /\ \A k \in 1..size : Cardinality({q \in R : Ascending(q, up[k])}) = k - 1
              /\ \A k, m \in 1..size : k < m => Ascending(up[k], up[m])
              /\ \A r \in R : \E k \in 1..size : up[k] = r
<1> DEFINE size == Cardinality(R)
           up == InOrder(R, Ascending)
           rel == {p \in R \X R : Ascending(p[1], p[2])}
           before(r) == {q \in R : Ascending(q, r)}
           choice(k) == CHOOSE r \in R : Cardinality(before(r)) = k - 1
<1>1. IsFiniteSet(R) /\ \A r \in R : r.of \in Nat /\ r.start \in Nat
  BY DEF Fitting, Region
<1>2. \A a, b \in R : a.of = b.of /\ a.start = b.start => a = b
  BY DEF Fitting
<1>3. Orders(rel, R)
  <2>1. \A a, b \in R : <<a, b>> \in rel <=> Ascending(a, b)
    OBVIOUS
  <2> HIDE DEF rel
  <2>2. \A a \in R : <<a, a>> \notin rel
    BY <1>1, <2>1 DEF Ascending, Listed
  <2>3. \A a, b \in R : a # b => <<a, b>> \in rel \/ <<b, a>> \in rel
    BY <1>1, <1>2, <2>1 DEF Ascending, Listed
  <2>4. \A a, b, c \in R : <<a, b>> \in rel /\ <<b, c>> \in rel => <<a, c>> \in rel
    BY <1>1, <2>1 DEF Ascending, Listed
  <2> QED BY <2>2, <2>3, <2>4 DEF Orders
<1>4. \A r \in R : PlaceOf(rel, R, r) = Cardinality(before(r))
  <2> TAKE r \in R
  <2>1. {q \in R : <<q, r>> \in rel} = before(r)
    OBVIOUS
  <2> QED BY <2>1 DEF PlaceOf
<1>5. up = [k \in 1..size |-> choice(k)]
  BY DEF InOrder
<1> HIDE DEF rel, before, up
<1>6. size \in Nat /\ \A k \in 1..size : \E r \in R : Cardinality(before(r)) = k - 1
  <2>1. size \in Nat /\ \A i \in 0..(size - 1) : \E r \in R : PlaceOf(rel, R, r) = i
    BY <1>1, <1>3, RankIs
  <2> HIDE DEF size
  <2>2. \A k \in 1..size : k - 1 \in 0..(size - 1)
    BY <2>1
  <2> QED BY <1>4, <2>1, <2>2
<1>7. \A k \in 1..size : choice(k) \in R /\ Cardinality(before(choice(k))) = k - 1
  BY <1>6
<1> HIDE DEF choice
<1>8. up \in [1..size -> R] /\ \A k \in 1..size : Cardinality(before(up[k])) = k - 1
  BY <1>5, <1>7
<1>9. Ranked(rel, R, up)
  BY <1>4, <1>8 DEF Ranked
<1>10. /\ \A k, m \in 1..size : k < m => <<up[k], up[m]>> \in rel
       /\ \A r \in R : \E k \in 1..size : up[k] = r
  <2>1. IsFiniteSet(R)
    BY <1>1
  <2> QED BY <2>1, <1>3, <1>9, RankedIs
<1>11. \A a, b \in R : <<a, b>> \in rel => Ascending(a, b)
  BY DEF rel
<1> QED BY <1>6, <1>8, <1>10, <1>11 DEF up, before

\* Sorting lists every region once, by descending start.
LEMMA DescendingIs ==
    ASSUME NEW n \in Nat, NEW R, Fitting(R, n)
    PROVE  LET down == InOrder(R, Descending)
               size == Cardinality(R)
           IN /\ size \in Nat /\ down \in [1..size -> R]
              /\ \A k, m \in 1..size : k < m => Descending(down[k], down[m])
              /\ \A r \in R : \E k \in 1..size : down[k] = r
<1> DEFINE size == Cardinality(R)
           down == InOrder(R, Descending)
           rel == {p \in R \X R : Descending(p[1], p[2])}
           before(r) == {q \in R : Descending(q, r)}
           choice(k) == CHOOSE r \in R : Cardinality(before(r)) = k - 1
<1>1. IsFiniteSet(R) /\ \A r \in R : r.of \in Nat /\ r.start \in Nat
  BY DEF Fitting, Region
<1>2. \A a, b \in R : a.of = b.of /\ a.start = b.start => a = b
  BY DEF Fitting
<1>3. Orders(rel, R)
  <2>1. \A a, b \in R : <<a, b>> \in rel <=> Descending(a, b)
    OBVIOUS
  <2> HIDE DEF rel
  <2>2. \A a \in R : <<a, a>> \notin rel
    BY <1>1, <2>1 DEF Descending, Listed
  <2>3. \A a, b \in R : a # b => <<a, b>> \in rel \/ <<b, a>> \in rel
    BY <1>1, <1>2, <2>1 DEF Descending, Listed
  <2>4. \A a, b, c \in R : <<a, b>> \in rel /\ <<b, c>> \in rel => <<a, c>> \in rel
    BY <1>1, <2>1 DEF Descending, Listed
  <2> QED BY <2>2, <2>3, <2>4 DEF Orders
<1>4. \A r \in R : PlaceOf(rel, R, r) = Cardinality(before(r))
  <2> TAKE r \in R
  <2>1. {q \in R : <<q, r>> \in rel} = before(r)
    OBVIOUS
  <2> QED BY <2>1 DEF PlaceOf
<1>5. down = [k \in 1..size |-> choice(k)]
  BY DEF InOrder
<1> HIDE DEF rel, before, down
<1>6. size \in Nat /\ \A k \in 1..size : \E r \in R : Cardinality(before(r)) = k - 1
  <2>1. size \in Nat /\ \A i \in 0..(size - 1) : \E r \in R : PlaceOf(rel, R, r) = i
    BY <1>1, <1>3, RankIs
  <2> HIDE DEF size
  <2>2. \A k \in 1..size : k - 1 \in 0..(size - 1)
    BY <2>1
  <2> QED BY <1>4, <2>1, <2>2
<1>7. \A k \in 1..size : choice(k) \in R /\ Cardinality(before(choice(k))) = k - 1
  BY <1>6
<1> HIDE DEF choice
<1>8. down \in [1..size -> R] /\ \A k \in 1..size : Cardinality(before(down[k])) = k - 1
  BY <1>5, <1>7
<1>9. Ranked(rel, R, down)
  BY <1>4, <1>8 DEF Ranked
<1>10. /\ \A k, m \in 1..size : k < m => <<down[k], down[m]>> \in rel
       /\ \A r \in R : \E k \in 1..size : down[k] = r
  <2>1. IsFiniteSet(R)
    BY <1>1
  <2> QED BY <2>1, <1>3, <1>9, RankedIs
<1>11. \A a, b \in R : <<a, b>> \in rel => Descending(a, b)
  BY DEF rel
<1> QED BY <1>6, <1>8, <1>10, <1>11 DEF down, before

\* Sorting lists every region once, by result.
LEMMA ListedIs ==
    ASSUME NEW n \in Nat, NEW R, Fitting(R, n)
    PROVE  LET list == InOrder(R, Listed)
               size == Cardinality(R)
           IN /\ size \in Nat /\ list \in [1..size -> R]
              /\ \A k \in 1..size : Cardinality({q \in R : Listed(q, list[k])}) = k - 1
              /\ \A k, m \in 1..size : k < m => Listed(list[k], list[m])
              /\ \A r \in R : \E k \in 1..size : list[k] = r
<1> DEFINE size == Cardinality(R)
           list == InOrder(R, Listed)
           rel == {p \in R \X R : Listed(p[1], p[2])}
           before(r) == {q \in R : Listed(q, r)}
           choice(k) == CHOOSE r \in R : Cardinality(before(r)) = k - 1
<1>1. IsFiniteSet(R) /\ \A r \in R : r.of \in Nat /\ r.start \in Nat
  BY DEF Fitting, Region
<1>2. \A a, b \in R : a.of = b.of /\ a.start = b.start => a = b
  BY DEF Fitting
<1>3. Orders(rel, R)
  <2>1. \A a, b \in R : <<a, b>> \in rel <=> Listed(a, b)
    OBVIOUS
  <2> HIDE DEF rel
  <2>2. \A a \in R : <<a, a>> \notin rel
    BY <1>1, <2>1 DEF Listed
  <2>3. \A a, b \in R : a # b => <<a, b>> \in rel \/ <<b, a>> \in rel
    BY <1>1, <1>2, <2>1 DEF Listed
  <2>4. \A a, b, c \in R : <<a, b>> \in rel /\ <<b, c>> \in rel => <<a, c>> \in rel
    BY <1>1, <2>1 DEF Listed
  <2> QED BY <2>2, <2>3, <2>4 DEF Orders
<1>4. \A r \in R : PlaceOf(rel, R, r) = Cardinality(before(r))
  <2> TAKE r \in R
  <2>1. {q \in R : <<q, r>> \in rel} = before(r)
    OBVIOUS
  <2> QED BY <2>1 DEF PlaceOf
<1>5. list = [k \in 1..size |-> choice(k)]
  BY DEF InOrder
<1> HIDE DEF rel, before, list
<1>6. size \in Nat /\ \A k \in 1..size : \E r \in R : Cardinality(before(r)) = k - 1
  <2>1. size \in Nat /\ \A i \in 0..(size - 1) : \E r \in R : PlaceOf(rel, R, r) = i
    BY <1>1, <1>3, RankIs
  <2> HIDE DEF size
  <2>2. \A k \in 1..size : k - 1 \in 0..(size - 1)
    BY <2>1
  <2> QED BY <1>4, <2>1, <2>2
<1>7. \A k \in 1..size : choice(k) \in R /\ Cardinality(before(choice(k))) = k - 1
  BY <1>6
<1> HIDE DEF choice
<1>8. list \in [1..size -> R] /\ \A k \in 1..size : Cardinality(before(list[k])) = k - 1
  BY <1>5, <1>7
<1>9. Ranked(rel, R, list)
  BY <1>4, <1>8 DEF Ranked
<1>10. /\ \A k, m \in 1..size : k < m => <<list[k], list[m]>> \in rel
       /\ \A r \in R : \E k \in 1..size : list[k] = r
  <2>1. IsFiniteSet(R)
    BY <1>1
  <2> QED BY <2>1, <1>3, <1>9, RankedIs
<1>11. \A a, b \in R : <<a, b>> \in rel => Listed(a, b)
  BY DEF rel
<1> QED BY <1>6, <1>8, <1>10, <1>11 DEF list, before

-----------------------------------------------------------------------------
(* Selecting and splicing *)

\* The selection takes the regions one after the other.
LEMMA SelectedIs ==
    ASSUME NEW n \in Nat, NEW R, \A r \in R : r.start \in Nat,
           NEW size \in Nat, NEW down \in [1..size -> R]
    PROVE  /\ Selected(down, n)[0] = [kept |-> {}, limit |-> n + 1]
           /\ \A k \in 1..size : Selected(down, n)[k] = Take(Selected(down, n)[k - 1], down[k])
           /\ \A k \in 0..size : Selected(down, n)[k] \in [kept : SUBSET R, limit : Int]
<1> DEFINE S == [kept : SUBSET R, limit : Int]
           base == [kept |-> {}, limit |-> n + 1]
           step == [k \in 1..size |-> [acc \in S |-> Take(acc, down[k])]]
           again(f) == [k \in 0..size |-> IF k = 0 THEN base ELSE Take(f[k - 1], down[k])]
           w == CHOOSE f : f = again(f)
<1>1. base \in S /\ \A acc \in S, k \in 1..size : Take(acc, down[k]) \in S
  <2>1. base \in S
    OBVIOUS
  <2>2. ASSUME NEW acc \in S, NEW k \in 1..size PROVE Take(acc, down[k]) \in S
    <3>1. down[k] \in R /\ down[k].start \in Int
      OBVIOUS
    <3> QED BY <3>1 DEF Take
  <2> QED BY <2>1, <2>2
<1> HIDE DEF S, base
<1>2. Recursion(S, size, base, step)
  <2>1. step \in [1..size -> [S -> S]]
    BY <1>1
  <2> HIDE DEF step
  <2> QED BY <1>1, <2>1, RecursionExists
<1>3. PICK g \in [0..size -> S] : g[0] = base /\ \A k \in 1..size : g[k] = step[k][g[k - 1]]
  BY <1>2 DEF Recursion
<1>4. g = again(g)
  <2>1. ASSUME NEW k \in 0..size PROVE g[k] = IF k = 0 THEN base ELSE Take(g[k - 1], down[k])
    <3>1. CASE k = 0
      BY <1>3, <3>1
    <3>2. CASE k # 0
      <4>1. k \in 1..size /\ k - 1 \in 0..size /\ g[k - 1] \in S
        BY <3>2
      <4> QED BY <1>3, <3>2, <4>1
    <3> QED BY <3>1, <3>2
  <2> QED BY <2>1
<1>5. w = again(w)
  <2> HIDE DEF again
  <2> QED BY <1>4
<1>6. Selected(down, n) = w
  <2>1. Len(down) = size
    <3>1. down \in Seq(R)
      BY SeqDef
    <3> QED BY <3>1, LenProperties
  <2> QED BY <2>1 DEF Selected, base
<1> HIDE DEF w
<1>7. w[0] = base /\ \A k \in 1..size : w[k] = Take(w[k - 1], down[k])
  <2> DEFINE a == again(w)
  <2>1. a[0] = base /\ \A k \in 1..size : a[k] = Take(w[k - 1], down[k])
    OBVIOUS
  <2> HIDE DEF a
  <2> QED BY <1>5, <2>1 DEF a
<1>8. \A k \in 0..size : w[k] \in S
  <2> DEFINE T == {k \in 0..size : w[k] \in S}
  <2>1. 0 \in T
    BY <1>1, <1>7
  <2>2. ASSUME NEW k \in 0..(size - 1), k \in T PROVE k + 1 \in T
    <3>1. k + 1 \in 1..size /\ (k + 1) - 1 = k /\ w[k] \in S
      BY <2>2
    <3>2. w[k + 1] = Take(w[k], down[k + 1])
      BY <1>7, <3>1
    <3> QED BY <1>1, <3>1, <3>2
  <2> HIDE DEF T
  <2>3. \A k \in 0..size : k \in T
    BY <2>1, <2>2, Upward
  <2> QED BY <2>3 DEF T
<1> QED BY <1>6, <1>7, <1>8 DEF S, base

\* What is selected is among the regions.
LEMMA SelectedAmong ==
    ASSUME NEW n \in Nat, NEW R, Fitting(R, n)
    PROVE  SelectReplacements(R, n) \subseteq R
<1> DEFINE down == InOrder(R, Descending)
           size == Cardinality(R)
<1>1. size \in Nat /\ down \in [1..size -> R]
  BY DescendingIs
<1>2. \A r \in R : r.start \in Nat
  BY DEF Fitting, Region
<1> HIDE DEF down, size
<1>3. \A k \in 0..size : Selected(down, n)[k] \in [kept : SUBSET R, limit : Int]
  BY <1>1, <1>2, SelectedIs
<1>4. Selected(down, n)[size] \in [kept : SUBSET R, limit : Int]
  BY <1>1, <1>3
<1> QED BY <1>4 DEF SelectReplacements, down, size

\* Regions one behind the other: of two that start together both are empty.
Stacked(R) == \A a, b \in R : a # b /\ a.start <= b.start => a.end <= b.start

\* Of regions one behind the other none is skipped.
LEMMA SelectsAll ==
    ASSUME NEW n \in Nat, NEW R, Fitting(R, n), Stacked(R)
    PROVE  SelectReplacements(R, n) = R
<1> DEFINE down == InOrder(R, Descending)
           size == Cardinality(R)
           w == Selected(down, n)
           limit(k) == IF k = 0 THEN n + 1 ELSE down[k].start
           kept(k) == {down[j] : j \in 1..k}
           T == {k \in 0..size : w[k] = [kept |-> kept(k), limit |-> limit(k)]}
<1>1. /\ size \in Nat /\ down \in [1..size -> R]
      /\ \A k, m \in 1..size : k < m => Descending(down[k], down[m])
      /\ \A r \in R : \E k \in 1..size : down[k] = r
  BY DescendingIs
<1>2. \A r \in R : r.of \in Nat /\ r.start \in Nat /\ r.end \in Nat /\ r.start <= r.end /\ r.end <= n
  BY DEF Fitting, Region
<1>3. /\ w[0] = [kept |-> {}, limit |-> n + 1]
      /\ \A k \in 1..size : w[k] = Take(w[k - 1], down[k])
  <2>1. \A r \in R : r.start \in Nat
    BY <1>2
  <2>2. size \in Nat /\ down \in [1..size -> R]
    BY <1>1
  <2> HIDE DEF down, size, w
  <2>3. /\ Selected(down, n)[0] = [kept |-> {}, limit |-> n + 1]
        /\ \A k \in 1..size : Selected(down, n)[k] = Take(Selected(down, n)[k - 1], down[k])
        /\ \A k \in 0..size : Selected(down, n)[k] \in [kept : SUBSET R, limit : Int]
    BY <2>1, <2>2, SelectedIs
  <2> QED BY <2>3 DEF w
<1> HIDE DEF down, size, w
<1>4. 0 \in T
  <2>1. kept(0) = {} /\ limit(0) = n + 1
    OBVIOUS
  <2> HIDE DEF kept, limit
  <2>2. w[0] = [kept |-> kept(0), limit |-> limit(0)]
    BY <1>3, <2>1
  <2>3. 0 \in 0..size
    BY <1>1
  <2> QED BY <2>2, <2>3
<1>5. ASSUME NEW k \in 0..(size - 1), k \in T PROVE k + 1 \in T
  <2> DEFINE r == down[k + 1]
  <2>1. k + 1 \in 1..size /\ (k + 1) - 1 = k /\ w[k] = [kept |-> kept(k), limit |-> limit(k)] /\ r \in R
    BY <1>1, <1>5
  <2>2. w[k + 1] = Take(w[k], r)
    BY <1>3, <2>1
  <2>3. r.end <= limit(k) /\ limit(k) \in Int
    <3>1. CASE k = 0
      BY <1>2, <2>1, <3>1
    <3>2. CASE k # 0
      <4>1. k \in 1..size /\ down[k] \in R /\ Descending(down[k], r)
        BY <1>1, <2>1, <3>2
      <4>2. r # down[k] /\ r.start <= down[k].start
        BY <1>2, <2>1, <4>1 DEF Descending, Listed
      <4>3. r.end <= down[k].start
        BY <2>1, <4>1, <4>2 DEF Stacked
      <4> QED BY <1>2, <3>2, <4>1, <4>3
    <3> QED BY <3>1, <3>2
  <2>4. kept(k) \cup {r} = kept(k + 1) /\ limit(k + 1) = r.start
    <3>1. 1..(k + 1) = 1..k \cup {k + 1} /\ k + 1 # 0
      BY <1>5
    <3> QED BY <3>1
  <2>5. r.end \in Int
    BY <1>2, <2>1
  <2> HIDE DEF r, limit, kept
  <2>6. ~(r.end > limit(k))
    BY <2>3, <2>5
  <2>7. w[k + 1] = [kept |-> kept(k) \cup {r}, limit |-> r.start]
    BY <2>1, <2>2, <2>6 DEF Take
  <2>8. k + 1 \in 0..size
    BY <1>1, <1>5
  <2> QED BY <2>4, <2>7, <2>8
<1> HIDE DEF T
<1>6. size \in T
  <2>1. \A k \in 0..size : k \in T
    BY <1>1, <1>4, <1>5, Upward
  <2> QED BY <1>1, <2>1
<1>7. w[size].kept = R
  <2>1. w[size].kept = {down[j] : j \in 1..size}
    BY <1>6 DEF T
  <2> QED BY <1>1, <2>1
<1> QED BY <1>7 DEF SelectReplacements, w, down, size

\* A part of a sequence of pieces is one.
LEMMA PartTyped ==
    ASSUME NEW content \in Seq(Nat), NEW i \in Nat, NEW j \in Int, j <= Len(content)
    PROVE  SubSeq(content, i + 1, j) \in Seq(Nat)
<1>1. Len(content) \in Nat /\ \A k \in 1..Len(content) : content[k] \in Nat
  BY LenProperties, ElementOfSeq
<1>2. \A k \in (i + 1)..j : content[k] \in Nat
  BY <1>1
<1>3. i + 1 \in Int /\ j \in Int
  OBVIOUS
<1> QED BY <1>2, <1>3, SubSeqProperties

LEMMA SpliceTyped ==
    ASSUME NEW content \in Seq(Nat), NEW acc \in [out : Seq(Nat), prev : 0..Len(content)],
           NEW r \in Region, r.end <= Len(content), r.start <= r.end
    PROVE  Splice(content, acc, r) \in [out : Seq(Nat), prev : 0..Len(content)]
<1>1. /\ acc.out \in Seq(Nat) /\ acc.prev \in Nat /\ Len(content) \in Nat
      /\ r.of \in Nat /\ r.start \in Nat /\ r.end \in Nat
  BY LenProperties DEF Region
<1>2. r.start <= Len(content)
  BY <1>1
<1>3. SubSeq(content, acc.prev + 1, r.start) \in Seq(Nat)
  BY <1>1, <1>2, PartTyped
<1>4. Text(r.of) \in Nat
  BY <1>1, SizeAssumption DEF Text
<1>5. <<Text(r.of)>> \in Seq(Nat)
  BY <1>4
<1>6. r.end \in 0..Len(content)
  BY <1>1
<1> DEFINE part == SubSeq(content, acc.prev + 1, r.start)
           text == <<Text(r.of)>>
<1> HIDE DEF part, text
<1>7. acc.out \o part \o text \in Seq(Nat)
  BY <1>1, <1>3, <1>5, ConcatProperties DEF part, text
<1> QED BY <1>6, <1>7 DEF Splice, part, text

\* The splice puts in the regions one after the other.
LEMMA SplicedIs ==
    ASSUME NEW content \in Seq(Nat), NEW R, Fitting(R, Len(content)),
           NEW size \in Nat, NEW up \in [1..size -> R]
    PROVE  /\ Spliced(content, up)[0] = [out |-> <<>>, prev |-> 0]
           /\ \A k \in 1..size : Spliced(content, up)[k] = Splice(content, Spliced(content, up)[k - 1], up[k])
           /\ \A k \in 0..size : Spliced(content, up)[k] \in [out : Seq(Nat), prev : 0..Len(content)]
<1> DEFINE S == [out : Seq(Nat), prev : 0..Len(content)]
           base == [out |-> <<>>, prev |-> 0]
           step == [k \in 1..size |-> [acc \in S |-> Splice(content, acc, up[k])]]
           again(f) == [k \in 0..size |-> IF k = 0 THEN base ELSE Splice(content, f[k - 1], up[k])]
           w == CHOOSE f : f = again(f)
<1>1. base \in S /\ \A acc \in S, k \in 1..size : Splice(content, acc, up[k]) \in S
  <2>1. base \in S
    <3>1. <<>> \in Seq(Nat) /\ 0 \in 0..Len(content)
      BY EmptySeq, LenProperties
    <3> QED BY <3>1
  <2>2. ASSUME NEW acc \in S, NEW k \in 1..size PROVE Splice(content, acc, up[k]) \in S
    <3>1. up[k] \in Region /\ up[k].start <= up[k].end /\ up[k].end <= Len(content)
      BY DEF Fitting
    <3> QED BY <3>1, SpliceTyped
  <2> QED BY <2>1, <2>2
<1> HIDE DEF S, base
<1>2. Recursion(S, size, base, step)
  <2>1. step \in [1..size -> [S -> S]]
    BY <1>1
  <2> HIDE DEF step
  <2> QED BY <1>1, <2>1, RecursionExists
<1>3. PICK g \in [0..size -> S] : g[0] = base /\ \A k \in 1..size : g[k] = step[k][g[k - 1]]
  BY <1>2 DEF Recursion
<1>4. g = again(g)
  <2>1. ASSUME NEW k \in 0..size PROVE g[k] = IF k = 0 THEN base ELSE Splice(content, g[k - 1], up[k])
    <3>1. CASE k = 0
      BY <1>3, <3>1
    <3>2. CASE k # 0
      <4>1. k \in 1..size /\ k - 1 \in 0..size /\ g[k - 1] \in S
        BY <3>2
      <4> QED BY <1>3, <3>2, <4>1
    <3> QED BY <3>1, <3>2
  <2> QED BY <2>1
<1>5. w = again(w)
  <2> HIDE DEF again
  <2> QED BY <1>4
<1>6. Spliced(content, up) = w
  <2>1. Len(up) = size
    <3>1. up \in Seq(R)
      BY SeqDef
    <3> QED BY <3>1, LenProperties
  <2> QED BY <2>1 DEF Spliced, base
<1> HIDE DEF w
<1>7. w[0] = base /\ \A k \in 1..size : w[k] = Splice(content, w[k - 1], up[k])
  <2> DEFINE a == again(w)
  <2>1. a[0] = base /\ \A k \in 1..size : a[k] = Splice(content, w[k - 1], up[k])
    OBVIOUS
  <2> HIDE DEF a
  <2> QED BY <1>5, <2>1 DEF a
<1>8. \A k \in 0..size : w[k] \in S
  <2> DEFINE T == {k \in 0..size : w[k] \in S}
  <2>1. 0 \in T
    BY <1>1, <1>7
  <2>2. ASSUME NEW k \in 0..(size - 1), k \in T PROVE k + 1 \in T
    <3>1. k + 1 \in 1..size /\ (k + 1) - 1 = k /\ w[k] \in S
      BY <2>2
    <3>2. w[k + 1] = Splice(content, w[k], up[k + 1])
      BY <1>7, <3>1
    <3> QED BY <1>1, <3>1, <3>2
  <2> HIDE DEF T
  <2>3. \A k \in 0..size : k \in T
    BY <2>1, <2>2, Upward
  <2> QED BY <2>3 DEF T
<1> QED BY <1>6, <1>7, <1>8 DEF S, base

LEMMA FittingPart ==
    ASSUME NEW n \in Nat, NEW R, Fitting(R, n), NEW K \in SUBSET R
    PROVE  Fitting(K, n)
<1>1. IsFiniteSet(K)
  BY FS_Subset DEF Fitting
<1> QED BY <1>1 DEF Fitting

\* The spliced content is a sequence of pieces.
LEMMA ReplacedTyped ==
    ASSUME NEW content \in Seq(Nat), NEW R, Fitting(R, Len(content))
    PROVE  ApplyReplacements(content, R) \in Seq(Nat)
<1> DEFINE kept == SelectReplacements(R, Len(content))
           up == InOrder(kept, Ascending)
           size == Cardinality(kept)
           end == Spliced(content, up)[size]
<1>1. Len(content) \in Nat
  BY LenProperties
<1>2. Fitting(kept, Len(content))
  BY <1>1, SelectedAmong, FittingPart
<1> HIDE DEF kept
<1>3. size \in Nat /\ up \in [1..size -> kept]
  BY <1>1, <1>2, AscendingIs
<1> HIDE DEF up, size
<1>4. \A k \in 0..size : Spliced(content, up)[k] \in [out : Seq(Nat), prev : 0..Len(content)]
  BY <1>2, <1>3, SplicedIs
<1>5. end.out \in Seq(Nat) /\ end.prev \in 0..Len(content)
  BY <1>3, <1>4
<1> HIDE DEF end
<1>6. SubSeq(content, end.prev + 1, Len(content)) \in Seq(Nat)
  BY <1>1, <1>5, PartTyped
<1>7. end.out \o SubSeq(content, end.prev + 1, Len(content)) \in Seq(Nat)
  BY <1>5, <1>6, ConcatProperties
<1> QED BY <1>7 DEF ApplyReplacements, end, up, size, kept

-----------------------------------------------------------------------------
(* What the accepted results ask for *)

Earlier(R, o) == {r \in R : r.start < o}
Here(R, o) == {r \in R : r.start = o}

\* The number of regions that start before an offset.
LEMMA EarlierIs ==
    ASSUME NEW n \in Nat, NEW R, Fitting(R, n), NEW o \in Nat
    PROVE  /\ Cardinality(Earlier(R, o)) \in Nat
           /\ Cardinality(Earlier(R, o)) <= Cardinality(R)
           /\ Fitting(Here(R, o), n)
           /\ Cardinality(Here(R, o)) \in Nat
           /\ Cardinality(Earlier(R, o + 1)) = Cardinality(Earlier(R, o)) + Cardinality(Here(R, o))
           /\ Earlier(R, 0) = {}
           /\ Cardinality(Earlier(R, 0)) = 0
           /\ Earlier(R, n + 1) = R
<1>1. IsFiniteSet(R) /\ \A r \in R : r.start \in Nat /\ r.end \in Nat /\ r.start <= r.end /\ r.end <= n
  BY DEF Fitting, Region
<1>2. Fitting(Here(R, o), n)
  <2>1. Here(R, o) \in SUBSET R
    BY DEF Here
  <2> QED BY <2>1, FittingPart
<1>3. IsFiniteSet(Here(R, o)) /\ Cardinality(Here(R, o)) \in Nat
  <2>1. IsFiniteSet(Here(R, o))
    BY <1>2 DEF Fitting
  <2> QED BY <2>1, FS_CardinalityType
<1>4. /\ IsFiniteSet(Earlier(R, o))
      /\ Cardinality(Earlier(R, o)) \in Nat
      /\ Cardinality(Earlier(R, o)) <= Cardinality(R)
  <2>1. Earlier(R, o) \in SUBSET R
    BY DEF Earlier
  <2>2. IsFiniteSet(Earlier(R, o)) /\ Cardinality(Earlier(R, o)) <= Cardinality(R)
    BY <1>1, <2>1, FS_Subset
  <2> QED BY <2>2, FS_CardinalityType
<1>5. Earlier(R, o + 1) = Earlier(R, o) \cup Here(R, o) /\ Earlier(R, o) \cap Here(R, o) = {}
  <2>1. \A r \in R : r.start < o + 1 <=> r.start < o \/ r.start = o
    BY <1>1
  <2>2. \A r \in R : ~(r.start < o /\ r.start = o)
    BY <1>1
  <2> QED BY <2>1, <2>2 DEF Earlier, Here
<1>6. Cardinality(Earlier(R, o + 1)) = Cardinality(Earlier(R, o)) + Cardinality(Here(R, o))
  BY <1>3, <1>4, <1>5, TogetherAtMost
<1>7. Earlier(R, 0) = {} /\ Earlier(R, n + 1) = R
  <2>1. \A r \in R : ~(r.start < 0) /\ r.start < n + 1
    BY <1>1
  <2> QED BY <2>1 DEF Earlier
<1>8. Cardinality(Earlier(R, 0)) = 0
  BY <1>7, FS_EmptySet
<1> QED BY <1>2, <1>3, <1>4, <1>6, <1>7, <1>8

\* In ascending order the regions that start before an offset come first.
LEMMA EarlierFirst ==
    ASSUME NEW n \in Nat, NEW R, Fitting(R, n), NEW o \in Nat,
           NEW k \in 1..Cardinality(R)
    PROVE  InOrder(R, Ascending)[k].start < o <=> k <= Cardinality(Earlier(R, o))
<1> DEFINE up == InOrder(R, Ascending)
           before == {q \in R : Ascending(q, up[k])}
<1>1. Cardinality(R) \in Nat /\ up[k] \in R /\ Cardinality(before) = k - 1
  BY AscendingIs
<1>2. IsFiniteSet(R) /\ \A r \in R : r.start \in Nat /\ r.of \in Nat
  BY DEF Fitting, Region
<1> HIDE DEF up
<1>3. Cardinality(Earlier(R, o)) \in Nat /\ IsFiniteSet(Earlier(R, o)) /\ IsFiniteSet(before)
  <2>1. Earlier(R, o) \in SUBSET R /\ before \in SUBSET R
    BY DEF Earlier
  <2> QED BY <1>2, <2>1, FS_Subset, FS_CardinalityType
<1>4. CASE up[k].start < o
  <2>1. before \cup {up[k]} \in SUBSET Earlier(R, o)
    BY <1>1, <1>2, <1>4 DEF Earlier, Ascending
  <2>2. up[k] \notin before
    BY <1>1, <1>2 DEF Ascending, Listed
  <2> HIDE DEF before
  <2>3. Cardinality(before \cup {up[k]}) = k
    <3>1. Cardinality(before \cup {up[k]}) = Cardinality(before) + 1
      BY <1>3, <2>2, FS_AddElement
    <3> QED BY <1>1, <3>1
  <2>4. Cardinality(before \cup {up[k]}) <= Cardinality(Earlier(R, o))
    BY <1>3, <2>1, FS_Subset
  <2> QED BY <1>4, <2>3, <2>4 DEF up
<1>5. CASE ~(up[k].start < o)
  <2>1. Earlier(R, o) \in SUBSET before
    BY <1>1, <1>2, <1>5 DEF Earlier, Ascending
  <2> HIDE DEF before
  <2>2. Cardinality(Earlier(R, o)) <= k - 1
    BY <1>1, <1>3, <2>1, FS_Subset
  <2>3. ~(k <= Cardinality(Earlier(R, o)))
    BY <1>3, <2>2
  <2> QED BY <1>5, <2>3 DEF up
<1> QED BY <1>4, <1>5

\* The regions that start at an offset stand behind the earlier ones, in the order
\* of the results.
LEMMA HereIs ==
    ASSUME NEW n \in Nat, NEW R, Fitting(R, n), NEW o \in Nat,
           NEW i \in 1..Cardinality(Here(R, o))
    PROVE  /\ Cardinality(Earlier(R, o)) + i \in 1..Cardinality(R)
           /\ InOrder(Here(R, o), Listed)[i] = InOrder(R, Ascending)[Cardinality(Earlier(R, o)) + i]
<1> DEFINE up == InOrder(R, Ascending)
           H == Here(R, o)
           list == InOrder(H, Listed)
           r == list[i]
           before == {q \in R : Ascending(q, r)}
           beside == {q \in H : Listed(q, r)}
<1>1. IsFiniteSet(R) /\ \A q \in R : q.start \in Nat /\ q.of \in Nat
  BY DEF Fitting, Region
<1>2. Fitting(H, n)
  BY EarlierIs
<1>3. r \in H /\ Cardinality(beside) = i - 1
  <2> HIDE DEF H
  <2>1. i \in 1..Cardinality(H)
    BY DEF H
  <2> QED BY <1>2, <2>1, ListedIs
<1>4. /\ Cardinality(R) \in Nat /\ up \in [1..Cardinality(R) -> R]
      /\ \A k \in 1..Cardinality(R) : Cardinality({q \in R : Ascending(q, up[k])}) = k - 1
      /\ \A q \in R : \E k \in 1..Cardinality(R) : up[k] = q
  BY AscendingIs
<1> HIDE DEF up, list
<1>5. r \in R /\ r.start = o
  BY <1>3 DEF Here
<1>6. before = Earlier(R, o) \cup beside /\ Earlier(R, o) \cap beside = {}
  <2>1. \A q \in R : Ascending(q, r) <=> q.start < o \/ (q.start = o /\ Listed(q, r))
    BY <1>1, <1>5 DEF Ascending
  <2>2. \A q \in R : ~(q.start < o /\ q.start = o)
    BY <1>1
  <2> HIDE DEF r
  <2> QED BY <2>1, <2>2 DEF Earlier, Here
<1> HIDE DEF r
<1>7. IsFiniteSet(Earlier(R, o)) /\ IsFiniteSet(beside)
  <2>1. Earlier(R, o) \in SUBSET R /\ beside \in SUBSET R
    BY DEF Earlier, Here
  <2> QED BY <1>1, <2>1, FS_Subset
<1>8. PICK k \in 1..Cardinality(R) : up[k] = r
  BY <1>4, <1>5
<1>9. k - 1 = Cardinality(before)
  BY <1>4, <1>8
<1> HIDE DEF before, beside, H
<1>10. Cardinality(before) = Cardinality(Earlier(R, o)) + (i - 1)
  BY <1>3, <1>6, <1>7, TogetherAtMost
<1>11. Cardinality(Earlier(R, o)) \in Nat
  BY <1>7, FS_CardinalityType
<1>12. i \in Int /\ k \in Int
  OBVIOUS
<1>13. k = Cardinality(Earlier(R, o)) + i
  <2>1. \A a, b, c \in Int : c - 1 = a + (b - 1) => c = a + b
    OBVIOUS
  <2>2. k - 1 = Cardinality(Earlier(R, o)) + (i - 1)
    BY <1>9, <1>10
  <2>3. Cardinality(Earlier(R, o)) \in Int
    BY <1>11
  <2> QED BY <1>12, <2>1, <2>2, <2>3
<1>14. list[i] = up[Cardinality(Earlier(R, o)) + i]
  BY <1>8, <1>13 DEF r
<1> QED BY <1>13, <1>14 DEF list, up, H

\* The texts that start at an offset, as the sorted regions list them.
LEMMA TextsAtIs ==
    ASSUME NEW n \in Nat, NEW R, Fitting(R, n), NEW o \in Nat
    PROVE  /\ TextsAt(R, o) \in Seq(Nat)
           /\ Len(TextsAt(R, o)) = Cardinality(Here(R, o))
           /\ \A i \in 1..Cardinality(Here(R, o)) :
                  TextsAt(R, o)[i] = Text(InOrder(R, Ascending)[Cardinality(Earlier(R, o)) + i].of)
<1> DEFINE list == InOrder(Here(R, o), Listed)
           size == Cardinality(Here(R, o))
<1>1. Fitting(Here(R, o), n)
  BY EarlierIs
<1>2. size \in Nat /\ list \in [1..size -> Here(R, o)]
  BY <1>1, ListedIs
<1>3. \A i \in 1..size : list[i] = InOrder(R, Ascending)[Cardinality(Earlier(R, o)) + i]
  BY HereIs
<1>4. \A r \in Here(R, o) : Text(r.of) \in Nat
  BY SizeAssumption DEF Text, Here, Fitting, Region
<1>5. TextsAt(R, o) = [i \in DOMAIN list |-> Text(list[i].of)]
  BY DEF TextsAt, Here
<1> HIDE DEF list, size
<1>6. TextsAt(R, o) \in [1..size -> Nat]
  BY <1>2, <1>4, <1>5
<1>7. TextsAt(R, o) \in Seq(Nat)
  BY <1>2, <1>6, SeqDef
<1>8. DOMAIN TextsAt(R, o) = 1..size /\ DOMAIN TextsAt(R, o) = 1..Len(TextsAt(R, o)) /\ Len(TextsAt(R, o)) \in Nat
  BY <1>6, <1>7, LenProperties
<1>9. Len(TextsAt(R, o)) = size
  BY <1>2, <1>8
<1>10. \A i \in 1..size : TextsAt(R, o)[i] = Text(list[i].of)
  BY <1>2, <1>5
<1> QED BY <1>3, <1>7, <1>9, <1>10 DEF size

LEMMA ByteAtTyped ==
    ASSUME NEW content \in Seq(Nat), NEW R, NEW o \in 1..Len(content)
    PROVE  ByteAt(content, R, o) \in Seq(Nat)
<1>1. content[o] \in Nat
  BY ElementOfSeq
<1>2. <<content[o]>> \in Seq(Nat) /\ <<>> \in Seq(Nat)
  BY <1>1, EmptySeq
<1> QED BY <1>2 DEF ByteAt

\* The intended content grows from offset to offset.
LEMMA IntendedIs ==
    ASSUME NEW content \in Seq(Nat), NEW R, Fitting(R, Len(content))
    PROVE  /\ IntendedUpTo(content, R)[0] = TextsAt(R, 0)
           /\ \A o \in 1..Len(content) : IntendedUpTo(content, R)[o] =
                  IntendedUpTo(content, R)[o - 1] \o ByteAt(content, R, o) \o TextsAt(R, o)
           /\ \A o \in 0..Len(content) : IntendedUpTo(content, R)[o] \in Seq(Nat)
<1> DEFINE n == Len(content)
           base == TextsAt(R, 0)
           next(acc, o) == acc \o ByteAt(content, R, o) \o TextsAt(R, o)
           step == [o \in 1..n |-> [acc \in Seq(Nat) |-> next(acc, o)]]
           again(f) == [o \in 0..n |-> IF o = 0 THEN base ELSE next(f[o - 1], o)]
           w == CHOOSE f : f = again(f)
<1>1. n \in Nat
  BY LenProperties
<1>2. base \in Seq(Nat) /\ \A acc \in Seq(Nat), o \in 1..n : next(acc, o) \in Seq(Nat)
  <2>1. base \in Seq(Nat)
    BY <1>1, 0 \in Nat, TextsAtIs
  <2>2. ASSUME NEW acc \in Seq(Nat), NEW o \in 1..n PROVE next(acc, o) \in Seq(Nat)
    <3>1. ByteAt(content, R, o) \in Seq(Nat)
      BY ByteAtTyped
    <3>2. o \in Nat
      BY <1>1
    <3>3. TextsAt(R, o) \in Seq(Nat)
      BY <1>1, <3>2, TextsAtIs
    <3>4. acc \o ByteAt(content, R, o) \in Seq(Nat)
      BY <3>1, ConcatProperties
    <3> QED BY <3>3, <3>4, ConcatProperties
  <2> QED BY <2>1, <2>2
<1> HIDE DEF base, next
<1>3. Recursion(Seq(Nat), n, base, step)
  <2>1. step \in [1..n -> [Seq(Nat) -> Seq(Nat)]]
    BY <1>2
  <2> HIDE DEF step, n
  <2> QED BY <1>1, <1>2, <2>1, RecursionExists
<1>4. PICK g \in [0..n -> Seq(Nat)] : g[0] = base /\ \A o \in 1..n : g[o] = step[o][g[o - 1]]
  BY <1>3 DEF Recursion
<1> HIDE DEF n
<1>5. g = again(g)
  <2>1. ASSUME NEW o \in 0..n PROVE g[o] = IF o = 0 THEN base ELSE next(g[o - 1], o)
    <3>1. CASE o = 0
      BY <1>4, <3>1
    <3>2. CASE o # 0
      <4>1. o \in 1..n /\ o - 1 \in 0..n /\ g[o - 1] \in Seq(Nat)
        BY <1>1, <3>2
      <4> QED BY <1>4, <3>2, <4>1
    <3> QED BY <3>1, <3>2
  <2> QED BY <2>1
<1>6. w = again(w)
  <2> HIDE DEF again
  <2> QED BY <1>5
<1>7. IntendedUpTo(content, R) = w
  BY DEF IntendedUpTo, n, base, next
<1> HIDE DEF w
<1>8. w[0] = base /\ \A o \in 1..n : w[o] = next(w[o - 1], o)
  <2> DEFINE a == again(w)
  <2>1. a[0] = base /\ \A o \in 1..n : a[o] = next(w[o - 1], o)
    BY <1>1
  <2> HIDE DEF a
  <2> QED BY <1>6, <2>1 DEF a
<1>9. \A o \in 0..n : w[o] \in Seq(Nat)
  <2> DEFINE T == {o \in 0..n : w[o] \in Seq(Nat)}
  <2>1. 0 \in T
    BY <1>1, <1>2, <1>8
  <2>2. ASSUME NEW o \in 0..(n - 1), o \in T PROVE o + 1 \in T
    <3>1. o + 1 \in 1..n /\ (o + 1) - 1 = o /\ w[o] \in Seq(Nat) /\ o + 1 \in 0..n
      BY <1>1, <2>2
    <3>2. w[o + 1] = next(w[o], o + 1)
      BY <1>8, <3>1
    <3> QED BY <1>2, <3>1, <3>2
  <2> HIDE DEF T
  <2>3. \A o \in 0..n : o \in T
    BY <1>1, <2>1, <2>2, Upward
  <2> QED BY <2>3 DEF T
<1> QED BY <1>7, <1>8, <1>9 DEF base, next, n

Sorted(R) == InOrder(R, Ascending)
Done(content, R) == Spliced(content, Sorted(R))

\* What the splice has put out after each region, and where it goes on.
LEMMA DoneIs ==
    ASSUME NEW content \in Seq(Nat), NEW R, Fitting(R, Len(content))
    PROVE  /\ Done(content, R)[0].out = <<>> /\ Done(content, R)[0].prev = 0
           /\ \A k \in 1..Cardinality(R) :
                  /\ Done(content, R)[k].out = Done(content, R)[k - 1].out
                         \o SubSeq(content, Done(content, R)[k - 1].prev + 1, Sorted(R)[k].start)
                         \o <<Text(Sorted(R)[k].of)>>
                  /\ Done(content, R)[k].prev = Sorted(R)[k].end
           /\ \A k \in 0..Cardinality(R) :
                  Done(content, R)[k].out \in Seq(Nat) /\ Done(content, R)[k].prev \in 0..Len(content)
<1> DEFINE size == Cardinality(R)
           up == Sorted(R)
           w == Done(content, R)
<1>1. size \in Nat /\ up \in [1..size -> R]
  <2>1. Len(content) \in Nat
    BY LenProperties
  <2> QED BY <2>1, AscendingIs DEF Sorted
<1> HIDE DEF size, up
<1>2. /\ Spliced(content, up)[0] = [out |-> <<>>, prev |-> 0]
      /\ \A k \in 1..size : Spliced(content, up)[k] = Splice(content, Spliced(content, up)[k - 1], up[k])
      /\ \A k \in 0..size : Spliced(content, up)[k] \in [out : Seq(Nat), prev : 0..Len(content)]
  <2> HIDE DEF Fitting
  <2> QED BY <1>1, SplicedIs
<1>3. w = Spliced(content, up)
  BY DEF Done, up
<1> HIDE DEF w
<1>4. w[0].out = <<>> /\ w[0].prev = 0
  BY <1>2, <1>3
<1>5. ASSUME NEW k \in 1..size
      PROVE  /\ w[k].out = w[k - 1].out \o SubSeq(content, w[k - 1].prev + 1, up[k].start)
                               \o <<Text(up[k].of)>>
             /\ w[k].prev = up[k].end
  <2> DEFINE acc == w[k - 1]
             r == up[k]
  <2>1. w[k] = Splice(content, acc, r)
    BY <1>2, <1>3
  <2> HIDE DEF acc, r
  <2>2. /\ w[k].out = acc.out \o SubSeq(content, acc.prev + 1, r.start) \o <<Text(r.of)>>
        /\ w[k].prev = r.end
    <3> DEFINE out == acc.out \o SubSeq(content, acc.prev + 1, r.start) \o <<Text(r.of)>>
    <3>1. w[k] = [out |-> out, prev |-> r.end]
      BY <2>1 DEF Splice
    <3> HIDE DEF out
    <3>2. w[k].out = out /\ w[k].prev = r.end
      BY <3>1
    <3> QED BY <3>2 DEF out
  <2> QED BY <2>2 DEF acc, r
<1>6. \A k \in 0..size : w[k].out \in Seq(Nat) /\ w[k].prev \in 0..Len(content)
  BY <1>2, <1>3
<1> QED BY <1>4, <1>5, <1>6 DEF w, up, size

\* A byte is kept unless the region that starts last before it covers it.
LEMMA ByteStep ==
    ASSUME NEW content \in Seq(Nat), NEW R, Fitting(R, Len(content)), Stacked(R),
           NEW o \in Nat, o \in 1..Len(content),
           NEW p \in Nat, p = Cardinality(Earlier(R, o)),
           NEW prev \in Nat, prev = Done(content, R)[p].prev
    PROVE  SubSeq(content, prev + 1, o - 1) \o ByteAt(content, R, o) = SubSeq(content, prev + 1, o)
<1> DEFINE size == Cardinality(R)
           up == Sorted(R)
<1>1. Len(content) \in Nat /\ o \in Nat
  BY LenProperties
<1>2. p \in Nat /\ p <= size
  BY <1>1, EarlierIs
<1>3. /\ size \in Nat /\ up \in [1..size -> R]
      /\ \A k, m \in 1..size : k < m => Ascending(up[k], up[m])
      /\ \A r \in R : \E k \in 1..size : up[k] = r
  BY <1>1, AscendingIs DEF Sorted
<1>4. \A k \in 1..size : up[k].start < o <=> k <= p
  BY <1>1, EarlierFirst DEF Sorted
<1>5. /\ p = 0 => prev = 0
      /\ p # 0 => prev = up[p].end
      /\ prev \in Nat
  <2>1. /\ Done(content, R)[0].prev = 0
        /\ \A k \in 1..size : Done(content, R)[k].prev = up[k].end
        /\ \A k \in 0..size : Done(content, R)[k].prev \in 0..Len(content)
    BY DoneIs
  <2> HIDE DEF size, up
  <2>2. p \in 0..size /\ (p # 0 => p \in 1..size)
    BY <1>2, <1>3
  <2>3. prev \in 0..Len(content)
    BY <2>1, <2>2
  <2> QED BY <1>1, <2>1, <2>2, <2>3
<1> HIDE DEF size, up
<1>6. \A r \in R : r.of \in Nat /\ r.start \in Nat /\ r.end \in Nat
  BY DEF Fitting, Region
<1>7. CASE \E r \in R : r.start < o /\ o <= r.end
  <2>1. PICK r \in R : r.start < o /\ o <= r.end
    BY <1>7
  <2>2. PICK k \in 1..size : up[k] = r
    BY <1>3
  <2>3. k <= p
    BY <1>4, <2>1, <2>2
  <2>4. p \in 1..size /\ up[p] \in R /\ up[p].start < o
    BY <1>2, <1>3, <1>4, <2>3
  <2>5. o <= up[p].end
    <3>1. CASE k = p
      BY <2>1, <2>2, <3>1
    <3>2. CASE k # p
      <4>1. Ascending(up[k], up[p])
        BY <1>2, <1>3, <2>3, <2>4, <3>2
      <4>2. r.start <= up[p].start /\ r # up[p]
        BY <1>6, <2>2, <2>4, <4>1 DEF Ascending, Listed
      <4>3. r.end <= up[p].start
        BY <2>4, <4>2 DEF Stacked
      <4> QED BY <1>1, <1>6, <2>1, <2>4, <4>3
    <3> QED BY <3>1, <3>2
  <2>6. o <= prev
    BY <1>5, <2>4, <2>5
  <2>7. SubSeq(content, prev + 1, o - 1) = <<>> /\ SubSeq(content, prev + 1, o) = <<>>
    <3>1. prev + 1 \in Int /\ o - 1 \in Int /\ o \in Int /\ o - 1 < prev + 1 /\ o < prev + 1
      BY <1>1, <1>5, <2>6
    <3> QED BY <3>1, SubSeqEmpty
  <2>8. ByteAt(content, R, o) = <<>>
    BY <1>7 DEF ByteAt
  <2>9. <<>> \in Seq(Nat)
    BY EmptySeq
  <2>10. <<>> \o <<>> = <<>>
    BY <2>9, ConcatEmptySeq
  <2> QED BY <2>7, <2>8, <2>10
<1>8. CASE ~ \E r \in R : r.start < o /\ o <= r.end
  <2>1. prev < o
    <3>1. CASE p = 0
      BY <1>1, <1>5, <3>1
    <3>2. CASE p # 0
      <4>1. p \in 1..size /\ up[p] \in R /\ up[p].start < o
        BY <1>2, <1>3, <1>4, <3>2
      <4>2. ~(o <= up[p].end)
        BY <1>8, <4>1
      <4> QED BY <1>1, <1>5, <1>6, <3>2, <4>1, <4>2
    <3> QED BY <3>1, <3>2
  <2>2. ByteAt(content, R, o) = <<content[o]>>
    BY <1>8 DEF ByteAt
  <2>3. prev + 1 \in 1..Len(content) /\ o \in (prev + 1)..Len(content)
    BY <1>1, <1>5, <2>1
  <2>4. SubSeq(content, prev + 1, o) = SubSeq(content, prev + 1, o - 1) \o <<content[o]>>
    BY <2>3, SubSeqRecursiveSecond
  <2> QED BY <2>2, <2>4
<1> QED BY <1>7, <1>8

LEMMA TextIs ==
    ASSUME NEW n \in Nat, NEW R, Fitting(R, n), NEW o \in Nat,
           NEW i \in 1..Cardinality(Here(R, o))
    PROVE  TextsAt(R, o)[i] = Text(Sorted(R)[Cardinality(Earlier(R, o)) + i].of)
<1>1. \A k \in 1..Cardinality(Here(R, o)) :
          TextsAt(R, o)[k] = Text(InOrder(R, Ascending)[Cardinality(Earlier(R, o)) + k].of)
  BY TextsAtIs
<1> QED BY <1>1 DEF Sorted

LEMMA Associative == \A a, b, c \in Seq(Nat) : (a \o b) \o c = a \o (b \o c)
  BY ConcatAssociative

\* What stands before an offset when k regions are put in.
Reached(content, R, k, o) ==
    Done(content, R)[k].out \o SubSeq(content, Done(content, R)[k].prev + 1, o)

\* The splice puts in the texts that start at an offset one behind the other.
LEMMA TextStep ==
    ASSUME NEW content \in Seq(Nat), NEW R, Fitting(R, Len(content)), Stacked(R),
           NEW o \in Nat, o <= Len(content)
    PROVE  Reached(content, R, Cardinality(Earlier(R, o)), o) \o TextsAt(R, o)
           = Reached(content, R, Cardinality(Earlier(R, o + 1)), o)
<1>1. Len(content) \in Nat /\ o + 1 \in Nat
  BY LenProperties
<1>2. PICK p \in Nat : p = Cardinality(Earlier(R, o))
  BY <1>1, EarlierIs
<1>3. PICK q \in Nat : q = Cardinality(Earlier(R, o + 1))
  BY <1>1, EarlierIs
<1> SUFFICES Reached(content, R, p, o) \o TextsAt(R, o) = Reached(content, R, q, o)
  BY <1>2, <1>3
<1> DEFINE size == Cardinality(R)
           h == Cardinality(Here(R, o))
           up == Sorted(R)
           w == Done(content, R)
           texts == TextsAt(R, o)
           between(k) == SubSeq(content, w[k].prev + 1, o)
           front == w[p].out \o between(p)
           T == {i \in 0..h : i # 0 => w[p + i].out = front \o SubSeq(texts, 1, i)}
<1>4. Fitting(Here(R, o), Len(content)) /\ h \in Nat /\ q = p + h
  BY <1>1, <1>2, <1>3, EarlierIs
<1>5. texts \in Seq(Nat) /\ Len(texts) = h /\ \A i \in 1..h : texts[i] = Text(up[p + i].of)
  <2>1. texts \in Seq(Nat) /\ Len(texts) = h
    BY <1>1, TextsAtIs
  <2>2. ASSUME NEW i \in 1..h
        PROVE  texts[i] = Text(Sorted(R)[Cardinality(Earlier(R, o)) + i].of)
    BY <1>1, TextIs
  <2>3. ASSUME NEW i \in 1..h PROVE texts[i] = Text(up[p + i].of)
    <3> HIDE DEF texts, h
    <3> QED BY <1>2, <2>2 DEF up
  <2> QED BY <2>1, <2>3
<1>6. ASSUME NEW i \in 1..h PROVE p + i \in 1..size /\ up[p + i] \in Here(R, o)
  <2>1. p + i \in 1..size /\ InOrder(Here(R, o), Listed)[i] = up[p + i]
    BY <1>1, <1>2, HereIs DEF Sorted
  <2>2. InOrder(Here(R, o), Listed)[i] \in Here(R, o)
    <3> HIDE DEF Here
    <3> QED BY <1>1, <1>4, ListedIs
  <2> QED BY <2>1, <2>2
<1>7. size \in Nat /\ p <= size /\ q <= size
  <2>1. size \in Nat
    BY <1>1, AscendingIs
  <2>2. p <= size
    BY <1>1, <1>2, EarlierIs
  <2>3. q <= size
    BY <1>1, <1>3, EarlierIs
  <2> QED BY <2>1, <2>2, <2>3
<1>8. /\ \A k \in 1..size :
             /\ w[k].out = w[k - 1].out \o SubSeq(content, w[k - 1].prev + 1, up[k].start)
                               \o <<Text(up[k].of)>>
             /\ w[k].prev = up[k].end
      /\ \A k \in 0..size : w[k].out \in Seq(Nat) /\ w[k].prev \in 0..Len(content)
  BY DoneIs
<1> HIDE DEF size, h, up, w, texts
<1>9. \A k \in 0..size : between(k) \in Seq(Nat)
  <2> TAKE k \in 0..size
  <2> DEFINE prev == w[k].prev
  <2>1. prev \in Nat /\ o \in Int
    BY <1>1, <1>8
  <2> HIDE DEF prev
  <2>2. SubSeq(content, prev + 1, o) \in Seq(Nat)
    BY <2>1, PartTyped
  <2> QED BY <2>2 DEF prev
<1>10. front \in Seq(Nat)
  <2>1. p \in 0..size
    BY <1>7
  <2>2. w[p].out \in Seq(Nat) /\ between(p) \in Seq(Nat)
    BY <1>8, <1>9, <2>1
  <2> HIDE DEF between
  <2> QED BY <2>2, ConcatProperties
<1>11. front = w[p].out \o between(p)
  OBVIOUS
<1> HIDE DEF front
<1>12. \A i \in 0..h : SubSeq(texts, 1, i) \in Seq(Nat)
  <2> TAKE i \in 0..h
  <2>1. i <= Len(texts) /\ i \in Int /\ 0 \in Nat /\ 0 + 1 = 1
    BY <1>4, <1>5
  <2> QED BY <1>5, <2>1, PartTyped
\* A region that starts at the offset goes on there, if another one follows.
<1>13. ASSUME NEW r \in Here(R, o) PROVE r \in R /\ r.start = o /\ r.end \in Nat /\ o <= r.end
  BY DEF Here, Fitting, Region
<1>14. ASSUME NEW i \in 1..h PROVE between(p + i) = <<>>
  <2>1. p + i \in 1..size /\ up[p + i] \in Here(R, o)
    BY <1>6
  <2>2. w[p + i].prev = up[p + i].end
    BY <1>8, <2>1
  <2>3. w[p + i].prev \in Nat /\ o <= w[p + i].prev
    BY <1>13, <2>1, <2>2
  <2> DEFINE prev == w[p + i].prev
  <2>4. prev + 1 \in Int /\ o \in Int /\ o < prev + 1
    <3>1. prev \in Nat /\ o <= prev
      BY <2>3
    <3> HIDE DEF prev
    <3> QED BY <3>1
  <2> HIDE DEF prev
  <2>5. SubSeq(content, prev + 1, o) = <<>>
    BY <2>4, SubSeqEmpty
  <2> QED BY <2>5 DEF prev
<1>15. 0 \in T
  BY <1>4
<1>16. ASSUME NEW i \in 0..(h - 1), i \in T PROVE i + 1 \in T
  <2> DEFINE k == p + (i + 1)
             t == texts[i + 1]
             some == SubSeq(texts, 1, i)
  <2>1. i + 1 \in 1..h /\ i \in 0..h /\ i + 1 \in 0..h
    BY <1>4
  <2>2. k \in 1..size /\ up[k] \in Here(R, o)
    BY <1>6, <2>1
  <2>3. k - 1 = p + i
    BY <1>4
  <2>4. t = Text(up[k].of) /\ t \in Nat
    <3>1. t \in Nat
      BY <1>5, <2>1, ElementOfSeq
    <3> QED BY <1>5, <2>1, <3>1
  <2>5. w[k].out = w[p + i].out \o between(p + i) \o <<t>>
    <3>1. up[k].start = o
      BY <1>13, <2>2
    <3> QED BY <1>8, <2>2, <2>3, <2>4, <3>1
  <2>6. SubSeq(texts, 1, i + 1) = some \o <<t>>
    <3>1. 1 \in 1..Len(texts) /\ i + 1 \in 1..Len(texts) /\ (i + 1) - 1 = i
      BY <1>4, <1>5, <2>1
    <3> QED BY <1>5, <3>1, SubSeqRecursiveSecond
  <2>7. some \in Seq(Nat) /\ <<t>> \in Seq(Nat)
    BY <1>12, <2>1, <2>4
  <2> HIDE DEF some, t, k, between
  <2>8. w[k].out = (front \o some) \o <<t>>
    <3>1. CASE i = 0
      <4>1. some = <<>>
        BY <3>1, SubSeqEmpty DEF some
      <4>2. front \o some = front
        BY <1>10, <4>1, ConcatEmptySeq
      <4>3. p + i = p
        BY <3>1
      <4>4. w[p + i].out \o between(p + i) = front
        BY <1>11, <4>3
      <4> QED BY <2>5, <4>2, <4>4
    <3>2. CASE i # 0
      <4>1. w[p + i].out = front \o some
        BY <1>16, <3>2 DEF some
      <4>2. between(p + i) = <<>>
        <5>1. i \in 1..h
          BY <2>1, <3>2
        <5> QED BY <1>14, <5>1 DEF between
      <4>3. front \o some \in Seq(Nat)
        BY <1>10, <2>7, ConcatProperties
      <4>4. w[p + i].out \o between(p + i) = front \o some
        BY <4>1, <4>2, <4>3, ConcatEmptySeq
      <4> QED BY <2>5, <4>4
    <3> QED BY <3>1, <3>2
  <2>9. (front \o some) \o <<t>> = front \o (some \o <<t>>)
    BY <1>10, <2>7, Associative
  <2>10. w[k].out = front \o SubSeq(texts, 1, i + 1)
    BY <2>6, <2>8, <2>9
  <2> QED BY <2>1, <2>10 DEF k
<1>17. h \in T
  <2> HIDE DEF T
  <2>1. \A i \in 0..h : i \in T
    BY <1>4, <1>15, <1>16, Upward
  <2> QED BY <1>4, <2>1
<1>18. CASE h = 0
  <2>1. texts = <<>>
    BY <1>5, <1>18, EmptySeq
  <2>2. front \o texts = front
    BY <1>10, <2>1, ConcatEmptySeq
  <2>3. q = p
    BY <1>4, <1>18
  <2>4. w[p].out \o between(p) \o texts = w[q].out \o between(q)
    <3> HIDE DEF between
    <3> QED BY <1>11, <2>2, <2>3
  <2> QED BY <2>4 DEF Reached, w, texts
<1>19. CASE h # 0
  <2>1. w[q].out = front \o SubSeq(texts, 1, h)
    BY <1>4, <1>17, <1>19
  <2>2. SubSeq(texts, 1, h) = texts
    BY <1>5, SubSeqFull
  <2>3. between(q) = <<>>
    <3>1. h \in 1..h
      BY <1>4, <1>19
    <3> QED BY <1>4, <1>14, <3>1
  <2>4. w[q].out = front \o texts /\ w[q].out \in Seq(Nat)
    <3>1. front \o texts \in Seq(Nat)
      BY <1>5, <1>10, ConcatProperties
    <3> QED BY <2>1, <2>2, <3>1
  <2>5. w[q].out \o between(q) = w[q].out
    <3> HIDE DEF between
    <3> QED BY <2>3, <2>4, ConcatEmptySeq
  <2>6. w[p].out \o between(p) \o texts = w[q].out \o between(q)
    <3> HIDE DEF between
    <3> QED BY <1>11, <2>4, <2>5
  <2> QED BY <2>6 DEF Reached, w, texts
<1> QED BY <1>18, <1>19

\* Of regions one behind the other the splice makes what they ask for.
LEMMA SpliceIsIntended ==
    ASSUME NEW content \in Seq(Nat), NEW R, Fitting(R, Len(content)), Stacked(R)
    PROVE  ApplyReplacements(content, R) = IntendedUpTo(content, R)[Len(content)]
<1> DEFINE n == Len(content)
           w == Done(content, R)
           want == IntendedUpTo(content, R)
           count(o) == Cardinality(Earlier(R, o))
           sofar(o) == w[count(o)].out \o SubSeq(content, w[count(o)].prev + 1, o - 1)
           T == {o \in 0..n : want[o] = sofar(o + 1)}
<1>1. n \in Nat
  BY LenProperties
<1>2. \A o \in Nat : count(o) \in Nat /\ count(o) \in 0..Cardinality(R)
  <2> TAKE o \in Nat
  <2>1. Cardinality(R) \in Nat
    BY <1>1, AscendingIs
  <2>2. count(o) \in Nat /\ count(o) <= Cardinality(R)
    BY <1>1, EarlierIs
  <2> QED BY <2>1, <2>2
<1>3. \A k \in 0..Cardinality(R) : w[k].out \in Seq(Nat) /\ w[k].prev \in 0..n
  BY DoneIs
<1>4. w[0].out = <<>> /\ w[0].prev = 0
  BY DoneIs
<1>5. /\ want[0] = TextsAt(R, 0)
      /\ \A o \in 1..n : want[o] = want[o - 1] \o ByteAt(content, R, o) \o TextsAt(R, o)
      /\ \A o \in 0..n : want[o] \in Seq(Nat)
  BY IntendedIs
<1>6. ASSUME NEW o \in 0..n
      PROVE  w[count(o)].out \o SubSeq(content, w[count(o)].prev + 1, o) \o TextsAt(R, o) = sofar(o + 1)
  <2>1. o \in Nat /\ o <= n /\ o + 1 \in Nat /\ (o + 1) - 1 = o
    BY <1>1
  <2>2. Reached(content, R, count(o), o) \o TextsAt(R, o) = Reached(content, R, count(o + 1), o)
    BY <2>1, TextStep
  <2> HIDE DEF w, count
  <2> QED BY <2>1, <2>2 DEF Reached, w
<1>7. ASSUME NEW o \in 1..n
      PROVE  SubSeq(content, w[count(o)].prev + 1, o - 1) \o ByteAt(content, R, o)
             = SubSeq(content, w[count(o)].prev + 1, o)
  <2>1. o \in Nat /\ o \in 1..Len(content)
    BY <1>1
  <2>2. count(o) \in Nat
    BY <1>2, <2>1
  <2>3. w[count(o)].prev \in Nat
    <3>1. count(o) \in 0..Cardinality(R)
      BY <1>2, <2>1
    <3> HIDE DEF w, count
    <3>2. w[count(o)].prev \in 0..n
      BY <1>3, <3>1
    <3> QED BY <1>1, <3>2
  <2> QED BY <2>1, <2>2, <2>3, ByteStep
<1>8. count(0) = 0 /\ count(n + 1) = Cardinality(R) /\ Earlier(R, n + 1) = R
  <2>1. Earlier(R, n + 1) = R /\ count(0) = 0
    BY <1>1, 0 \in Nat, EarlierIs
  <2> QED BY <2>1
<1> HIDE DEF n, w, want, count
<1>9. 0 \in T
  <2>1. w[0].out \o SubSeq(content, w[0].prev + 1, 0) = <<>>
    <3>1. SubSeq(content, w[0].prev + 1, 0) = <<>>
      BY <1>4, SubSeqEmpty
    <3>2. <<>> \in Seq(Nat)
      BY EmptySeq
    <3> QED BY <1>4, <3>1, <3>2, ConcatEmptySeq
  <2>2. TextsAt(R, 0) \in Seq(Nat)
    BY <1>1, <1>5
  <2>3. <<>> \o TextsAt(R, 0) = TextsAt(R, 0)
    BY <2>2, ConcatEmptySeq
  <2>4. w[count(0)].out \o SubSeq(content, w[count(0)].prev + 1, 0) \o TextsAt(R, 0) = sofar(0 + 1)
    BY <1>1, 0 \in 0..n, <1>6
  <2> HIDE DEF sofar
  <2>5. sofar(0 + 1) = want[0]
    BY <1>5, <1>8, <2>1, <2>3, <2>4
  <2> QED BY <1>1, <2>5
<1>10. ASSUME NEW m \in 0..(n - 1), m \in T PROVE m + 1 \in T
  <2> DEFINE o == m + 1
             a == w[count(o)].out
             b == SubSeq(content, w[count(o)].prev + 1, o - 1)
             c == ByteAt(content, R, o)
             d == TextsAt(R, o)
             e == SubSeq(content, w[count(o)].prev + 1, o)
  <2>1. o \in 1..n /\ o \in 0..n /\ o \in Nat /\ o - 1 = m /\ o <= n
    BY <1>1
  <2> HIDE DEF o
  <2>2. want[o] = (a \o b) \o c \o d
    <3>1. want[o - 1] = sofar(o)
      BY <1>10, <2>1 DEF o
    <3> QED BY <1>5, <2>1, <3>1
  <2>3. b \o c = e
    BY <1>7, <2>1
  <2>4. a \o e \o d = sofar(o + 1)
    BY <1>6, <2>1
  <2>5. a \in Seq(Nat) /\ b \in Seq(Nat) /\ c \in Seq(Nat)
    <3>1. count(o) \in 0..Cardinality(R)
      BY <1>2, <2>1
    <3>2. a \in Seq(Nat)
      BY <1>3, <3>1
    <3> DEFINE prev == w[count(o)].prev
    <3>3. prev \in Nat
      BY <1>1, <1>3, <3>1
    <3>4. o - 1 \in Int /\ o - 1 <= Len(content)
      BY <1>1, <2>1 DEF n
    <3> HIDE DEF prev
    <3>5. SubSeq(content, prev + 1, o - 1) \in Seq(Nat)
      BY <3>3, <3>4, PartTyped
    <3>6. c \in Seq(Nat)
      BY <2>1, ByteAtTyped DEF n
    <3> QED BY <3>2, <3>5, <3>6 DEF prev
  <2> HIDE DEF a, b, c, d, e, sofar
  <2>6. (a \o b) \o c = a \o e
    BY <2>3, <2>5, Associative
  <2>7. want[o] = sofar(o + 1)
    BY <2>2, <2>4, <2>6
  <2> QED BY <2>1, <2>7 DEF o
<1>11. n \in T
  <2> HIDE DEF T
  <2>1. \A o \in 0..n : o \in T
    BY <1>1, <1>9, <1>10, Upward
  <2> QED BY <1>1, <2>1
<1>12. want[n] = w[Cardinality(R)].out \o SubSeq(content, w[Cardinality(R)].prev + 1, n)
  <2>1. (n + 1) - 1 = n
    BY <1>1
  <2> QED BY <1>8, <1>11, <2>1
<1>13. SelectReplacements(R, n) = R
  BY <1>1, SelectsAll DEF n
<1> QED BY <1>12, <1>13 DEF ApplyReplacements, Done, Sorted, w, want, n

-----------------------------------------------------------------------------
(* What no region covers *)

\* An empty region is listed before one that starts with it and is not empty.
EmptyFirst(R) == \A a, b \in R : a.start = b.start /\ a.end = a.start /\ b.end # b.start => Listed(a, b)

\* The regions that are kept stand one behind the other, whatever was skipped.
LEMMA KeptIsStacked ==
    ASSUME NEW n \in Nat, NEW R, Fitting(R, n), EmptyFirst(R)
    PROVE  Stacked(SelectReplacements(R, n))
<1> DEFINE down == InOrder(R, Descending)
           size == Cardinality(R)
           w == Selected(down, n)
           listed(k) == {down[j] : j \in 1..k}
           good(k) == /\ w[k].kept \subseteq listed(k)
                      /\ \A a \in w[k].kept : w[k].limit <= a.start
                      /\ Stacked(w[k].kept)
           T == {k \in 0..size : good(k)}
<1>1. /\ size \in Nat /\ down \in [1..size -> R]
      /\ \A k, m \in 1..size : k < m => Descending(down[k], down[m])
  BY DescendingIs
<1>2. \A r \in R : r.of \in Nat /\ r.start \in Nat /\ r.end \in Nat /\ r.start <= r.end
  BY DEF Fitting, Region
<1>3. /\ w[0] = [kept |-> {}, limit |-> n + 1]
      /\ \A k \in 1..size : w[k] = Take(w[k - 1], down[k])
      /\ \A k \in 0..size : w[k] \in [kept : SUBSET R, limit : Int]
  <2>1. \A r \in R : r.start \in Nat
    BY <1>2
  <2>2. size \in Nat /\ down \in [1..size -> R]
    BY <1>1
  <2> HIDE DEF down, size, w
  <2>3. /\ Selected(down, n)[0] = [kept |-> {}, limit |-> n + 1]
        /\ \A k \in 1..size : Selected(down, n)[k] = Take(Selected(down, n)[k - 1], down[k])
        /\ \A k \in 0..size : Selected(down, n)[k] \in [kept : SUBSET R, limit : Int]
    BY <2>1, <2>2, SelectedIs
  <2> QED BY <2>3 DEF w
<1> HIDE DEF down, size, w
<1>4. 0 \in T
  BY <1>1, <1>3 DEF Stacked
<1>5. ASSUME NEW k \in 0..(size - 1), k \in T PROVE k + 1 \in T
  <2> DEFINE r == down[k + 1]
             before == w[k].kept
             limit == w[k].limit
  <2>1. /\ k + 1 \in 1..size /\ (k + 1) - 1 = k /\ k \in 0..size /\ k + 1 \in 0..size
        /\ \A j \in 1..k : j \in 1..(k + 1) /\ j \in 1..size /\ j < k + 1
        /\ k + 1 \in 1..(k + 1)
    BY <1>1, <1>5
  <2>2. w[k + 1] = Take(w[k], r) /\ r \in R /\ before \subseteq R /\ limit \in Int
    BY <1>1, <1>3, <2>1
  <2>3. listed(k) \subseteq listed(k + 1) /\ r \in listed(k + 1)
    BY <2>1
  <2>4. before \subseteq listed(k) /\ (\A a \in before : limit <= a.start) /\ Stacked(before)
    BY <1>5
  <2>5. \A a \in before : Descending(a, r)
    <3> TAKE a \in before
    <3>1. PICK j \in 1..k : a = down[j]
      BY <2>4
    <3> QED BY <1>1, <2>1, <3>1
  <2> HIDE DEF r, before, limit, listed
  <2>6. CASE r.end > limit
    <3>1. w[k + 1] = w[k]
      BY <2>2, <2>6 DEF Take, limit
    <3>2. w[k + 1].kept = before /\ w[k + 1].limit = limit
      BY <3>1 DEF before, limit
    <3>3. good(k + 1)
      BY <2>3, <2>4, <3>2
    <3> QED BY <2>1, <3>3
  <2>7. CASE ~(r.end > limit)
    <3>1. w[k + 1].kept = before \cup {r} /\ w[k + 1].limit = r.start
      BY <2>2, <2>7 DEF Take, before, limit
    <3>2. r.start \in Nat /\ r.end \in Nat /\ r.start <= r.end /\ r.end <= limit
      BY <1>2, <2>2, <2>7
    <3>3. \A a \in before : /\ a \in R /\ a.start \in Nat /\ a.end \in Nat /\ a.start <= a.end
                            /\ r.end <= a.start /\ r.start <= a.start
      BY <1>2, <2>2, <2>4, <3>2
    <3>4. ASSUME NEW a \in before, a.start <= r.start PROVE a.end <= r.start
      <4>1. a.start = r.start /\ r.end = r.start
        BY <3>2, <3>3, <3>4
      <4>2. Listed(a, r)
        BY <2>5, <4>1, <3>2 DEF Descending
      <4>3. ~Listed(r, a)
        BY <1>2, <2>2, <3>3, <4>2 DEF Listed
      <4>4. ~(r.start = a.start /\ r.end = r.start /\ a.end # a.start)
        BY <2>2, <3>3, <4>3 DEF EmptyFirst
      <4> QED BY <3>2, <4>1, <4>4
    <3>5. Stacked(before \cup {r})
      BY <2>4, <3>2, <3>3, <3>4 DEF Stacked
    <3>6. \A a \in before \cup {r} : r.start <= a.start
      BY <3>2, <3>3
    <3>7. good(k + 1)
      BY <2>3, <2>4, <3>1, <3>5, <3>6
    <3> QED BY <2>1, <3>7
  <2> QED BY <2>6, <2>7
<1>6. size \in T
  <2> HIDE DEF T
  <2>1. \A k \in 0..size : k \in T
    BY <1>1, <1>4, <1>5, Upward
  <2> QED BY <1>1, <2>1
<1> QED BY <1>6 DEF SelectReplacements, w, down, size

\* So the splice is the byte-by-byte reading of the regions that are kept.
LEMMA SpliceOfKept ==
    ASSUME NEW content \in Seq(Nat), NEW R, Fitting(R, Len(content)), EmptyFirst(R)
    PROVE  \E K : /\ K \subseteq R /\ Fitting(K, Len(content))
                  /\ ApplyReplacements(content, R) = IntendedUpTo(content, K)[Len(content)]
<1> DEFINE n == Len(content)
           K == SelectReplacements(R, n)
<1>1. n \in Nat
  BY LenProperties
<1>2. K \subseteq R /\ Stacked(K)
  BY <1>1, SelectedAmong, KeptIsStacked
<1>3. Fitting(K, n)
  BY <1>1, <1>2, FittingPart
<1>4. SelectReplacements(K, n) = K
  BY <1>1, <1>2, <1>3, SelectsAll
<1>5. ApplyReplacements(content, R) = ApplyReplacements(content, K)
  BY <1>4 DEF ApplyReplacements
<1>6. ApplyReplacements(content, K) = IntendedUpTo(content, K)[n]
  BY <1>2, <1>3, SpliceIsIntended
<1> QED BY <1>2, <1>3, <1>5, <1>6

LEMMA ThoseOfTwo == \A S : \A a, b \in Seq(Nat) : Those(a \o b, S) = Those(a, S) \o Those(b, S)
  BY ThoseConcat

\* The intended content has the bytes that no region covers, and of them no other copy.
LEMMA RestIsKept ==
    ASSUME NEW content \in Seq(Nat), NEW K, Fitting(K, Len(content)), NEW S,
           \A b \in 1..Len(content), r \in K : r.start < b /\ b <= r.end => content[b] \notin S,
           \A r \in K : Text(r.of) \notin S
    PROVE  Those(IntendedUpTo(content, K)[Len(content)], S) = Those(content, S)
<1> DEFINE n == Len(content)
           want == IntendedUpTo(content, K)
           upTo(o) == SubSeq(content, 1, o)
           T == {o \in 0..n : Those(want[o], S) = Those(upTo(o), S)}
<1>1. n \in Nat
  BY LenProperties
<1>2. /\ want[0] = TextsAt(K, 0)
      /\ \A o \in 1..n : want[o] = want[o - 1] \o ByteAt(content, K, o) \o TextsAt(K, o)
      /\ \A o \in 0..n : want[o] \in Seq(Nat)
  BY IntendedIs
<1>3. ASSUME NEW o \in 0..n PROVE TextsAt(K, o) \in Seq(Nat) /\ Those(TextsAt(K, o), S) = <<>>
  <2> DEFINE texts == TextsAt(K, o)
             here == InOrder(Here(K, o), Listed)
  <2>1. o \in Nat /\ Fitting(Here(K, o), n)
    BY <1>1, EarlierIs
  <2>2. texts \in Seq(Nat)
    BY <1>1, <2>1, TextsAtIs
  <2>3. texts = [i \in DOMAIN here |-> Text(here[i].of)]
    BY DEF TextsAt, Here
  <2>4. here \in [1..Cardinality(Here(K, o)) -> Here(K, o)]
    BY <1>1, <2>1, ListedIs
  <2>5. \A i \in DOMAIN texts : texts[i] \notin S
    <3> HIDE DEF here
    <3>1. \A i \in DOMAIN here : here[i] \in K
      BY <2>4 DEF Here
    <3> QED BY <2>3, <3>1
  <2> HIDE DEF texts
  <2>6. \A i \in 1..Len(texts) : texts[i] \notin S
    BY <2>2, <2>5, LenProperties
  <2>7. Those(texts, S) = <<>>
    BY <2>2, <2>6, ThoseNone
  <2> QED BY <2>2, <2>7 DEF texts
<1> HIDE DEF want
<1>4. 0 \in T
  <2>1. upTo(0) = <<>>
    BY SubSeqEmpty
  <2>2. Those(want[0], S) = <<>>
    BY <1>1, <1>2, <1>3
  <2>3. Those(<<>>, S) = <<>>
    BY 0 \in Nat, ThoseFew
  <2> HIDE DEF upTo
  <2>4. 0 \in 0..n /\ Those(want[0], S) = Those(upTo(0), S)
    BY <1>1, <2>1, <2>2, <2>3
  <2> QED BY <2>4
<1>5. ASSUME NEW m \in 0..(n - 1), m \in T PROVE m + 1 \in T
  <2> DEFINE o == m + 1
             byte == ByteAt(content, K, o)
             texts == TextsAt(K, o)
             one == <<content[o]>>
  <2>1. o \in 1..n /\ o \in 0..n /\ o - 1 = m /\ m \in 0..n /\ 1 \in 1..n
    BY <1>1
  <2>2. content[o] \in Nat
    BY <2>1, ElementOfSeq
  <2>3. want[o] = want[m] \o byte \o texts
    BY <1>2, <2>1
  <2>4. want[m] \in Seq(Nat) /\ byte \in Seq(Nat) /\ texts \in Seq(Nat) /\ one \in Seq(Nat)
    <3>1. o \in 1..Len(content)
      BY <2>1
    <3>2. byte \in Seq(Nat)
      BY <3>1, ByteAtTyped
    <3>3. want[m] \in Seq(Nat) /\ texts \in Seq(Nat)
      BY <1>2, <1>3, <2>1
    <3> QED BY <2>2, <3>2, <3>3
  <2>5. Those(byte, S) = Those(one, S)
    <3>1. Those(<<>>, S) = <<>> /\ Those(one, S) = IF content[o] \in S THEN one ELSE <<>>
      BY <2>2, ThoseFew
    <3>2. CASE \E r \in K : r.start < o /\ o <= r.end
      <4>1. byte = <<>> /\ content[o] \notin S
        BY <2>1, <3>2 DEF ByteAt
      <4> QED BY <3>1, <4>1
    <3>3. CASE ~\E r \in K : r.start < o /\ o <= r.end
      BY <3>3 DEF ByteAt
    <3> QED BY <3>2, <3>3
  <2>6. Those(texts, S) = <<>>
    BY <1>3, <2>1
  <2>7. upTo(o) = upTo(m) \o one /\ upTo(m) \in Seq(Nat)
    <3>1. upTo(o) = upTo(o - 1) \o one
      BY <2>1, SubSeqRecursiveSecond
    <3>2. upTo(m) \in Seq(Nat)
      BY <1>1, <2>1, 0 \in Nat, PartTyped
    <3> QED BY <2>1, <3>1, <3>2
  <2> HIDE DEF byte, texts, one, upTo, o
  <2>8. Those(want[o], S) = Those(want[m], S) \o Those(byte, S) \o Those(texts, S)
    <3>1. want[m] \o byte \in Seq(Nat)
      BY <2>4, ConcatProperties
    <3>2. Those(want[o], S) = Those(want[m] \o byte, S) \o Those(texts, S)
      BY <2>3, <2>4, <3>1, ThoseOfTwo
    <3>3. Those(want[m] \o byte, S) = Those(want[m], S) \o Those(byte, S)
      BY <2>4, ThoseOfTwo
    <3> QED BY <3>2, <3>3
  <2>9. Those(upTo(o), S) = Those(upTo(m), S) \o Those(one, S)
    BY <2>4, <2>7, ThoseOfTwo
  <2>10. Those(want[o], S) = Those(upTo(o), S) \o <<>>
    BY <1>5, <2>5, <2>6, <2>8, <2>9
  <2>11. Those(upTo(o), S) \o <<>> = Those(upTo(o), S)
    <3>1. upTo(o) \in Seq(Nat)
      BY <2>4, <2>7, ConcatProperties
    <3>2. Those(upTo(o), S) \in Seq(Nat)
      BY <3>1, ThoseTyped
    <3> QED BY <3>2, ConcatEmptySeq
  <2>12. o \in T
    BY <2>1, <2>10, <2>11 DEF upTo
  <2> QED BY <2>12 DEF o
<1>6. n \in T
  <2> HIDE DEF T
  <2>1. \A o \in 0..n : o \in T
    BY <1>1, <1>4, <1>5, Upward
  <2> QED BY <1>1, <2>1
<1>7. upTo(n) = content
  BY SubSeqFull
<1> QED BY <1>6, <1>7 DEF want

-----------------------------------------------------------------------------
(* What matching yields *)

\* The results for a content of n bytes: an insert replaces nothing, an edit replaces
\* bytes of the content.
FittingResults(n) ==
    {r \in Outcomes : (r.insert <=> r.len = 0) /\ \A o \in r.at : o + r.len <= n}

LEMMA FittingIsResult == \A n : FittingResults(n) \subseteq Result
  BY SizeAssumption DEF FittingResults, Outcomes, Result

LEMMA LineOffsetType ==
    ASSUME NEW content, NEW n \in Nat, n = Len(content), NEW line \in Nat
    PROVE  LineOffset(content, line) \in 0..n
<1> DEFINE before == {b \in 1..n : LineOf(b) < line}
<1>1. IsFiniteSet(1..n) /\ Cardinality(1..n) = n
  <2>1. IsFiniteSet(1..n) /\ Cardinality(1..n) = IF 1 > n THEN 0 ELSE n - 1 + 1
    BY 1 \in Int, n \in Int, FS_Interval
  <2> QED BY <2>1
<1>2. before \in SUBSET (1..n)
  OBVIOUS
<1>3. LineOffset(content, line) = Cardinality(before)
  BY DEF LineOffset
<1> HIDE DEF before
<1>4. IsFiniteSet(before) /\ Cardinality(before) <= n
  BY <1>1, <1>2, FS_Subset
<1>5. Cardinality(before) \in Nat
  BY <1>4, FS_CardinalityType
<1>6. Cardinality(before) \in 0..n
  BY <1>4, <1>5
<1> QED BY <1>3, <1>6

\* Matching yields a sequence of results, whatever the content that was read.
LEMMA ComputeResultsType ==
    ASSUME NEW content, NEW n \in Nat, n = Len(content), n <= Size, NEW c \in Call
    PROVE  ComputeResults(content, c) \in Seq(FittingResults(n))
<1> DEFINE fromInserts == [i \in DOMAIN c.inserts |-> ApplyInsert(content, c.inserts[i])]
           fromEdits == [i \in DOMAIN c.edits |-> FindAndReplace(content, c.edits[i])]
<1>1. c.inserts \in Seq(Nat) /\ c.edits \in Seq(Edit)
  BY EditsAssumption, InsertsAssumption DEF Call
<1>2. ASSUME NEW line \in Nat PROVE ApplyInsert(content, line) \in FittingResults(n)
  <2>1. LineOffset(content, line) \in 0..n
    BY LineOffsetType
  <2> QED BY <2>1, SizeAssumption DEF ApplyInsert, FittingResults, Outcomes
<1>3. ASSUME NEW e \in Edit PROVE FindAndReplace(content, e) \in FittingResults(n)
  <2> DEFINE at == {o \in e.at : o + e.len <= n}
             ok == Cardinality(at) = 1 \/ (at # {} /\ e.all /\ e.exact)
  <2>1. FindAndReplace(content, e) = [ok |-> ok, insert |-> FALSE, at |-> at, len |-> e.len]
    BY DEF FindAndReplace
  <2>2. at \in SUBSET (0..Size) /\ e.len \in 0..Size /\ e.len # 0 /\ \A o \in at : o + e.len <= n
    BY SizeAssumption DEF Edit, Bytes
  <2>3. ok \in BOOLEAN
    OBVIOUS
  <2> HIDE DEF at, ok
  <2> QED BY <2>1, <2>2, <2>3 DEF FittingResults, Outcomes
<1>4. fromInserts \in Seq(FittingResults(n))
  <2> DEFINE lines == c.inserts
             L == Len(lines)
  <2>1. L \in Nat /\ DOMAIN lines = 1..L /\ \A i \in 1..L : lines[i] \in Nat
    BY <1>1, LenProperties, ElementOfSeq
  <2> HIDE DEF L, lines
  <2>2. \A i \in 1..L : ApplyInsert(content, lines[i]) \in FittingResults(n)
    BY <1>2, <2>1
  <2>3. [i \in 1..L |-> ApplyInsert(content, lines[i])] \in [1..L -> FittingResults(n)]
    BY <2>2
  <2> QED BY <2>1, <2>3, SeqDef DEF lines
<1>5. fromEdits \in Seq(FittingResults(n))
  <2>1. \A i \in DOMAIN c.edits : FindAndReplace(content, c.edits[i]) \in FittingResults(n)
    BY <1>1, <1>3
  <2> QED BY <1>1, <2>1
<1> QED BY <1>4, <1>5 DEF ComputeResults

\* Overlap detection changes nothing but whether a result succeeded.
LEMMA DetectOverlapsType ==
    ASSUME NEW n \in Nat, NEW rs \in Seq(FittingResults(n))
    PROVE  DetectOverlaps(rs) \in Seq(FittingResults(n))
<1> DEFINE lost == {r.of : r \in {r \in Regions(rs) : \E b \in Regions(rs) : Loses(r, b)}}
           ds == [k \in DOMAIN rs |-> [rs[k] EXCEPT !.ok = @ /\ k \notin lost]]
<1>1. ds = DetectOverlaps(rs)
  BY DEF DetectOverlaps
<1> HIDE DEF lost
<1>2. ASSUME NEW k \in DOMAIN rs PROVE ds[k] \in FittingResults(n)
  <2>1. rs[k] \in FittingResults(n)
    OBVIOUS
  <2> QED BY <2>1 DEF FittingResults, Outcomes
<1> HIDE DEF ds
<1>3. Len(rs) \in Nat /\ DOMAIN rs = 1..Len(rs)
  BY LenProperties
<1>4. ds \in [1..Len(rs) -> FittingResults(n)]
  BY <1>2, <1>3 DEF ds
<1>5. ds \in Seq(FittingResults(n))
  BY <1>3, <1>4, SeqDef
<1> QED BY <1>1, <1>5

LEMMA RegionsFit ==
    ASSUME NEW n \in Nat, NEW rs \in Seq(FittingResults(n))
    PROVE  Fitting(Regions(rs), n)
<1> DEFINE R == Regions(rs)
           place == [a \in R |-> <<a.of, a.start>>]
<1>1. rs \in Seq(Result) /\ Len(rs) \in Nat /\ DOMAIN rs = 1..Len(rs)
  BY FittingIsResult, SeqMonotonic, LenProperties
<1>2. ASSUME NEW a \in R
      PROVE  /\ a.of \in 1..Len(rs) /\ a.start \in 0..Size
             /\ a = [of |-> a.of, start |-> a.start, end |-> a.start + rs[a.of].len]
             /\ a.end \in Nat /\ a.start <= a.end /\ a.end <= n
  <2>1. /\ a.of \in DOMAIN rs /\ a.start \in rs[a.of].at
        /\ a = [of |-> a.of, start |-> a.start, end |-> a.start + rs[a.of].len]
    BY <1>1, RegionsType
  <2>2. rs[a.of] \in FittingResults(n)
    BY <2>1
  <2>3. a.start \in 0..Size /\ rs[a.of].len \in 0..Size /\ a.start + rs[a.of].len <= n
    BY <2>1, <2>2 DEF FittingResults, Outcomes
  <2>4. a.end = a.start + rs[a.of].len
    BY <2>1
  <2>5. a.end \in Nat /\ a.start <= a.end /\ a.end <= n
    BY <2>3, <2>4, SizeAssumption
  <2> QED BY <1>1, <2>1, <2>3, <2>5
<1> HIDE DEF R
<1>3. \A a, b \in R : a.of = b.of /\ a.start = b.start => a = b
  <2> TAKE a, b \in R
  <2>1. /\ a = [of |-> a.of, start |-> a.start, end |-> a.start + rs[a.of].len]
        /\ b = [of |-> b.of, start |-> b.start, end |-> b.start + rs[b.of].len]
    BY <1>2
  <2> QED BY <2>1
<1>4. R \subseteq Region
  <2> SUFFICES ASSUME NEW a \in R PROVE a \in Region
    OBVIOUS
  <2>1. /\ a = [of |-> a.of, start |-> a.start, end |-> a.start + rs[a.of].len]
        /\ a.of \in Nat /\ a.start \in Nat /\ a.end \in Nat
    BY <1>1, <1>2, SizeAssumption
  <2> QED BY <2>1 DEF Region
<1>5. IsFiniteSet(R)
  <2> DEFINE places == (1..Len(rs)) \X (0..Size)
  <2>1. IsFiniteSet(places)
    <3>1. IsFiniteSet(1..Len(rs)) /\ IsFiniteSet(0..Size)
      <4>1. Size \in Int /\ Len(rs) \in Int
        BY <1>1, SizeAssumption
      <4> QED BY 0 \in Int, 1 \in Int, <4>1, FS_Interval
    <3> QED BY <3>1, FS_Product
  <2>2. place \in [R -> places]
    BY <1>2
  <2>3. \A a, b \in R : place[a] = place[b] => a = b
    BY <1>3
  <2> HIDE DEF place, places
  <2>4. place \in Injection(R, places)
    BY <2>2, <2>3 DEF Injection, IsInjective
  <2> QED BY <2>1, <2>4, FS_Injection
<1> QED BY <1>2, <1>3, <1>4, <1>5 DEF Fitting, R

\* Regions that do not overlap stand one behind the other when no insert lands where
\* an edit begins.
LEMMA ApartIsStacked ==
    ASSUME NEW n \in Nat, NEW rs \in Seq(FittingResults(n)), Apart(rs), ~BoundaryInsert(rs)
    PROVE  Stacked(Regions(rs))
<1> SUFFICES ASSUME NEW a \in Regions(rs), NEW b \in Regions(rs), a # b, a.start <= b.start,
                    ~(a.end <= b.start)
             PROVE  FALSE
  BY DEF Stacked
<1>1. rs \in Seq(Result)
  BY FittingIsResult, SeqMonotonic
<1>2. ASSUME NEW r \in Regions(rs)
      PROVE  /\ r.start \in Nat /\ r.end \in Nat /\ r.start <= r.end
             /\ rs[r.of].insert <=> r.start = r.end
  <2>1. /\ r.of \in DOMAIN rs /\ r.start \in rs[r.of].at
        /\ r = [of |-> r.of, start |-> r.start, end |-> r.start + rs[r.of].len]
    BY <1>1, RegionsType
  <2>2. rs[r.of] \in FittingResults(n)
    BY <2>1
  <2>3. r.start \in Nat /\ rs[r.of].len \in Nat /\ (rs[r.of].insert <=> rs[r.of].len = 0)
    BY <2>1, <2>2, SizeAssumption DEF FittingResults, Outcomes
  <2>4. r.end = r.start + rs[r.of].len
    BY <2>1
  <2> QED BY <2>3, <2>4
<1>3. ~RangesOverlap(a, b)
  BY DEF Apart
<1>4. a.start = b.start /\ b.start = b.end /\ a.start # a.end
  BY <1>2, <1>3 DEF RangesOverlap
<1>5. rs[b.of].insert /\ ~rs[a.of].insert
  BY <1>2, <1>4
<1> QED BY <1>4, <1>5 DEF BoundaryInsert

-----------------------------------------------------------------------------
(* The call *)

Whole == {AsFound, AsSaved, NoFile}

\* The content to write is the splice of what was read, from matching on.
SplicedInv == pc \notin {"read", "match"} /\ results # <<>> =>
    current = ApplyReplacements(original, Regions(results))

\* Matching always sees a whole version of the file.
ReadInv == /\ pc = "read" => file \in Whole
           /\ pc \in {"read", "match"} => results = <<>>
           /\ original \in {AsFound, AsSaved, <<>>}

\* The results are those of the content that was read, after overlap detection.
DetectedInv == results = <<>> \/ results = DetectOverlaps(ComputeResults(original, call))

\* A handler past its decision has something to write, and was not told otherwise.
AllowedInv == /\ pc \notin {"done", "crashed"} => reply = "none"
              /\ pc \in {"fillTmp", "rename", "fill"} =>
                     ~call.dryRun /\ ~Blocked(call, results)

\* The temporary file is complete when it is renamed, and only a failed rename
\* leads to a write to the file itself.
FileInv == /\ pc = "rename" => tmp = current
           /\ pc = "fill" => fallback
           /\ FileWhole

CallInv == call \in Call /\ SplicedInv /\ ReadInv /\ DetectedInv /\ AllowedInv /\ FileInv

\* Every version of the file that a call reads fits the size.
LEMMA OriginalType ==
    ASSUME NEW content \in {AsFound, AsSaved, <<>>}
    PROVE  content \in Seq(Nat) /\ Len(content) \in Nat /\ Len(content) <= Size
<1>1. AsFound \in Seq(Nat) /\ Len(AsFound) = Size
  <2>1. AsFound \in [1..Size -> Nat] /\ Size \in Nat
    BY SizeAssumption DEF AsFound, Bytes
  <2>2. AsFound \in Seq(Nat)
    BY <2>1, SeqDef
  <2>3. DOMAIN AsFound = 1..Size
    BY <2>1
  <2> QED BY <2>1, <2>2, <2>3, LenProperties
<1>2. AsSaved \in Seq(Nat) /\ Len(AsSaved) = 1
  BY DEF AsSaved
<1>3. <<>> \in Seq(Nat) /\ Len(<<>>) = 0
  BY EmptySeq
<1>4. Size \in Nat /\ Size >= 1
  BY SizeAssumption
<1>5. CASE content = AsFound
  BY <1>1, <1>4, <1>5
<1>6. CASE content = AsSaved
  <2>1. 1 <= Size /\ 1 \in Nat
    BY <1>4
  <2> QED BY <1>2, <1>6, <2>1
<1>7. CASE content = <<>>
  BY <1>3, <1>4, <1>7
<1> QED BY <1>5, <1>6, <1>7

\* The results fit what was read, and their regions do not overlap.
LEMMA ResultsFit ==
    ASSUME NEW content \in {AsFound, AsSaved, <<>>}, NEW c \in Call, NEW rs,
           rs = DetectOverlaps(ComputeResults(content, c))
    PROVE  rs \in Seq(FittingResults(Len(content))) /\ Apart(rs)
<1>1. Len(content) \in Nat /\ Len(content) <= Size
  BY OriginalType
<1>2. ComputeResults(content, c) \in Seq(FittingResults(Len(content)))
  BY <1>1, ComputeResultsType
<1>3. rs \in Seq(FittingResults(Len(content)))
  BY <1>1, <1>2, DetectOverlapsType
<1>4. ComputeResults(content, c) \in Seq(Result)
  BY <1>2, FittingIsResult, SeqMonotonic
<1> QED BY <1>3, <1>4, OverlapsRejected

\* A byte is once in every version that a call reads.
LEMMA OneOfEach ==
    ASSUME NEW content \in {AsFound, AsSaved, <<>>}, NEW b \in DOMAIN content, NEW d \in DOMAIN content
    PROVE  /\ content[b] = content[d] => b = d
           /\ content[b] \in Nat /\ content[b] <= Size
<1> QED BY SizeAssumption DEF AsFound, AsSaved, Bytes

\* The members of two sequences, one behind the other.
LEMMA ConcatAt ==
    ASSUME NEW D, NEW m \in Nat, NEW n \in Nat, NEW a \in [1..m -> D], NEW b \in [1..n -> D]
    PROVE  /\ DOMAIN (a \o b) = 1..(m + n)
           /\ \A k \in 1..(m + n) : (a \o b)[k] = IF k <= m THEN a[k] ELSE b[k - m]
<1>1. a \in Seq(D) /\ b \in Seq(D)
  BY SeqDef
<1>2. Len(a) = m /\ Len(b) = n
  BY <1>1, LenProperties
<1>3. a \o b \in Seq(D) /\ Len(a \o b) = m + n
  BY <1>1, <1>2, ConcatProperties
<1> QED BY <1>1, <1>2, <1>3, ConcatProperties, LenProperties

\* Inserts come before edits, so a region that is empty is listed before one that is not.
LEMMA InsertsAreFirst ==
    ASSUME NEW content \in {AsFound, AsSaved, <<>>}, NEW c \in Call, NEW rs,
           rs = DetectOverlaps(ComputeResults(content, c))
    PROVE  EmptyFirst(Regions(rs))
<1> DEFINE cs == ComputeResults(content, c)
           fromInserts == [i \in DOMAIN c.inserts |-> ApplyInsert(content, c.inserts[i])]
           fromEdits == [i \in DOMAIN c.edits |-> FindAndReplace(content, c.edits[i])]
           n == Len(content)
           L == Len(c.inserts)
<1>1. rs \in Seq(FittingResults(n)) /\ cs \in Seq(FittingResults(n)) /\ n \in Nat
  <2>1. n \in Nat /\ n <= Size
    BY OriginalType
  <2> QED BY <2>1, ResultsFit, ComputeResultsType
<1>2. c.inserts \in Seq(Nat) /\ c.edits \in Seq(Edit)
  BY EditsAssumption, InsertsAssumption DEF Call
<1>3. L \in Nat /\ \A k \in DOMAIN cs : cs[k].insert <=> k <= L
  <2> DEFINE M == Len(c.edits)
             A == [i \in 1..L |-> ApplyInsert(content, c.inserts[i])]
             B == [i \in 1..M |-> FindAndReplace(content, c.edits[i])]
             D == {A[i] : i \in 1..L} \cup {B[i] : i \in 1..M}
  <2>1. L \in Nat /\ DOMAIN c.inserts = 1..L /\ M \in Nat /\ DOMAIN c.edits = 1..M
    BY <1>2, LenProperties
  <2> HIDE DEF L, M
  <2>2. cs = A \o B
    BY <2>1 DEF ComputeResults
  <2>3. (\A i \in 1..L : A[i].insert) /\ \A i \in 1..M : ~B[i].insert
    BY DEF ApplyInsert, FindAndReplace
  <2>4. A \in [1..L -> D] /\ B \in [1..M -> D]
    OBVIOUS
  <2> HIDE DEF A, B, D, cs
  <2>5. /\ DOMAIN (A \o B) = 1..(L + M)
        /\ \A k \in 1..(L + M) : (A \o B)[k] = IF k <= L THEN A[k] ELSE B[k - L]
    BY <2>1, <2>4, ConcatAt
  <2>6. ASSUME NEW k \in 1..(L + M) PROVE (A \o B)[k].insert <=> k <= L
    <3>1. CASE k <= L
      BY <2>1, <2>3, <2>5, <3>1
    <3>2. CASE ~(k <= L)
      <4>1. k - L \in 1..M
        BY <2>1, <3>2
      <4> QED BY <2>3, <2>5, <3>2, <4>1
    <3> QED BY <3>1, <3>2
  <2> QED BY <2>1, <2>2, <2>5, <2>6
<1> HIDE DEF cs, L
<1>4. DOMAIN rs = DOMAIN cs /\ \A k \in DOMAIN cs : rs[k].insert = cs[k].insert
  <2>1. \A k \in DOMAIN cs : cs[k] \in FittingResults(n)
    BY <1>1
  <2>2. \A k \in DOMAIN cs : cs[k] \in Outcomes
    BY <2>1 DEF FittingResults
  <2> DEFINE lost == {a.of : a \in {a \in Regions(cs) : \E b \in Regions(cs) : Loses(a, b)}}
  <2>3. rs = [k \in DOMAIN cs |-> [cs[k] EXCEPT !.ok = @ /\ k \notin lost]]
    BY DEF DetectOverlaps, cs
  <2> HIDE DEF lost
  <2> QED BY <2>2, <2>3 DEF Outcomes
<1>5. rs \in Seq(Result)
  BY <1>1, FittingIsResult, SeqMonotonic
<1> SUFFICES ASSUME NEW a \in Regions(rs), NEW b \in Regions(rs),
                    a.end = a.start, b.end # b.start
             PROVE  a.of < b.of
  BY DEF EmptyFirst, Listed
<1>6. ASSUME NEW r \in Regions(rs)
      PROVE  r.of \in DOMAIN cs /\ r.of \in Nat /\ (r.of <= L <=> r.end = r.start)
  <2>1. /\ r.of \in DOMAIN rs /\ r.start \in rs[r.of].at
        /\ r = [of |-> r.of, start |-> r.start, end |-> r.start + rs[r.of].len]
    BY <1>5, RegionsType
  <2>2. rs[r.of] \in FittingResults(n)
    BY <1>1, <2>1
  <2>3. r.start \in Nat /\ rs[r.of].len \in Nat /\ (rs[r.of].insert <=> rs[r.of].len = 0)
    BY <2>1, <2>2, SizeAssumption DEF FittingResults, Outcomes
  <2>4. r.end = r.start + rs[r.of].len
    BY <2>1
  <2>5. r.of \in Nat
    BY <1>1, <2>1, LenProperties
  <2> QED BY <1>3, <1>4, <2>1, <2>3, <2>4, <2>5
<1>7. (a.of <= L) /\ ~(b.of <= L) /\ a.of \in Nat /\ b.of \in Nat
  BY <1>6
<1> QED BY <1>3, <1>7

LEMMA CallInit == Init => CallInv
<1> SUFFICES ASSUME Init PROVE CallInv
  OBVIOUS
<1> QED BY DEF Init, CallInv, SplicedInv, ReadInv, DetectedInv, AllowedInv, FileInv, FileWhole,
               Whole

LEMMA CallStep == CallInv /\ [Next]_vars => CallInv'
<1> SUFFICES ASSUME CallInv, [Next]_vars PROVE CallInv'
  OBVIOUS
<1> USE DEF CallInv
<1>1. CASE Read
  BY <1>1 DEF Read, SplicedInv, ReadInv, DetectedInv, AllowedInv, FileInv, FileWhole, Whole, Matched
<1>2. CASE Match
  <2>1. SplicedInv' /\ ReadInv' /\ DetectedInv' /\ AllowedInv'
    BY <1>2 DEF Match, SplicedInv, ReadInv, DetectedInv, AllowedInv
  <2>2. FileInv'
    BY <1>2 DEF Match, FileInv, FileWhole, Matched, Whole, ReadInv
  <2> QED BY <1>2, <2>1, <2>2 DEF Match
<1>3. CASE pc' \in {"done", "crashed"} /\ UNCHANGED <<file, tmp, call, original, results, current, fallback>>
           /\ (pc \in {"read", "match"} => results = <<>>)
  BY <1>3 DEF SplicedInv, ReadInv, DetectedInv, AllowedInv, FileInv, FileWhole, Matched, Whole
<1>4. CASE OpenTmp \/ FillTmp
  BY <1>4 DEF OpenTmp, FillTmp, SplicedInv, ReadInv, DetectedInv, AllowedInv, FileInv,
              FileWhole, Matched, Whole, Blocked
<1>5. CASE Rename \/ RenameFails \/ Fill
  <2>1. results # <<>>
    BY <1>5 DEF Rename, RenameFails, Fill, AllowedInv, Blocked, Successes
  <2> QED BY <1>5, <2>1 DEF Rename, RenameFails, Fill, Answer, SplicedInv, ReadInv, DetectedInv,
              AllowedInv, FileInv, FileWhole, Matched, Whole
<1>6. CASE Save
  BY <1>6 DEF Save, SplicedInv, ReadInv, DetectedInv, AllowedInv, FileInv, FileWhole, Matched,
              Whole
<1>7. CASE UNCHANGED vars
  BY <1>7 DEF vars, SplicedInv, ReadInv, DetectedInv, AllowedInv, FileInv, FileWhole, Matched,
              Whole
<1>8. CASE ReadFails \/ Refuse \/ DryRun \/ TmpFails \/ FillFails \/ WriteFails \/ Crash
  <2>1. pc \in {"read", "match"} => results = <<>>
    BY DEF ReadInv
  <2>2. /\ pc' \in {"done", "crashed"}
        /\ UNCHANGED <<file, tmp, call, original, results, current, fallback>>
    BY <1>8 DEF ReadFails, Refuse, DryRun, TmpFails, FillFails, WriteFails, Crash, Answer
  <2> QED BY <1>3, <2>1, <2>2
<1> QED BY <1>1, <1>2, <1>4, <1>5, <1>6, <1>7, <1>8 DEF Next, Handler

LEMMA CallInvariant == Spec => []CallInv
  BY CallInit, CallStep, PTL DEF Spec

\* The regions a call accepts never overlap, for every file, every call and every
\* outcome of the matchers (edit.go:252-291).
THEOREM AcceptedNeverOverlap == Spec => []AcceptedApart
<1>1. CallInv => AcceptedApart
  <2> SUFFICES ASSUME CallInv, results # <<>> PROVE Apart(results)
    BY DEF AcceptedApart, Matched, Apart
  <2> QED BY ResultsFit DEF CallInv, DetectedInv, ReadInv
<1> QED BY <1>1, CallInvariant, PTL

\* The content to write holds every result that is reported as applied, at the place
\* it was found at, and leaves every other byte where it was: no edit moves or swallows
\* another, for every file, every call and every outcome of the matchers, as long as no
\* insert lands where an edit begins (README.md:198-200, edit.go:614-666).
THEOREM AppliesAsReported == Spec => []AppliedAsReported
<1>1. CallInv => AppliedAsReported
  <2> SUFFICES ASSUME CallInv, Matched, ~BoundaryInsert(results)
               PROVE  current = Intended(original, results)
    BY DEF AppliedAsReported
  <2>1. /\ call \in Call /\ original \in {AsFound, AsSaved, <<>>}
        /\ results = DetectOverlaps(ComputeResults(original, call))
        /\ current = ApplyReplacements(original, Regions(results))
    BY DEF CallInv, ReadInv, DetectedInv, SplicedInv, Matched
  <2>2. original \in Seq(Nat) /\ Len(original) \in Nat
    BY <2>1, OriginalType
  <2>3. results \in Seq(FittingResults(Len(original))) /\ Apart(results)
    BY <2>1, ResultsFit
  <2>4. Fitting(Regions(results), Len(original)) /\ Stacked(Regions(results))
    BY <2>2, <2>3, RegionsFit, ApartIsStacked
  <2>5. ApplyReplacements(original, Regions(results))
        = IntendedUpTo(original, Regions(results))[Len(original)]
    BY <2>2, <2>4, SpliceIsIntended
  <2> QED BY <2>1, <2>5 DEF Intended
<1> QED BY <1>1, CallInvariant, PTL

\* Every byte outside the accepted regions is in the content to write, in its order and
\* once, whatever the edits: also where one that begins at an insert is dropped
\* (edit.go:614-666).
THEOREM RestIsUntouched == Spec => []RestUntouched
<1>1. CallInv => RestUntouched
  <2> DEFINE R == Regions(results)
             free == {b \in DOMAIN original : \A r \in R : ~(r.start < b /\ b <= r.end)}
             outside == {original[b] : b \in free}
  <2> SUFFICES ASSUME CallInv, Matched PROVE Those(current, outside) = Those(original, outside)
    BY DEF RestUntouched
  <2>1. /\ call \in Call /\ original \in {AsFound, AsSaved, <<>>}
        /\ results = DetectOverlaps(ComputeResults(original, call))
        /\ current = ApplyReplacements(original, R)
    BY DEF CallInv, ReadInv, DetectedInv, SplicedInv, Matched
  <2>2. original \in Seq(Nat) /\ Len(original) \in Nat /\ DOMAIN original = 1..Len(original)
    BY <2>1, OriginalType, LenProperties
  <2>3. Fitting(R, Len(original)) /\ EmptyFirst(R)
    BY <2>1, <2>2, ResultsFit, RegionsFit, InsertsAreFirst
  <2>4. PICK K : /\ K \subseteq R /\ Fitting(K, Len(original))
                 /\ current = IntendedUpTo(original, K)[Len(original)]
    BY <2>1, <2>2, <2>3, SpliceOfKept
  <2>5. \A b \in 1..Len(original), r \in K : r.start < b /\ b <= r.end => original[b] \notin outside
    <3> SUFFICES ASSUME NEW b \in 1..Len(original), NEW r \in K, r.start < b, b <= r.end,
                        NEW d \in free, original[b] = original[d]
                 PROVE  FALSE
      OBVIOUS
    <3>1. b = d
      BY <2>1, <2>2, OneOfEach
    <3> QED BY <2>4, <3>1
  <2>6. \A r \in K : Text(r.of) \notin outside
    <3> SUFFICES ASSUME NEW r \in K, NEW d \in free, Text(r.of) = original[d] PROVE FALSE
      OBVIOUS
    <3>1. r.of \in Nat
      BY <2>4 DEF Fitting, Region
    <3>2. original[d] <= Size /\ original[d] \in Nat
      BY <2>1, <2>2, OneOfEach
    <3>3. r.of >= 1
      <4>1. results \in Seq(Result)
        BY <2>1, <2>2, ResultsFit, FittingIsResult, SeqMonotonic
      <4>2. r.of \in DOMAIN results
        BY <2>4, <4>1, RegionsType
      <4> QED BY <4>1, <4>2, LenProperties
    <3> QED BY <3>1, <3>2, <3>3, SizeAssumption DEF Text
  <2> HIDE DEF outside
  <2> QED BY <2>2, <2>4, <2>5, <2>6, RestIsKept
<1> QED BY <1>1, CallInvariant, PTL

\* Every variable keeps its type: in particular every region lies in the file and the
\* content to write is a sequence of pieces.
THEOREM TypeCorrect == Spec => []TypeOK
<1>1. AsFound \in Seq(Nat) /\ AsSaved \in Seq(Nat) /\ <<>> \in Seq(Nat)
  BY OriginalType
<1>2. /\ Seq(Nat) \subseteq Contents /\ NoFile \in Contents
      /\ <<>> \in Seq(Outcomes)
  BY EmptySeq DEF Contents
<1>3. Init => TypeOK
  BY <1>1, <1>2 DEF Init, TypeOK
<1>4. ASSUME NEW content \in {AsFound, AsSaved, <<>>}, NEW c \in Call, NEW rs,
             rs = DetectOverlaps(ComputeResults(content, c))
      PROVE  rs \in Seq(Outcomes) /\ ApplyReplacements(content, Regions(rs)) \in Seq(Nat)
  <2>1. content \in Seq(Nat) /\ Len(content) \in Nat
    BY OriginalType
  <2>2. rs \in Seq(FittingResults(Len(content)))
    BY <1>4, ResultsFit
  <2>3. Fitting(Regions(rs), Len(content))
    BY <2>1, <2>2, RegionsFit
  <2>4. FittingResults(Len(content)) \subseteq Outcomes
    BY DEF FittingResults
  <2>5. rs \in Seq(Outcomes)
    BY <2>2, <2>4, SeqMonotonic
  <2> QED BY <2>1, <2>3, <2>5, ReplacedTyped
<1>5. CallInv /\ TypeOK /\ [Next]_vars => TypeOK'
  <2> SUFFICES ASSUME CallInv, TypeOK, [Next]_vars PROVE TypeOK'
    OBVIOUS
  <2> USE DEF TypeOK
  <2>1. CASE Read
    <3>1. file = NoFile \/ file \in Seq(Nat)
      BY DEF Contents
    <3> QED BY <1>1, <2>1, <3>1 DEF Read
  <2>2. CASE Match
    <3>1. results' \in Seq(Outcomes) /\ current' \in Seq(Nat)
      BY <1>4, <2>2 DEF Match, CallInv, ReadInv
    <3> QED BY <2>2, <3>1 DEF Match
  <2>3. CASE OpenTmp \/ FillTmp \/ Rename \/ RenameFails \/ Fill
    BY <1>1, <1>2, <2>3 DEF OpenTmp, FillTmp, Rename, RenameFails, Fill, Answer
  <2>4. CASE ReadFails \/ Refuse \/ DryRun \/ TmpFails \/ FillFails \/ WriteFails \/ Crash
    BY <2>4 DEF ReadFails, Refuse, DryRun, TmpFails, FillFails, WriteFails, Crash, Answer
  <2>5. CASE Save
    BY <1>1, <1>2, <2>5 DEF Save
  <2>6. CASE UNCHANGED vars
    BY <2>6 DEF vars
  <2> QED BY <2>1, <2>2, <2>3, <2>4, <2>5, <2>6 DEF Next, Handler
<1> QED BY <1>3, <1>5, CallInvariant, PTL DEF Spec

\* A crash at any point leaves a whole version of the file, unless the rename had
\* failed (edit.go:926-953).
THEOREM FileStaysWhole == Spec => []FileWhole
<1>1. CallInv => FileWhole
  BY DEF CallInv, FileInv
<1> QED BY <1>1, CallInvariant, PTL

\* Only a call that may write changes the file, and only before it replies
\* (edit.go:60-72, 668-724).
THEOREM ChangesAsAnnounced == Spec => OnlyAsAnnounced
<1> DEFINE Announced == file' # file /\ file' # AsSaved =>
         /\ pc \in {"rename", "fill"} /\ reply = "none" /\ ~call.dryRun
         /\ Successes(results) # {}
         /\ Failures(results) # {} => ~call.terse /\ ~call.failFast
<1>1. CallInv /\ [Next]_vars => [Announced]_vars
  <2> SUFFICES ASSUME CallInv, [Next]_vars, file' # file, file' # AsSaved
               PROVE  Announced
    OBVIOUS
  <2>1. pc \in {"rename", "fill"}
    BY DEF Next, Handler, Read, ReadFails, Match, Refuse, DryRun, OpenTmp, FillTmp, TmpFails,
           Rename, RenameFails, Fill, FillFails, WriteFails, Crash, Save, vars
  <2> QED BY <2>1 DEF CallInv, AllowedInv, Blocked
<1>2. Spec => [][Announced]_vars
  BY <1>1, CallInvariant, PTL DEF Spec
<1> QED BY <1>2 DEF OnlyAsAnnounced
=============================================================================
