------------------------------ MODULE Counting ------------------------------
(***************************************************************************)
(* Lemmas that the proofs of several components rest on: induction over the *)
(* naturals for sets, the sizes of finite sets, and parts of sequences.     *)
(***************************************************************************)
EXTENDS Sublists, FiniteSets, FunctionTheorems, FiniteSetTheorems, SequenceTheorems, WellFoundedInduction, TLAPS

-----------------------------------------------------------------------------
(* Induction *)

\* A set of naturals that holds 0 and the successor of each of its members holds them all.
LEMMA Inductive ==
    ASSUME NEW T \in SUBSET Nat, 0 \in T, \A n \in T : n + 1 \in T
    PROVE  T = Nat
<1> SUFFICES ASSUME Nat \ T # {} PROVE FALSE
  OBVIOUS
<1>1. PICK n \in Nat \ T : \A k \in Nat \ T : <<k, n>> \notin OpToRel(<, Nat)
  BY NatLessThanWellFounded, WFMin
<1>2. n # 0 /\ n - 1 \in Nat /\ (n - 1) + 1 = n
  OBVIOUS
<1>3. <<n - 1, n>> \in OpToRel(<, Nat)
  BY <1>2 DEF OpToRel
<1>4. n - 1 \in T
  BY <1>1, <1>2, <1>3
<1> QED BY <1>2, <1>4

\* The same up to n.
LEMMA Upward ==
    ASSUME NEW n \in Nat, NEW T, 0 \in T, \A k \in 0..(n - 1) : k \in T => k + 1 \in T
    PROVE  \A k \in 0..n : k \in T
<1> DEFINE U == {k \in Nat : k <= n => k \in T}
<1>1. 0 \in U
  OBVIOUS
<1>2. ASSUME NEW k \in U PROVE k + 1 \in U
  <2> SUFFICES ASSUME k + 1 <= n PROVE k + 1 \in T
    OBVIOUS
  <2>1. k \in 0..(n - 1) /\ k \in T
    OBVIOUS
  <2> QED BY <2>1
<1>3. U = Nat
  <2> HIDE DEF U
  <2>1. U \in SUBSET Nat
    BY DEF U
  <2> QED BY <1>1, <1>2, <2>1, Inductive
<1> QED BY <1>3

\* A function defined by recursion up to L exists when every step has a value.
Recursion(S, L, base, step) ==
    \E g \in [0..L -> S] : g[0] = base /\ \A n \in 1..L : g[n] = step[n][g[n - 1]]

LEMMA RecursionExists ==
    ASSUME NEW S, NEW L \in Nat, NEW base \in S, NEW step \in [1..L -> [S -> S]]
    PROVE  Recursion(S, L, base, step)
<1> DEFINE upTo(k, g) == /\ g \in [0..k -> S] /\ g[0] = base
                         /\ \A n \in 1..k : g[n] = step[n][g[n - 1]]
           T == {k \in Nat : k <= L => \E g : upTo(k, g)}
<1>1. 0 \in T
  <2>1. upTo(0, [n \in 0..0 |-> base])
    OBVIOUS
  <2> QED BY <2>1
<1>2. ASSUME NEW k \in T, k + 1 <= L PROVE \E g : upTo(k + 1, g)
  <2>1. k \in Nat /\ k <= L /\ k + 1 \in 1..L
    BY <1>2
  <2>2. PICK g : upTo(k, g)
    BY <2>1
  <2> DEFINE h == [n \in 0..(k + 1) |-> IF n = k + 1 THEN step[k + 1][g[k]] ELSE g[n]]
  <2>3. step[k + 1][g[k]] \in S
    BY <2>1, <2>2
  <2>4. h \in [0..(k + 1) -> S] /\ h[0] = base
    BY <2>1, <2>2, <2>3
  <2>5. \A n \in 1..(k + 1) : h[n] = step[n][h[n - 1]]
    <3> TAKE n \in 1..(k + 1)
    <3>1. CASE n = k + 1
      BY <2>1, <3>1
    <3>2. CASE n # k + 1
      <4>1. n \in 1..k /\ n \in 0..(k + 1) /\ n - 1 \in 0..(k + 1) /\ n - 1 # k + 1
        BY <2>1, <3>2
      <4> QED BY <2>2, <3>2, <4>1
    <3> QED BY <3>1, <3>2
  <2>6. upTo(k + 1, h)
    BY <2>4, <2>5
  <2> QED BY <2>6
<1>3. \A k \in T : k + 1 \in T
  <2> TAKE k \in T
  <2>1. k + 1 <= L => \E g : upTo(k + 1, g)
    BY <1>2
  <2> HIDE DEF upTo
  <2> QED BY <2>1
<1>4. T = Nat
  <2> HIDE DEF upTo
  <2> QED BY <1>1, <1>3, Inductive
<1> QED BY <1>4 DEF Recursion

\* A set of integers bounded from below has a least member, and one bounded from above a greatest.
LEMMA LeastExists ==
    ASSUME NEW S \in SUBSET Int, S # {}, NEW b \in Int, \A k \in S : b <= k
    PROVE  \E m \in S : \A k \in S : m <= k
<1> DEFINE U == {n \in Nat : \A k \in S : k <= b + n => \E m \in S : \A o \in S : m <= o}
<1>1. 0 \in U
  <2> SUFFICES ASSUME NEW k \in S, k <= b + 0 PROVE \E m \in S : \A o \in S : m <= o
    OBVIOUS
  <2>1. k = b
    OBVIOUS
  <2> QED BY <2>1
<1>2. ASSUME NEW n \in U PROVE n + 1 \in U
  <2> SUFFICES ASSUME NEW k \in S, k <= b + (n + 1) PROVE \E m \in S : \A o \in S : m <= o
    OBVIOUS
  <2>1. CASE \E o \in S : o <= b + n
    BY <2>1
  <2>2. CASE \A o \in S : ~(o <= b + n)
    <3>1. k = b + (n + 1)
      BY <2>2
    <3>2. \A o \in S : k <= o
      BY <2>2, <3>1
    <3> QED BY <3>2
  <2> QED BY <2>1, <2>2
<1>3. U = Nat
  <2> HIDE DEF U
  <2>1. U \in SUBSET Nat
    BY DEF U
  <2> QED BY <1>1, <1>2, <2>1, Inductive
<1>4. PICK k \in S : TRUE
  OBVIOUS
<1>5. k - b \in Nat /\ k <= b + (k - b)
  OBVIOUS
<1>6. k - b \in U
  <2> HIDE DEF U
  <2> QED BY <1>3, <1>5
<1> QED BY <1>5, <1>6

LEMMA GreatestExists ==
    ASSUME NEW S \in SUBSET Int, S # {}, NEW b \in Int, \A k \in S : k <= b
    PROVE  \E m \in S : \A k \in S : k <= m
<1> DEFINE N == {k \in Int : 0 - k \in S}
<1>1. \A k \in S : 0 - k \in N
  OBVIOUS
<1>2. N \in SUBSET Int /\ N # {} /\ 0 - b \in Int /\ \A k \in N : 0 - b <= k
  <2>1. N # {}
    BY <1>1
  <2>2. \A k \in N : 0 - b <= k
    OBVIOUS
  <2> QED BY <2>1, <2>2
<1>3. \E m \in N : \A k \in N : m <= k
  <2> HIDE DEF N
  <2> QED BY <1>2, LeastExists
<1>4. PICK m \in N : \A k \in N : m <= k
  BY <1>3
<1>5. \A k \in S : k <= 0 - m
  BY <1>1, <1>4
<1>6. 0 - m \in S
  OBVIOUS
<1> QED BY <1>5, <1>6

\* Induction from n down: what holds past n, and wherever it holds further on, holds everywhere.
LEMMA Downward ==
    ASSUME NEW T \in SUBSET Nat, NEW n \in Nat,
           \A i \in Nat : (\A j \in Nat : i < j /\ i <= n => j \in T) => i \in T
    PROVE  T = Nat
<1> DEFINE U == {k \in Nat : \A i \in Nat : i > n - k => i \in T}
<1>1. U \in SUBSET Nat /\ 0 \in U
  <2> SUFFICES ASSUME NEW i \in Nat, i > n PROVE i \in T
    OBVIOUS
  <2> QED OBVIOUS
<1>2. ASSUME NEW k \in U PROVE k + 1 \in U
  <2> SUFFICES ASSUME NEW i \in Nat, i > n - (k + 1) PROVE i \in T
    OBVIOUS
  <2>1. \A j \in Nat : i < j => j \in T
    OBVIOUS
  <2> QED BY <2>1
<1>3. U = Nat
  <2> HIDE DEF U
  <2> QED BY <1>1, <1>2, Inductive
<1>4. n + 1 \in U
  <2> HIDE DEF U
  <2> QED BY <1>3
<1>5. \A i \in Nat : i > n - (n + 1) => i \in T
  BY <1>4
<1>6. \A i \in Nat : i > n - (n + 1)
  OBVIOUS
<1> QED BY <1>5, <1>6

\* A function of the naturals that is defined by what it does further on, and by itself past
\* n, exists when every step has a value.
LEMMA FixedPointExists ==
    ASSUME NEW S, NEW base \in S, NEW n \in Nat, NEW F \in [[Nat -> S] -> [Nat -> S]],
           \A f, g \in [Nat -> S], i \in Nat :
               (\A j \in Nat : i < j /\ i <= n => f[j] = g[j]) => F[f][i] = F[g][i]
    PROVE  \E f \in [Nat -> S] : F[f] = f
<1> DEFINE L == n + 3
           step == [k \in 1..L |-> F]
           constant == [i \in Nat |-> base]
<1>1. constant \in [Nat -> S] /\ step \in [1..L -> [[Nat -> S] -> [Nat -> S]]] /\ L \in Nat
  OBVIOUS
<1>2. Recursion([Nat -> S], L, constant, step)
  <2> HIDE DEF L, step, constant
  <2> QED BY <1>1, RecursionExists
<1>3. PICK g \in [0..L -> [Nat -> S]] : \A k \in 1..L : g[k] = F[g[k - 1]]
  BY <1>2 DEF Recursion
<1> DEFINE same(k) == \A i \in Nat : i > n - k => g[k + 1][i] = g[k + 2][i]
           T == {k \in Nat : k <= n + 1 => same(k)}
<1>4. 0 \in T
  <2> SUFFICES ASSUME NEW i \in Nat, i > n PROVE g[1][i] = g[2][i]
    OBVIOUS
  <2>1. g[1] = F[g[0]] /\ g[2] = F[g[1]] /\ g[0] \in [Nat -> S] /\ g[1] \in [Nat -> S]
    <3>1. 0 \in 0..L /\ 1 \in 0..L /\ 1 \in 1..L /\ 2 \in 1..L /\ 1 - 1 = 0 /\ 2 - 1 = 1
      OBVIOUS
    <3> QED BY <1>3, <3>1
  <2>2. \A j \in Nat : i < j /\ i <= n => g[0][j] = g[1][j]
    OBVIOUS
  <2>3. F[g[0]][i] = F[g[1]][i]
    <3> HIDE DEF L
    <3> QED BY <2>1, <2>2
  <2> QED BY <2>1, <2>3
<1>5. ASSUME NEW k \in T PROVE k + 1 \in T
  <2> SUFFICES ASSUME k + 1 <= n + 1, NEW i \in Nat, i > n - (k + 1)
               PROVE  g[k + 2][i] = g[k + 3][i]
    OBVIOUS
  <2>1. /\ g[k + 2] = F[g[k + 1]] /\ g[k + 3] = F[g[k + 2]]
        /\ g[k + 1] \in [Nat -> S] /\ g[k + 2] \in [Nat -> S]
    <3>1. /\ k + 1 \in 0..L /\ k + 2 \in 0..L /\ k + 2 \in 1..L /\ k + 3 \in 1..L
          /\ (k + 2) - 1 = k + 1 /\ (k + 3) - 1 = k + 2
      OBVIOUS
    <3> QED BY <1>3, <3>1
  <2>2. \A j \in Nat : i < j => g[k + 1][j] = g[k + 2][j]
    OBVIOUS
  <2>3. F[g[k + 1]][i] = F[g[k + 2]][i]
    BY <2>1, <2>2
  <2> QED BY <2>1, <2>3
<1>6. T = Nat
  <2> HIDE DEF T
  <2>1. T \in SUBSET Nat
    BY DEF T
  <2> QED BY <1>4, <1>5, <2>1, Inductive
<1>7. same(n + 1)
  <2>1. n + 1 \in T
    <3> HIDE DEF T
    <3> QED BY <1>6
  <2> QED BY <2>1
<1>8. g[n + 2] \in [Nat -> S] /\ g[n + 3] \in [Nat -> S] /\ g[n + 3] = F[g[n + 2]]
  <2>1. n + 2 \in 0..L /\ n + 3 \in 0..L /\ n + 3 \in 1..L /\ (n + 3) - 1 = n + 2
    OBVIOUS
  <2> QED BY <1>3, <2>1
<1>9. \A i \in Nat : g[n + 2][i] = g[n + 3][i]
  BY <1>7
<1>10. g[n + 2] = g[n + 3]
  BY <1>8, <1>9
<1> QED BY <1>8, <1>10

\* The same for any set whose members have ranks: induction, and a function that is defined by
\* what it does at lower ranks.
LEMMA RankedInduction ==
    ASSUME NEW S, NEW rank \in [S -> Nat], NEW U,
           \A s \in S : (\A t \in S : rank[t] < rank[s] => t \in U) => s \in U
    PROVE  S \subseteq U
<1> DEFINE below == {k \in Nat : \A s \in S : rank[s] < k => s \in U}
<1>1. 0 \in below
  OBVIOUS
<1>2. ASSUME NEW k \in below PROVE k + 1 \in below
  <2> SUFFICES ASSUME NEW s \in S, rank[s] < k + 1 PROVE s \in U
    OBVIOUS
  <2>1. \A t \in S : rank[t] < rank[s] => rank[t] < k
    OBVIOUS
  <2>2. \A t \in S : rank[t] < rank[s] => t \in U
    BY <2>1
  <2> QED BY <2>2
<1>3. below = Nat
  <2> HIDE DEF below
  <2>1. below \in SUBSET Nat
    BY DEF below
  <2> QED BY <1>1, <1>2, <2>1, Inductive
<1> SUFFICES ASSUME NEW s \in S PROVE s \in U
  OBVIOUS
<1>4. rank[s] + 1 \in Nat /\ rank[s] < rank[s] + 1
  OBVIOUS
<1>5. rank[s] + 1 \in below
  <2> HIDE DEF below
  <2> QED BY <1>3, <1>4
<1> QED BY <1>4, <1>5

IsRanked(S, T, n, rank, F) ==
    /\ T # {} /\ n \in Nat /\ rank \in [S -> 0..n] /\ F \in [[S -> T] -> [S -> T]]
    /\ \A f, g \in [S -> T], s \in S :
          (\A t \in S : rank[t] < rank[s] => f[t] = g[t]) => F[f][s] = F[g][s]

LEMMA RankedExists ==
    ASSUME NEW S, NEW T, NEW n, NEW rank, NEW F, IsRanked(S, T, n, rank, F)
    PROVE  \E f \in [S -> T] : F[f] = f
<1> USE DEF IsRanked
<1>0. PICK base \in T : TRUE
  OBVIOUS
<1> DEFINE L == n + 2
           step == [k \in 1..L |-> F]
           constant == [s \in S |-> base]
<1>1. constant \in [S -> T] /\ step \in [1..L -> [[S -> T] -> [S -> T]]] /\ L \in Nat
  OBVIOUS
<1>2. Recursion([S -> T], L, constant, step)
  <2> HIDE DEF L, step, constant
  <2> QED BY <1>1, RecursionExists
<1>3. PICK g \in [0..L -> [S -> T]] : \A k \in 1..L : g[k] = F[g[k - 1]]
  BY <1>2 DEF Recursion
<1> DEFINE same(k) == \A s \in S : rank[s] < k => g[k][s] = g[k + 1][s]
           settled == {k \in Nat : k <= n + 1 => same(k)}
<1>4. 0 \in settled
  OBVIOUS
<1>5. ASSUME NEW k \in settled PROVE k + 1 \in settled
  <2> SUFFICES ASSUME k + 1 <= n + 1, NEW s \in S, rank[s] < k + 1
               PROVE  g[k + 1][s] = g[k + 2][s]
    OBVIOUS
  <2>1. /\ g[k + 1] = F[g[k]] /\ g[k + 2] = F[g[k + 1]]
        /\ g[k] \in [S -> T] /\ g[k + 1] \in [S -> T]
    <3>1. /\ k \in 0..L /\ k + 1 \in 0..L /\ k + 1 \in 1..L /\ k + 2 \in 1..L
          /\ (k + 1) - 1 = k /\ (k + 2) - 1 = k + 1
      OBVIOUS
    <3> QED BY <1>3, <3>1
  <2>2. \A t \in S : rank[t] < rank[s] => g[k][t] = g[k + 1][t]
    OBVIOUS
  <2>3. F[g[k]][s] = F[g[k + 1]][s]
    BY <2>1, <2>2
  <2> QED BY <2>1, <2>3
<1>6. settled = Nat
  <2> HIDE DEF settled
  <2>1. settled \in SUBSET Nat
    BY DEF settled
  <2> QED BY <1>4, <1>5, <2>1, Inductive
<1>7. same(n + 1)
  <2>1. n + 1 \in settled
    <3> HIDE DEF settled
    <3> QED BY <1>6
  <2> QED BY <2>1
<1>8. g[n + 1] \in [S -> T] /\ g[n + 2] \in [S -> T] /\ g[n + 2] = F[g[n + 1]]
  <2>1. n + 1 \in 0..L /\ n + 2 \in 0..L /\ n + 2 \in 1..L /\ (n + 2) - 1 = n + 1
    OBVIOUS
  <2> QED BY <1>3, <2>1
<1>9. \A s \in S : g[n + 1][s] = g[n + 2][s]
  BY <1>7
<1>10. g[n + 1] = g[n + 2]
  BY <1>8, <1>9
<1> QED BY <1>8, <1>10

-----------------------------------------------------------------------------
(* The sizes of sets *)

\* Two finite sets together, and apart.
LEMMA TogetherAtMost ==
    ASSUME NEW S, NEW T, IsFiniteSet(S), IsFiniteSet(T)
    PROVE  /\ IsFiniteSet(S \cup T)
           /\ Cardinality(S \cup T) \in Nat
           /\ Cardinality(S \cup T) <= Cardinality(S) + Cardinality(T)
           /\ S \cap T = {} => Cardinality(S \cup T) = Cardinality(S) + Cardinality(T)
<1>1. /\ IsFiniteSet(S \cup T)
      /\ Cardinality(S \cup T) = Cardinality(S) + Cardinality(T) - Cardinality(S \cap T)
  BY FS_Union
<1>2. IsFiniteSet(S \cap T)
  BY FS_Intersection
<1>3. /\ Cardinality(S) \in Nat /\ Cardinality(T) \in Nat /\ Cardinality(S \cap T) \in Nat
      /\ Cardinality(S \cup T) \in Nat
  BY <1>1, <1>2, FS_CardinalityType
<1>4. S \cap T = {} => Cardinality(S \cap T) = 0
  BY FS_EmptySet
<1> QED BY <1>1, <1>3, <1>4

\* A relation that orders the members of a set one after the other.
Orders(R, S) == /\ \A m \in S : <<m, m>> \notin R
                /\ \A m, n \in S : m # n => <<m, n>> \in R \/ <<n, m>> \in R
                /\ \A m, n, o \in S : <<m, n>> \in R /\ <<n, o>> \in R => <<m, o>> \in R

\* How many members of S come before m.
PlaceOf(R, S, m) == Cardinality({n \in S : <<n, m>> \in R})

\* The ranks of an ordered set of n members are 0..n-1, and grow along the order.
LEMMA RankIs ==
    ASSUME NEW R, NEW S, IsFiniteSet(S), Orders(R, S)
    PROVE  /\ Cardinality(S) \in Nat
           /\ \A m \in S : PlaceOf(R, S, m) \in 0..(Cardinality(S) - 1)
           /\ \A m, n \in S : <<m, n>> \in R => PlaceOf(R, S, m) < PlaceOf(R, S, n)
           /\ \A m, n \in S : PlaceOf(R, S, m) = PlaceOf(R, S, n) => m = n
           /\ \A r \in 0..(Cardinality(S) - 1) : \E m \in S : PlaceOf(R, S, m) = r
<1> DEFINE size == Cardinality(S)
           before(m) == {n \in S : <<n, m>> \in R}
           rank == [m \in S |-> Cardinality(before(m))]
<1>1. size \in Nat
  BY FS_CardinalityType
<1>2. \A m \in S : IsFiniteSet(before(m)) /\ Cardinality(before(m)) \in Nat
  <2> TAKE m \in S
  <2>1. before(m) \in SUBSET S
    OBVIOUS
  <2> QED BY <2>1, FS_Subset, FS_CardinalityType
<1>3. \A m \in S : Cardinality(before(m)) < size
  <2> TAKE m \in S
  <2>1. before(m) \in SUBSET S /\ before(m) # S
    BY DEF Orders
  <2>2. Cardinality(before(m)) <= size /\ Cardinality(before(m)) # size
    BY <2>1, FS_Subset
  <2> QED BY <1>1, <1>2, <2>2
<1>4. ASSUME NEW m \in S, NEW n \in S, <<m, n>> \in R
      PROVE  Cardinality(before(m)) < Cardinality(before(n))
  <2>1. before(m) \cup {m} \in SUBSET before(n) /\ m \notin before(m)
    BY <1>4 DEF Orders
  <2>2. /\ IsFiniteSet(before(m)) /\ IsFiniteSet(before(n))
        /\ Cardinality(before(m)) \in Nat /\ Cardinality(before(n)) \in Nat
    BY <1>2
  <2> HIDE DEF before
  <2>3. Cardinality(before(m) \cup {m}) = Cardinality(before(m)) + 1
    BY <2>1, <2>2, FS_AddElement
  <2>4. Cardinality(before(m) \cup {m}) <= Cardinality(before(n))
    BY <2>1, <2>2, FS_Subset
  <2> QED BY <2>2, <2>3, <2>4
<1>5. rank \in [S -> 0..(size - 1)]
  BY <1>1, <1>2, <1>3
<1>6. \A m, n \in S : rank[m] = rank[n] => m = n
  <2> SUFFICES ASSUME NEW m \in S, NEW n \in S, m # n
               PROVE  rank[m] # rank[n]
    OBVIOUS
  <2>1. <<m, n>> \in R \/ <<n, m>> \in R
    BY DEF Orders
  <2>2. rank[m] < rank[n] \/ rank[n] < rank[m]
    BY <2>1, <1>4
  <2>3. rank[m] \in Nat /\ rank[n] \in Nat
    BY <1>2
  <2> QED BY <2>2, <2>3
<1>7. \A m \in S : PlaceOf(R, S, m) = rank[m]
  BY DEF PlaceOf
<1>8. \A m, n \in S : <<m, n>> \in R => rank[m] < rank[n]
  BY <1>4
<1> HIDE DEF rank, before
<1>9. \A r \in 0..(size - 1) : \E m \in S : rank[m] = r
  <2> DEFINE places == 0..(size - 1)
  <2>1. IsFiniteSet(places) /\ Cardinality(places) = size
    BY <1>1, 0 \in Int, size - 1 \in Int, FS_Interval
  <2>2. rank \in Injection(S, places)
    BY <1>5, <1>6, Fun_IsInj
  <2>3. rank \in Surjection(S, places)
    BY <2>1, <2>2, FS_Injection
  <2> QED BY <2>3 DEF Surjection
<1> QED BY <1>1, <1>5, <1>6, <1>7, <1>9, <1>8

\* f lists the members of S by their ranks.
Ranked(R, S, f) == /\ f \in [1..Cardinality(S) -> S]
                   /\ \A k \in 1..Cardinality(S) : PlaceOf(R, S, f[k]) = k - 1

\* The members of an ordered set, listed by their ranks, follow the order.
LEMMA RankedIs ==
    ASSUME NEW R, NEW S, IsFiniteSet(S), Orders(R, S), NEW f, Ranked(R, S, f)
    PROVE  /\ \A k, m \in 1..Cardinality(S) : k < m => <<f[k], f[m]>> \in R
           /\ \A r \in S : \E k \in 1..Cardinality(S) : f[k] = r
<1> DEFINE size == Cardinality(S)
<1>1. /\ size \in Nat
      /\ \A m \in S : PlaceOf(R, S, m) \in 0..(size - 1)
      /\ \A m, n \in S : <<m, n>> \in R => PlaceOf(R, S, m) < PlaceOf(R, S, n)
      /\ \A m, n \in S : PlaceOf(R, S, m) = PlaceOf(R, S, n) => m = n
  BY RankIs
<1>2. \A k \in 1..size : f[k] \in S /\ PlaceOf(R, S, f[k]) = k - 1
  BY DEF Ranked
<1> HIDE DEF size
<1>3. ASSUME NEW k \in 1..size, NEW m \in 1..size, k < m PROVE <<f[k], f[m]>> \in R
  <2>1. f[k] # f[m] /\ ~(PlaceOf(R, S, f[m]) < PlaceOf(R, S, f[k]))
    BY <1>1, <1>2, <1>3
  <2> QED BY <1>1, <1>2, <2>1 DEF Orders
<1>4. ASSUME NEW r \in S PROVE \E k \in 1..size : f[k] = r
  <2>1. PlaceOf(R, S, r) + 1 \in 1..size /\ (PlaceOf(R, S, r) + 1) - 1 = PlaceOf(R, S, r)
    BY <1>1
  <2>2. PlaceOf(R, S, f[PlaceOf(R, S, r) + 1]) = PlaceOf(R, S, r) /\ f[PlaceOf(R, S, r) + 1] \in S
    BY <1>2, <2>1
  <2> QED BY <1>1, <2>1, <2>2
<1> QED BY <1>3, <1>4 DEF size

\* The members of S that fewer than k others come before.
Leading(R, S, k) == {m \in S : Cardinality({n \in S : <<n, m>> \in R}) < k}

\* The k first members of an ordered set are k, or the whole set.
LEMMA LeadingSize ==
    ASSUME NEW R, NEW S, IsFiniteSet(S), Orders(R, S), NEW k \in Nat
    PROVE  /\ k >= Cardinality(S) => Leading(R, S, k) = S
           /\ k <= Cardinality(S) => Cardinality(Leading(R, S, k)) = k
<1> DEFINE size == Cardinality(S)
           rank == [m \in S |-> PlaceOf(R, S, m)]
           lead == Leading(R, S, k)
<1>1. /\ size \in Nat /\ rank \in [S -> 0..(size - 1)]
      /\ \A m, n \in S : rank[m] = rank[n] => m = n
      /\ \A r \in 0..(size - 1) : \E m \in S : rank[m] = r
  BY RankIs
<1>2. lead = {m \in S : rank[m] < k}
  BY DEF Leading, PlaceOf
<1> HIDE DEF rank
<1>3. k >= size => lead = S
  BY <1>1, <1>2
<1>4. ASSUME k <= size PROVE Cardinality(lead) = k
  <2> DEFINE places == 0..(k - 1)
             place == [m \in lead |-> rank[m]]
  <2>1. place \in [lead -> places]
    BY <1>1, <1>2
  <2>2. \A m, n \in lead : place[m] = place[n] => m = n
    BY <1>1, <1>2
  <2>3. \A r \in places : \E m \in lead : place[m] = r
    <3> TAKE r \in places
    <3>1. r \in 0..(size - 1) /\ r < k
      BY <1>1, <1>4
    <3>2. PICK m \in S : rank[m] = r
      BY <3>1, <1>1
    <3> QED BY <3>1, <3>2, <1>2
  <2>4. place \in Bijection(lead, places)
    BY <2>1, <2>2, <2>3, Fun_IsBij
  <2>5. IsFiniteSet(lead)
    BY <1>2, FS_Subset
  <2>6. Cardinality(places) = k
    BY 0 \in Int, k - 1 \in Int, FS_Interval
  <2>7. ExistsBijection(lead, places)
    BY <2>4 DEF ExistsBijection
  <2> QED BY <2>5, <2>6, <2>7, FS_Bijection
<1> QED BY <1>3, <1>4

\* A union of sets of at most n members holds at most n for each of them.
LEMMA UnionSize ==
    ASSUME NEW A, IsFiniteSet(A), NEW f, NEW n \in Nat,
           \A w \in A : IsFiniteSet(f[w]) /\ Cardinality(f[w]) <= n
    PROVE  /\ IsFiniteSet(UNION {f[w] : w \in A})
           /\ Cardinality(UNION {f[w] : w \in A}) <= Cardinality(A) * n
<1> DEFINE U == UNION {f[w] : w \in A}
           places == 1..n
           holder == [m \in U |-> CHOOSE w \in A : m \in f[w]]
           number == [w \in A |-> CHOOSE g : g \in Injection(f[w], places)]
           place == [m \in U |-> <<holder[m], number[holder[m]][m]>>]
<1>1. IsFiniteSet(places) /\ Cardinality(places) = n
  BY 1 \in Int, n \in Int, FS_Interval
<1>2. \A m \in U : holder[m] \in A /\ m \in f[holder[m]]
  OBVIOUS
<1>3. \A w \in A : number[w] \in Injection(f[w], places)
  <2> TAKE w \in A
  <2>1. ExistsBijection(1..Cardinality(f[w]), f[w]) /\ Cardinality(f[w]) \in Nat
    BY FS_CardinalityType
  <2>2. PICK b : b \in Bijection(f[w], 1..Cardinality(f[w]))
    BY <2>1, Fun_ExistsBijSymmetric DEF ExistsBijection
  <2>3. b \in [f[w] -> places] /\ \A x, y \in f[w] : b[x] = b[y] => x = y
    BY <2>1, <2>2, Fun_BijectionProperties
  <2>4. b \in Injection(f[w], places)
    BY <2>3, Fun_IsInj
  <2> QED BY <2>4
<1> HIDE DEF U, places, holder, number
<1>4. \A m \in U : number[holder[m]][m] \in places
  BY <1>2, <1>3, Fun_InjectionProperties
<1>5. place \in [U -> A \X places]
  BY <1>2, <1>4
<1>6. \A m, o \in U : place[m] = place[o] => m = o
  <2> SUFFICES ASSUME NEW m \in U, NEW o \in U, place[m] = place[o]
               PROVE  m = o
    OBVIOUS
  <2>1. holder[m] = holder[o] /\ number[holder[m]][m] = number[holder[m]][o]
    OBVIOUS
  <2>2. \A x, y \in f[holder[m]] : number[holder[m]][x] = number[holder[m]][y] => x = y
    BY <1>2, <1>3, Fun_InjectionProperties
  <2> QED BY <1>2, <2>1, <2>2
<1>7. place \in Injection(U, A \X places)
  BY <1>5, <1>6, Fun_IsInj
<1>8. IsFiniteSet(A \X places) /\ Cardinality(A \X places) = Cardinality(A) * n
  BY <1>1, FS_Product
<1>9. IsFiniteSet(U) /\ Cardinality(U) <= Cardinality(A) * n
  BY <1>7, <1>8, FS_Injection
<1> QED BY <1>9 DEF U

-----------------------------------------------------------------------------
(* Parts of sequences *)

\* What has been collected up to each place of a sequence.
LEMMA GatheredIs ==
    ASSUME NEW D, NEW s \in Seq(D), NEW S
    PROVE  /\ Gathered(s, S)[0] = <<>>
           /\ \A k \in 1..Len(s) : Gathered(s, S)[k] = Gather(Gathered(s, S)[k - 1], s[k], S)
           /\ \A k \in 0..Len(s) : Gathered(s, S)[k] \in Seq(D)
<1> DEFINE L == Len(s)
           Q == Seq(D)
           none == <<>>
           step == [n \in 1..L |-> [q \in Q |-> Gather(q, s[n], S)]]
           body(g) == [k \in 0..L |-> IF k = 0 THEN <<>> ELSE Gather(g[k - 1], s[k], S)]
<1>1. L \in Nat /\ none \in Q /\ \A n \in 1..L : s[n] \in D
  OBVIOUS
<1>2. step \in [1..L -> [Q -> Q]]
  <2>1. \A n \in 1..L, q \in Q : Gather(q, s[n], S) \in Q
    BY <1>1 DEF Gather
  <2> QED BY <2>1
<1> HIDE DEF L, Q, none
<1>3. PICK g \in [0..L -> Q] : g[0] = none /\ \A n \in 1..L : g[n] = step[n][g[n - 1]]
  <2> HIDE DEF step
  <2>1. Recursion(Q, L, none, step)
    BY <1>1, <1>2, RecursionExists
  <2> QED BY <2>1 DEF Recursion
<1>4. \A n \in 1..L : g[n] = Gather(g[n - 1], s[n], S)
  <2> TAKE n \in 1..L
  <2>1. n - 1 \in 0..L
    BY <1>1
  <2>2. g[n - 1] \in Q
    BY <1>3, <2>1
  <2> QED BY <1>3, <2>2
<1>5. g = body(g)
  <2> DEFINE h == body(g)
  <2>1. \A k \in 0..L : g[k] = h[k]
    <3> TAKE k \in 0..L
    <3>1. CASE k = 0
      BY <1>3, <3>1 DEF none
    <3>2. CASE k # 0
      <4>1. k \in 1..L
        BY <1>1, <3>2
      <4> QED BY <1>4, <3>2, <4>1
    <3> QED BY <3>1, <3>2
  <2>2. DOMAIN h = 0..L /\ DOMAIN g = 0..L
    BY <1>3
  <2>3. h = [k \in 0..L |-> h[k]] /\ g = [k \in 0..L |-> g[k]]
    BY <1>3
  <2> HIDE DEF h
  <2>4. g = h
    BY <2>1, <2>3
  <2> QED BY <2>4 DEF h
<1>6. Gathered(s, S) = CHOOSE f : f = body(f)
  BY DEF Gathered, L
<1>7. Gathered(s, S) = body(Gathered(s, S))
  <2> HIDE DEF body
  <2> QED BY <1>5, <1>6
<1> DEFINE w == Gathered(s, S)
<1>8. w[0] = none /\ \A k \in 1..L : w[k] = Gather(w[k - 1], s[k], S)
  <2> HIDE DEF w
  <2>1. w = body(w)
    BY <1>7 DEF w
  <2>2. 0 \in 0..L /\ \A k \in 1..L : k \in 0..L /\ k # 0
    BY <1>1
  <2> QED BY <2>1, <2>2 DEF none
<1> DEFINE T == {k \in 0..L : w[k] \in Q}
<1>9. \A k \in 0..L : k \in T
  <2> HIDE DEF w
  <2>1. 0 \in T
    BY <1>1, <1>8
  <2>2. ASSUME NEW k \in 0..(L - 1), k \in T PROVE k + 1 \in T
    <3>1. k + 1 \in 1..L /\ (k + 1) - 1 = k /\ k + 1 \in 0..L
      BY <1>1
    <3>2. w[k + 1] = Gather(w[k], s[k + 1], S)
      BY <1>8, <3>1
    <3>3. Gather(w[k], s[k + 1], S) \in Q
      BY <1>1, <2>2, <3>1 DEF Gather, Q
    <3> QED BY <3>1, <3>2, <3>3
  <2> HIDE DEF T
  <2> QED BY <1>1, <2>1, <2>2, Upward
<1> QED BY <1>8, <1>9 DEF w, none, L, Q

LEMMA InARow ==
    ASSUME NEW D, NEW a \in Seq(D), NEW b \in Seq(D), NEW c \in Seq(D)
    PROVE  (a \o b) \o c = a \o (b \o c)
<1> QED BY ConcatAssociative

\* The members of two sequences, one behind the other.
LEMMA ThoseConcat ==
    ASSUME NEW D, NEW s \in Seq(D), NEW t \in Seq(D), NEW S
    PROVE  Those(s \o t, S) = Those(s, S) \o Those(t, S)
<1> DEFINE w == Gathered(s \o t, S)
           u == Gathered(s, S)
           v == Gathered(t, S)
           m == Len(s)
           n == Len(t)
<1>1. /\ s \o t \in Seq(D) /\ m \in Nat /\ n \in Nat /\ Len(s \o t) = m + n
      /\ \A k \in 1..m : (s \o t)[k] = s[k]
      /\ \A k \in 1..n : (s \o t)[m + k] = t[k]
  <2>1. \A k \in 1..n : m + k \in 1..(m + n) /\ ~(m + k <= m) /\ (m + k) - m = k
    OBVIOUS
  <2> QED BY <2>1, ConcatProperties, LenProperties
<1> HIDE DEF m, n
<1>2. /\ w[0] = <<>> /\ \A k \in 1..(m + n) : w[k] = Gather(w[k - 1], (s \o t)[k], S)
  <2> DEFINE x == s \o t
  <2>1. x \in Seq(D) /\ Len(x) = m + n
    BY <1>1
  <2> HIDE DEF x
  <2>2. /\ Gathered(x, S)[0] = <<>>
        /\ \A k \in 1..Len(x) : Gathered(x, S)[k] = Gather(Gathered(x, S)[k - 1], x[k], S)
    BY <2>1, GatheredIs
  <2> QED BY <2>1, <2>2 DEF w, x
<1>3. /\ u[0] = <<>> /\ \A k \in 1..m : u[k] = Gather(u[k - 1], s[k], S)
      /\ \A k \in 0..m : u[k] \in Seq(D)
  BY GatheredIs DEF u, m
<1>4. /\ v[0] = <<>> /\ \A k \in 1..n : v[k] = Gather(v[k - 1], t[k], S)
      /\ \A k \in 0..n : v[k] \in Seq(D)
  BY GatheredIs DEF v, n
<1> DEFINE F == {k \in 0..m : w[k] = u[k]}
           B == {k \in 0..n : w[m + k] = u[m] \o v[k]}
<1> HIDE DEF w, u, v
<1>5. \A k \in 0..m : k \in F
  <2>1. 0 \in F
    BY <1>1, <1>2, <1>3
  <2>2. ASSUME NEW k \in 0..(m - 1), k \in F PROVE k + 1 \in F
    <3>1. k + 1 \in 1..m /\ (k + 1) - 1 = k /\ k + 1 \in 1..(m + n) /\ k + 1 \in 0..m
      BY <1>1
    <3>2. w[k + 1] = Gather(w[k], (s \o t)[k + 1], S) /\ (s \o t)[k + 1] = s[k + 1]
      BY <1>1, <1>2, <3>1
    <3>3. u[k + 1] = Gather(u[k], s[k + 1], S) /\ w[k] = u[k]
      BY <1>3, <2>2, <3>1
    <3> QED BY <3>1, <3>2, <3>3
  <2> HIDE DEF F
  <2> QED BY <1>1, <2>1, <2>2, Upward
<1>6. w[m] = u[m] /\ u[m] \in Seq(D)
  <2>1. m \in 0..m
    BY <1>1
  <2>2. m \in F
    BY <1>5, <2>1
  <2> QED BY <1>3, <2>1, <2>2
<1>7. \A k \in 0..n : k \in B
  <2>1. 0 \in B
    <3>1. u[m] \o v[0] = u[m] /\ m + 0 = m /\ 0 \in 0..n
      BY <1>1, <1>4, <1>6, ConcatEmptySeq
    <3> QED BY <1>6, <3>1
  <2>2. ASSUME NEW k \in 0..(n - 1), k \in B PROVE k + 1 \in B
    <3> DEFINE q == w[m + k]
               r == v[k]
               x == t[k + 1]
    <3>1. /\ k + 1 \in 1..n /\ (k + 1) - 1 = k /\ m + (k + 1) \in 1..(m + n) /\ k + 1 \in 0..n
          /\ (m + (k + 1)) - 1 = m + k /\ k \in 0..n
      BY <1>1
    <3>2. w[m + (k + 1)] = Gather(q, x, S)
      <4>1. (s \o t)[m + (k + 1)] = x
        BY <1>1, <3>1
      <4> QED BY <1>2, <3>1, <4>1
    <3>3. v[k + 1] = Gather(r, x, S) /\ r \in Seq(D) /\ x \in D
      <4>1. x \in D
        BY <3>1 DEF n
      <4> QED BY <1>4, <3>1, <4>1
    <3>4. q = u[m] \o r
      BY <2>2
    <3> HIDE DEF q, r, x
    <3>5. Append(u[m] \o r, x) = u[m] \o Append(r, x)
      <4>1. <<x>> \in Seq(D) /\ u[m] \o r \in Seq(D)
        BY <1>6, <3>3
      <4>2. (u[m] \o r) \o <<x>> = u[m] \o (r \o <<x>>)
        <5> DEFINE a == u[m]
                   one == <<x>>
        <5>1. a \in Seq(D) /\ one \in Seq(D) /\ r \in Seq(D)
          BY <1>6, <3>3, <4>1
        <5> HIDE DEF a, one
        <5>2. (a \o r) \o one = a \o (r \o one)
          BY <5>1, InARow
        <5> QED BY <5>2 DEF a, one
      <4>3. Append(u[m] \o r, x) = (u[m] \o r) \o <<x>> /\ Append(r, x) = r \o <<x>>
        BY <3>3, <4>1, AppendIsConcat
      <4> QED BY <4>2, <4>3
    <3>6. Gather(q, x, S) = u[m] \o Gather(r, x, S)
      BY <3>4, <3>5 DEF Gather
    <3> QED BY <3>1, <3>2, <3>3, <3>6
  <2> HIDE DEF B
  <2> QED BY <1>1, <2>1, <2>2, Upward
<1>8. w[m + n] = u[m] \o v[n]
  <2>1. n \in 0..n
    BY <1>1
  <2>2. n \in B
    BY <1>7, <2>1
  <2> QED BY <2>2
<1> QED BY <1>1, <1>8 DEF Those, w, u, v, m, n

\* Of an empty sequence, and of one with one member.
LEMMA ThoseFew ==
    ASSUME NEW D, NEW S, NEW x \in D
    PROVE  /\ Those(<<>>, S) = <<>>
           /\ Those(<<x>>, S) = IF x \in S THEN <<x>> ELSE <<>>
<1>1. Those(<<>>, S) = <<>>
  <2>1. <<>> \in Seq(D) /\ Len(<<>>) = 0
    BY EmptySeq
  <2> QED BY <2>1, GatheredIs DEF Those
<1>2. Those(<<x>>, S) = Gather(<<>>, x, S)
  <2>1. <<x>> \in Seq(D) /\ Len(<<x>>) = 1 /\ <<x>>[1] = x /\ 1 - 1 = 0 /\ 1 \in 1..1
    OBVIOUS
  <2> DEFINE w == Gathered(<<x>>, S)
  <2>2. w[0] = <<>> /\ \A k \in 1..Len(<<x>>) : w[k] = Gather(w[k - 1], <<x>>[k], S)
    BY <2>1, GatheredIs
  <2>3. w[1] = Gather(w[0], x, S)
    <3> HIDE DEF w
    <3> QED BY <2>1, <2>2
  <2> QED BY <2>1, <2>2, <2>3 DEF Those
<1> QED BY <1>1, <1>2 DEF Gather

\* Of a sequence that has no member in the set.
LEMMA ThoseNone ==
    ASSUME NEW D, NEW s \in Seq(D), NEW S, \A i \in 1..Len(s) : s[i] \notin S
    PROVE  Those(s, S) = <<>>
<1> DEFINE w == Gathered(s, S)
           n == Len(s)
           T == {k \in 0..n : w[k] = <<>>}
<1>1. n \in Nat /\ w[0] = <<>> /\ \A k \in 1..n : w[k] = Gather(w[k - 1], s[k], S)
  BY LenProperties, GatheredIs
<1>2. 0 \in T
  BY <1>1
<1>3. ASSUME NEW k \in 0..(n - 1), k \in T PROVE k + 1 \in T
  <2>1. k + 1 \in 1..n /\ (k + 1) - 1 = k /\ k + 1 \in 0..n /\ s[k + 1] \notin S
    BY <1>1
  <2> HIDE DEF w, n
  <2>2. w[k + 1] = Gather(w[k], s[k + 1], S)
    BY <1>1, <2>1
  <2> QED BY <1>3, <2>1, <2>2 DEF Gather
<1>4. \A k \in 0..n : k \in T
  <2> HIDE DEF T, n
  <2> QED BY <1>1, <1>2, <1>3, Upward
<1>5. n \in T
  BY <1>1, <1>4
<1> QED BY <1>5 DEF Those

\* The members are again in the domain of the sequence.
LEMMA ThoseTyped ==
    ASSUME NEW D, NEW s \in Seq(D), NEW S
    PROVE  Those(s, S) \in Seq(D)
<1>1. Len(s) \in Nat /\ Len(s) \in 0..Len(s)
  BY LenProperties
<1> QED BY <1>1, GatheredIs DEF Those

\* Every member of t comes from a place of s after the m-th and up to the n-th, in order, and
\* every such place with a member of the set is taken.
Places(s, t, S, m, n) ==
    \E place \in [1..Len(t) -> (m + 1)..n] :
        /\ \A i, j \in 1..Len(t) : i < j => place[i] < place[j]
        /\ \A i \in 1..Len(t) : t[i] = s[place[i]] /\ t[i] \in S
        /\ \A o \in (m + 1)..n : s[o] \in S => \E i \in 1..Len(t) : place[i] = o

LEMMA ThosePlaces ==
    ASSUME NEW D, NEW s \in Seq(D), NEW S
    PROVE  Places(s, Those(s, S), S, 0, Len(s))
<1> DEFINE w == Gathered(s, S)
           n == Len(s)
           T == {k \in 0..n : Places(s, w[k], S, 0, k)}
<1>1. /\ n \in Nat /\ w[0] = <<>> /\ \A k \in 1..n : w[k] = Gather(w[k - 1], s[k], S)
      /\ \A k \in 0..n : w[k] \in Seq(D)
      /\ \A k \in 1..n : s[k] \in D
  BY LenProperties, ElementOfSeq, GatheredIs
<1> HIDE DEF w, n
<1>2. 0 \in T
  <2>1. Len(w[0]) = 0
    BY <1>1, EmptySeq
  <2> DEFINE none == [i \in 1..0 |-> i]
  <2>2. none \in [1..0 -> 1..0] /\ 1..0 = {}
    OBVIOUS
  <2> HIDE DEF none
  <2>3. Places(s, w[0], S, 0, 0)
    <3>1. 1..Len(w[0]) = {} /\ (0 + 1)..0 = {}
      BY <2>1
    <3> HIDE DEF none
    <3>2. none \in [1..Len(w[0]) -> (0 + 1)..0]
      BY <2>2, <3>1
    <3> QED BY <3>1, <3>2 DEF Places
  <2> QED BY <1>1, <2>3
<1>3. ASSUME NEW k \in 0..(n - 1), k \in T PROVE k + 1 \in T
  <2> DEFINE t == w[k]
             L == Len(t)
             x == s[k + 1]
  <2>1. /\ k + 1 \in 1..n /\ (k + 1) - 1 = k /\ k + 1 \in 0..n /\ k \in 0..n /\ k \in Nat
        /\ 1..k \subseteq 1..(k + 1) /\ 1..(k + 1) = 1..k \cup {k + 1} /\ 0 + 1 = 1
    BY <1>1
  <2>2. w[k + 1] = Gather(t, x, S) /\ t \in Seq(D) /\ x \in D /\ L \in Nat
    BY <1>1, <2>1, LenProperties
  <2>3. PICK place \in [1..L -> 1..k] :
            /\ \A i, j \in 1..L : i < j => place[i] < place[j]
            /\ \A i \in 1..L : t[i] = s[place[i]] /\ t[i] \in S
            /\ \A o \in 1..k : s[o] \in S => \E i \in 1..L : place[i] = o
    BY <1>3, <2>1 DEF Places
  <2>4. CASE x \notin S
    <3>1. w[k + 1] = t /\ place \in [1..L -> 1..(k + 1)]
      BY <2>1, <2>2, <2>3, <2>4 DEF Gather
    <3>2. \A o \in 1..(k + 1) : s[o] \in S => \E i \in 1..L : place[i] = o
      BY <2>1, <2>3, <2>4
    <3>3. Places(s, t, S, 0, k + 1)
      <4> HIDE DEF t, x
      <4> QED BY <2>1, <2>3, <3>1, <3>2 DEF Places
    <3> QED BY <2>1, <3>1, <3>3
  <2>5. CASE x \in S
    <3> DEFINE u == Append(t, x)
               more == [i \in 1..(L + 1) |-> IF i = L + 1 THEN k + 1 ELSE place[i]]
    <3>1. w[k + 1] = u
      BY <2>2, <2>5 DEF Gather
    <3>2. Len(u) = L + 1 /\ u[L + 1] = x /\ \A i \in 1..L : u[i] = t[i]
      <4> HIDE DEF x
      <4> QED BY <2>2, AppendProperties
    <3> HIDE DEF t, L, u
    <3>3. more \in [1..(L + 1) -> 1..(k + 1)]
      BY <2>1, <2>2, <2>3
    <3>4. /\ more[L + 1] = k + 1 /\ \A i \in 1..L : more[i] = place[i] /\ place[i] \in 1..k
          /\ 1..(L + 1) = 1..L \cup {L + 1}
      BY <2>2, <2>3
    <3> HIDE DEF more
    <3>5. ASSUME NEW i \in 1..(L + 1), NEW j \in 1..(L + 1), i < j PROVE more[i] < more[j]
      <4>1. i \in 1..L
        BY <2>2, <3>5
      <4>2. CASE j = L + 1
        BY <2>1, <3>4, <4>1, <4>2
      <4>3. CASE j \in 1..L
        BY <2>3, <3>4, <3>5, <4>1, <4>3
      <4> QED BY <3>4, <4>2, <4>3
    <3>6. \A i \in 1..(L + 1) : u[i] = s[more[i]] /\ u[i] \in S
      BY <2>2, <2>3, <2>5, <3>2, <3>4
    <3>7. \A o \in 1..(k + 1) : s[o] \in S => \E i \in 1..(L + 1) : more[i] = o
      BY <2>1, <2>2, <2>3, <3>4
    <3>8. Places(s, u, S, 0, k + 1)
      <4> HIDE DEF x
      <4>1. 1..Len(u) = 1..(L + 1) /\ (0 + 1)..(k + 1) = 1..(k + 1)
        BY <2>1, <3>2
      <4>2. more \in [1..Len(u) -> (0 + 1)..(k + 1)]
        BY <3>3, <4>1
      <4>3. \A i, j \in 1..Len(u) : i < j => more[i] < more[j]
        BY <3>5, <4>1
      <4>4. \A i \in 1..Len(u) : u[i] = s[more[i]] /\ u[i] \in S
        BY <3>6, <4>1
      <4>5. \A o \in (0 + 1)..(k + 1) : s[o] \in S => \E i \in 1..Len(u) : more[i] = o
        BY <3>7, <4>1
      <4> QED BY <4>2, <4>3, <4>4, <4>5, Zenon DEF Places
    <3> QED BY <2>1, <3>1, <3>8
  <2> QED BY <2>4, <2>5
<1>4. n \in T
  <2> HIDE DEF T
  <2>1. \A k \in 0..n : k \in T
    BY <1>1, <1>2, <1>3, Upward
  <2> QED BY <1>1, <2>1
<1> QED BY <1>4 DEF Those, w, n

\* What comes first comes from the first place that is taken; the rest from the places after it.
FirstPlace(s, t, S, m, n) ==
    \E o \in (m + 1)..n :
        /\ s[o] = Head(t) /\ s[o] \in S /\ Places(s, Tail(t), S, o, n)
        /\ \A j \in (m + 1)..(o - 1) : s[j] \notin S

LEMMA PlacesHead ==
    ASSUME NEW D, NEW s, NEW t \in Seq(D), NEW S, NEW m \in Nat, NEW n \in Nat,
           t # <<>>, Places(s, t, S, m, n)
    PROVE  FirstPlace(s, t, S, m, n)
<1> DEFINE L == Len(t)
           u == Tail(t)
<1>1. /\ L \in Nat /\ L > 0 /\ Head(t) = t[1] /\ Len(u) = L - 1 /\ \A i \in 1..Len(u) : u[i] = t[i + 1]
  <2>1. Len(t) \in Nat /\ Len(t) > 0 /\ Head(t) = t[1]
    BY EmptySeq, LenProperties
  <2> QED BY <2>1, HeadTailProperties
<1>2. PICK place \in [1..L -> (m + 1)..n] :
          /\ \A i, j \in 1..L : i < j => place[i] < place[j]
          /\ \A i \in 1..L : t[i] = s[place[i]] /\ t[i] \in S
          /\ \A o \in (m + 1)..n : s[o] \in S => \E i \in 1..L : place[i] = o
  BY DEF Places
<1> HIDE DEF L, u
<1> DEFINE o == place[1]
<1>3. 1 \in 1..L /\ o \in (m + 1)..n /\ s[o] = Head(t) /\ s[o] \in S /\ o \in Nat
  BY <1>1, <1>2
<1>4. \A i \in 1..L : i = 1 \/ o < place[i]
  BY <1>1, <1>2, <1>3
<1>5. \A i \in 1..L : place[i] \in (m + 1)..n
  BY <1>2
<1> HIDE DEF o
<1>6. ASSUME NEW j \in (m + 1)..(o - 1) PROVE s[j] \notin S
  <2>1. j \in (m + 1)..n /\ j < o
    BY <1>3
  <2>2. ASSUME NEW i \in 1..L PROVE place[i] # j
    <3>1. o < place[i] \/ o = place[i]
      BY <1>4 DEF o
    <3> QED BY <1>3, <1>5, <2>1, <3>1
  <2> QED BY <1>2, <2>1, <2>2
<1>7. Places(s, u, S, o, n)
  <2> DEFINE after == [i \in 1..Len(u) |-> place[i + 1]]
  <2>1. \A i \in 1..Len(u) : i + 1 \in 1..L /\ i \in Nat
    BY <1>1
  <2>2. ASSUME NEW i \in 1..Len(u) PROVE after[i] = place[i + 1] /\ place[i + 1] \in (o + 1)..n
    <3>1. place[i + 1] \in (m + 1)..n /\ o < place[i + 1]
      BY <1>4, <1>5, <2>1
    <3> QED BY <1>3, <3>1
  <2>3. after \in [1..Len(u) -> (o + 1)..n]
    BY <2>2
  <2> HIDE DEF after
  <2>4. \A i, j \in 1..Len(u) : i < j => after[i] < after[j]
    <3> SUFFICES ASSUME NEW i \in 1..Len(u), NEW j \in 1..Len(u), i < j PROVE after[i] < after[j]
      OBVIOUS
    <3>1. i + 1 \in 1..L /\ j + 1 \in 1..L /\ i + 1 < j + 1
      BY <2>1
    <3> QED BY <1>2, <2>2, <3>1
  <2>5. ASSUME NEW i \in 1..Len(u) PROVE u[i] = s[after[i]] /\ u[i] \in S
    <3>1. u[i] = t[i + 1] /\ i + 1 \in 1..L /\ after[i] = place[i + 1]
      BY <1>1, <2>1, <2>2
    <3> QED BY <1>2, <3>1
  <2>6. ASSUME NEW q \in (o + 1)..n, s[q] \in S PROVE \E i \in 1..Len(u) : after[i] = q
    <3>1. q \in (m + 1)..n /\ q # o
      BY <1>3
    <3>2. PICK i \in 1..L : place[i] = q
      BY <1>2, <2>6, <3>1
    <3>3. i # 1
      BY <3>1, <3>2 DEF o
    <3>4. i - 1 \in 1..Len(u) /\ (i - 1) + 1 = i
      BY <1>1, <3>3
    <3> QED BY <2>2, <3>2, <3>4
  <2> QED BY <2>3, <2>4, <2>5, <2>6, Zenon DEF Places
<1> QED BY <1>3, <1>6, <1>7 DEF u, FirstPlace

\* When there is nothing, no place has a member of the set.
LEMMA PlacesNone ==
    ASSUME NEW s, NEW S, NEW m \in Nat, NEW n \in Nat, Places(s, <<>>, S, m, n)
    PROVE  \A o \in (m + 1)..n : s[o] \notin S
<1>1. Len(<<>>) = 0 /\ 1..0 = {}
  BY EmptySeq
<1> QED BY <1>1 DEF Places
=============================================================================
