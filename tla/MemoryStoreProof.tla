-------------------------- MODULE MemoryStoreProof --------------------------
(***************************************************************************)
(* Proofs about MemoryStore for every set of keys, values and writers and   *)
(* every capacity.                                                          *)
(***************************************************************************)
EXTENDS MemoryStore, Counting

-----------------------------------------------------------------------------
(* Removing a key *)

Unique(m) == \A i, j \in DOMAIN m : m[i].key = m[j].key => i = j
Has(m, key) == \E i \in DOMAIN m : m[i].key = key

\* Removing a key leaves every entry of another key and no entry of that key, and only
\* shortens the store; keys that were unique stay unique.
LEMMA RemoveKeyKeeps ==
    ASSUME NEW m \in Seq(Entries), NEW key
    PROVE  LET r == RemoveKey(m, key)
           IN  /\ r \in Seq(Entries) /\ Len(r) <= Len(m)
               /\ Has(m, key) => Len(r) < Len(m)
               /\ ~Has(r, key)
               /\ \A i \in DOMAIN m : m[i].key # key => \E j \in DOMAIN r : r[j] = m[i]
               /\ \A j \in DOMAIN r : \E i \in DOMAIN m : r[j] = m[i]
               /\ Unique(m) => Unique(r)
<1> DEFINE L == Len(m)
           filtered[n \in 0..L] ==
               IF n = 0 THEN <<>>
               ELSE IF m[n].key = key THEN filtered[n - 1] ELSE Append(filtered[n - 1], m[n])
           step == [n \in 1..L |-> [q \in Seq(Entries) |-> IF m[n].key = key THEN q ELSE Append(q, m[n])]]
<1>1. L \in Nat /\ DOMAIN m = 1..L /\ \A n \in 1..L : m[n] \in Entries
  OBVIOUS
<1>2. step \in [1..L -> [Seq(Entries) -> Seq(Entries)]]
  BY <1>1
<1>3. \E g : g = [n \in 0..L |-> IF n = 0 THEN <<>>
                                ELSE IF m[n].key = key THEN g[n - 1] ELSE Append(g[n - 1], m[n])]
  <2> DEFINE S == Seq(Entries)
             none == <<>>
  <2>0. none \in S /\ step \in [1..L -> [S -> S]] /\ L \in Nat
    BY <1>1, <1>2
  <2> HIDE DEF filtered, step, L, none, S
  <2>1. PICK g \in [0..L -> S] : g[0] = none /\ \A n \in 1..L : g[n] = step[n][g[n - 1]]
    <3>1. Recursion(S, L, none, step)
      BY <2>0, RecursionExists
    <3> QED BY <3>1 DEF Recursion
  <2>2. \A n \in 0..L : g[n] = IF n = 0 THEN <<>>
                              ELSE IF m[n].key = key THEN g[n - 1] ELSE Append(g[n - 1], m[n])
    <3> TAKE n \in 0..L
    <3>1. CASE n = 0
      BY <2>1, <3>1 DEF none
    <3>2. CASE n # 0
      <4>1. n \in 1..L /\ n - 1 \in 0..L
        BY <1>1, <3>2
      <4> QED BY <2>1, <3>2, <4>1 DEF step, S
    <3> QED BY <3>1, <3>2
  <2> QED BY <2>1, <2>2
<1>4. filtered = [n \in 0..L |-> IF n = 0 THEN <<>>
                    ELSE IF m[n].key = key THEN filtered[n - 1] ELSE Append(filtered[n - 1], m[n])]
  BY <1>3
<1>5. RemoveKey(m, key) = filtered[L]
  BY DEF RemoveKey
<1> HIDE DEF filtered, step
<1>6. /\ filtered[0] = <<>>
      /\ \A n \in 1..L : filtered[n] = IF m[n].key = key THEN filtered[n - 1]
                                       ELSE Append(filtered[n - 1], m[n])
  <2> HIDE DEF L
  <2>1. 0 \in 0..L /\ \A n \in 1..L : n \in 0..L /\ n # 0
    BY <1>1
  <2> QED BY <1>4, <2>1
<1> DEFINE Good(n) == LET r == filtered[n]
                      IN  /\ r \in Seq(Entries) /\ Len(r) <= n
                          /\ (\E i \in 1..n : m[i].key = key) => Len(r) < n
                          /\ ~Has(r, key)
                          /\ \A i \in 1..n : m[i].key # key => \E j \in DOMAIN r : r[j] = m[i]
                          /\ \A j \in DOMAIN r : \E i \in 1..n : r[j] = m[i]
                          /\ Unique(m) => Unique(r)
           T == {n \in Nat : n <= L => Good(n)}
<1>7. 0 \in T
  <2>1. filtered[0] = <<>> /\ 1..0 = {} /\ DOMAIN <<>> = {} /\ <<>> \in Seq(Entries) /\ Len(<<>>) = 0
    BY <1>6
  <2>2. Good(0)
    BY <2>1 DEF Has, Unique
  <2> QED BY <2>2
<1>8. ASSUME NEW n \in T PROVE n + 1 \in T
  <2> SUFFICES ASSUME n + 1 <= L PROVE Good(n + 1)
    OBVIOUS
  <2> DEFINE r == filtered[n]
             q == filtered[n + 1]
  <2>1. n \in Nat /\ n + 1 \in 1..L /\ Good(n) /\ n + 1 \in DOMAIN m /\ 1..n \subseteq DOMAIN m
    BY <1>1
  <2>2. q = IF m[n + 1].key = key THEN r ELSE Append(r, m[n + 1])
    BY <1>6, <2>1
  <2>3. 1..(n + 1) = 1..n \cup {n + 1}
    BY <2>1
  <2> HIDE DEF r, q
  <2>4. CASE m[n + 1].key = key
    BY <2>1, <2>2, <2>3, <2>4 DEF r, q
  <2>5. CASE m[n + 1].key # key
    <3>1. q = Append(r, m[n + 1]) /\ r \in Seq(Entries) /\ m[n + 1] \in Entries /\ Len(r) \in Nat
      BY <1>1, <2>1, <2>2, <2>5 DEF r
    <3>2. /\ q \in Seq(Entries) /\ Len(q) = Len(r) + 1 /\ q[Len(r) + 1] = m[n + 1]
          /\ Len(r) + 1 \in DOMAIN q
          /\ \A j \in DOMAIN r : j \in DOMAIN q /\ q[j] = r[j]
          /\ \A j \in DOMAIN q : j = Len(r) + 1 \/ j \in DOMAIN r
      BY <3>1
    <3>3. Len(q) <= n + 1 /\ ((\E i \in 1..(n + 1) : m[i].key = key) => Len(q) < n + 1)
      <4>1. Len(r) <= n /\ ((\E i \in 1..n : m[i].key = key) => Len(r) < n)
        BY <2>1 DEF r
      <4> QED BY <2>1, <2>3, <2>5, <3>1, <3>2, <4>1
    <3>4. ~Has(q, key)
      BY <2>1, <2>5, <3>2 DEF Has, r
    <3>5. \A i \in 1..(n + 1) : m[i].key # key => \E j \in DOMAIN q : q[j] = m[i]
      <4>1. \A i \in 1..n : m[i].key # key => \E j \in DOMAIN r : r[j] = m[i]
        BY <2>1 DEF r
      <4> QED BY <2>3, <3>2, <4>1
    <3>6. \A j \in DOMAIN r : \E i \in 1..n : r[j] = m[i]
      BY <2>1 DEF r
    <3>7. \A j \in DOMAIN q : \E i \in 1..(n + 1) : q[j] = m[i]
      BY <2>3, <3>2, <3>6
    <3>8. Unique(m) => Unique(q)
      <4> SUFFICES ASSUME Unique(m), NEW i \in DOMAIN q, NEW j \in DOMAIN q, q[i].key = q[j].key
                   PROVE  i = j
        BY DEF Unique
      <4>1. Unique(r)
        BY <2>1 DEF r
      <4>2. \A k \in DOMAIN r : r[k].key # m[n + 1].key
        <5> SUFFICES ASSUME NEW k \in DOMAIN r, r[k].key = m[n + 1].key PROVE FALSE
          OBVIOUS
        <5>1. PICK o \in 1..n : r[k] = m[o]
          BY <3>6
        <5>2. o \in DOMAIN m /\ o # n + 1
          BY <2>1
        <5> QED BY <2>1, <5>1, <5>2 DEF Unique
      <4> QED BY <3>2, <4>1, <4>2 DEF Unique
    <3> QED BY <3>2, <3>3, <3>4, <3>5, <3>7, <3>8 DEF q
  <2> QED BY <2>4, <2>5
<1>9. T = Nat
  <2> HIDE DEF Good
  <2> QED BY <1>7, <1>8, Inductive
<1>10. Good(L)
  BY <1>1, <1>9
<1> QED BY <1>1, <1>5, <1>10 DEF Has

-----------------------------------------------------------------------------
(* Saving an item *)

\* Only the root's entry, which is put first whatever the capacity, is one too many.
Bounded(m) == Len(m) <= MaxEntries \/ (Len(m) = MaxEntries + 1 /\ Has(m, RootKey))

Stores == {m \in Seq(Entries) : Bounded(m) /\ Unique(m)}

\* An entry put before entries of other keys.
LEMMA PutFirst ==
    ASSUME NEW r \in Seq(Entries), NEW e \in Entries, Unique(r), ~Has(r, e.key)
    PROVE  LET new == <<e>> \o r
           IN  /\ new \in Seq(Entries) /\ Len(new) = Len(r) + 1 /\ Unique(new)
               /\ new[1] = e /\ 1 \in DOMAIN new
               /\ \A i \in DOMAIN r : i + 1 \in DOMAIN new /\ new[i + 1] = r[i]
               /\ \A i \in DOMAIN new : i = 1 \/ (i - 1 \in DOMAIN r /\ new[i] = r[i - 1])
<1> DEFINE new == <<e>> \o r
<1>1. /\ new \in Seq(Entries) /\ Len(new) = Len(r) + 1 /\ new[1] = e /\ 1 \in DOMAIN new
      /\ \A i \in DOMAIN r : i + 1 \in DOMAIN new /\ new[i + 1] = r[i]
      /\ \A i \in DOMAIN new : i = 1 \/ (i - 1 \in DOMAIN r /\ new[i] = r[i - 1])
  OBVIOUS
<1>2. Unique(new)
  <2> SUFFICES ASSUME NEW i \in DOMAIN new, NEW j \in DOMAIN new, new[i].key = new[j].key
               PROVE  i = j
    BY DEF Unique
  <2>1. i \in Int /\ j \in Int
    BY <1>1
  <2> HIDE DEF new
  <2>2. CASE i = 1 \/ j = 1
    BY <1>1, <2>2 DEF Has
  <2>3. CASE i # 1 /\ j # 1
    <3>1. i - 1 = j - 1
      BY <1>1, <2>3 DEF Unique
    <3> QED BY <2>1, <3>1
  <2> QED BY <2>2, <2>3
<1> QED BY <1>1, <1>2

LEMMA UpsertKeeps ==
    ASSUME NEW m \in Stores, NEW item \in Item
    PROVE  Upsert(m, item) \in Stores
<1> DEFINE e == Entry(item.key, <<item.value>>)
           r == RemoveKey(m, item.key)
           new == <<e>> \o r
<1>1. m \in Seq(Entries) /\ Bounded(m) /\ Unique(m)
  BY DEF Stores
<1>2. e \in Entries /\ e.key = item.key /\ MaxEntries \in Nat \ {0}
  BY CapacityAssumption DEF Entry, Entries, Item
<1>3. r \in Seq(Entries) /\ Unique(r) /\ ~Has(r, item.key)
  BY <1>1, RemoveKeyKeeps
<1>4. Upsert(m, item) = IF Len(new) > MaxEntries THEN SubSeq(new, 1, MaxEntries) ELSE new
  BY DEF Upsert
<1> HIDE DEF r, e
<1>5. new \in Seq(Entries) /\ Unique(new)
  BY <1>2, <1>3, PutFirst
<1> HIDE DEF new
<1>6. CASE Len(new) > MaxEntries
  <2> DEFINE kept == SubSeq(new, 1, MaxEntries)
  <2>1. /\ kept \in Seq(Entries) /\ Len(kept) = MaxEntries
        /\ \A i \in DOMAIN kept : i \in DOMAIN new /\ kept[i] = new[i]
    BY <1>2, <1>5, <1>6
  <2>2. Unique(kept)
    BY <1>5, <2>1 DEF Unique
  <2>3. Upsert(m, item) = kept
    BY <1>4, <1>6
  <2> HIDE DEF kept
  <2> QED BY <1>2, <2>1, <2>2, <2>3 DEF Stores, Bounded
<1>7. CASE ~(Len(new) > MaxEntries)
  BY <1>2, <1>4, <1>5, <1>7 DEF Stores, Bounded
<1> QED BY <1>6, <1>7

\* Putting the changed entry of a key the store has first keeps its length and its keys.
LEMMA MergeKeeps ==
    ASSUME NEW m \in Stores, NEW item \in Item
    PROVE  MergeEntry(m, item) \in Stores
<1> DEFINE having == {i \in DOMAIN m : m[i].key = item.key}
           at == CHOOSE i \in having : \A j \in having : i <= j
           parts == m[at].value
           e == Entry(item.key, Append(parts, item.value))
           r == RemoveKey(m, item.key)
           new == <<e>> \o r
<1>1. m \in Seq(Entries) /\ Bounded(m) /\ Unique(m)
  BY DEF Stores
<1>2. CASE having = {}
  BY <1>2, UpsertKeeps DEF MergeEntry
<1>3. CASE having # {}
  <2>1. PICK i \in DOMAIN m : m[i].key = item.key
    BY <1>3
  <2>2. having = {i}
    BY <1>1, <2>1 DEF Unique
  <2>3. at = i
    <3>1. i <= i
      BY <1>1
    <3> QED BY <2>2, <3>1
  <2>4. e \in Entries /\ e.key = item.key /\ item.key # RootKey
    <3>1. m[i] \in Entries
      BY <1>1
    <3>2. parts \in Seq(Values \cup {RootKey}) /\ item.value \in Values /\ item.key \in Keys
      BY <2>3, <3>1 DEF Entries, Item
    <3>3. Append(parts, item.value) \in Seq(Values \cup {RootKey})
      BY <3>2
    <3> HIDE DEF parts
    <3> QED BY <3>2, <3>3, KeysAssumption DEF Entry, Entries
  <2>5. /\ r \in Seq(Entries) /\ Unique(r) /\ ~Has(r, item.key) /\ Len(r) < Len(m)
        /\ \A k \in DOMAIN m : m[k].key # item.key => \E j \in DOMAIN r : r[j] = m[k]
    BY <1>1, <2>1, RemoveKeyKeeps DEF Has
  <2>6. MergeEntry(m, item) \in {m, new}
    BY <1>3 DEF MergeEntry
  <2> HIDE DEF e, r
  <2>7. /\ new \in Seq(Entries) /\ Unique(new) /\ Len(new) = Len(r) + 1
        /\ \A k \in DOMAIN r : k + 1 \in DOMAIN new /\ new[k + 1] = r[k]
    BY <2>4, <2>5, PutFirst
  <2> HIDE DEF new
  <2>8. Has(m, RootKey) => Has(new, RootKey)
    BY <2>4, <2>5, <2>7 DEF Has
  <2>9. Len(new) <= Len(m) /\ Len(new) \in Nat /\ Len(m) \in Nat
    BY <1>1, <2>5, <2>7
  <2>10. Bounded(new)
    BY <1>1, <2>8, <2>9, CapacityAssumption DEF Bounded
  <2> QED BY <2>6, <2>7, <2>10 DEF Stores
<1> QED BY <1>2, <1>3

LEMMA RootKeeps ==
    ASSUME NEW m \in Stores
    PROVE  WithRoot(m) \in Stores
<1> DEFINE e == Entry(RootKey, <<RootKey>>)
           r == RemoveKey(m, RootKey)
           new == <<e>> \o r
<1>1. m \in Seq(Entries) /\ Bounded(m) /\ Unique(m)
  BY DEF Stores
<1>2. e \in Entries /\ e.key = RootKey
  BY DEF Entry, Entries
<1>3. /\ r \in Seq(Entries) /\ Unique(r) /\ ~Has(r, RootKey) /\ Len(r) <= Len(m)
      /\ Has(m, RootKey) => Len(r) < Len(m)
  BY <1>1, RemoveKeyKeeps
<1>4. WithRoot(m) = new
  BY DEF WithRoot
<1> HIDE DEF e, r
<1>5. new \in Seq(Entries) /\ Unique(new) /\ Len(new) = Len(r) + 1 /\ Has(new, RootKey)
  BY <1>2, <1>3, PutFirst DEF Has
<1> HIDE DEF new
<1>6. Len(r) \in Nat /\ Len(m) \in Nat /\ MaxEntries \in Nat
  BY <1>1, <1>3, CapacityAssumption
<1>7. Bounded(new)
  BY <1>1, <1>3, <1>5, <1>6 DEF Bounded
<1> QED BY <1>4, <1>5, <1>7 DEF Stores

\* Whatever a call asks for, a store stays one: its items are saved one after the other.
LEMMA ChangedKeeps ==
    ASSUME NEW m \in Stores, NEW c \in Call
    PROVE  Changed(m, c) \in Stores
<1>1. m \in Seq(Entries) /\ Bounded(m) /\ Unique(m)
  BY DEF Stores
<1>2. CASE c.kind = "delete"
  <2> DEFINE key == c.key
             r == RemoveKey(m, key)
  <2> HIDE DEF key
  <2>1. /\ r \in Seq(Entries) /\ Unique(r) /\ Len(r) <= Len(m)
        /\ \A i \in DOMAIN m : m[i].key # key => \E j \in DOMAIN r : r[j] = m[i]
        /\ Has(m, key) => Len(r) < Len(m)
    BY <1>1, RemoveKeyKeeps DEF Has
  <2>2. Changed(m, c) = r
    BY <1>2 DEF Changed, key
  <2> HIDE DEF r
  <2>3. Len(r) \in Nat /\ Len(m) \in Nat /\ MaxEntries \in Nat
    BY <1>1, <2>1, CapacityAssumption
  <2>4. Has(m, RootKey) => Has(r, RootKey) \/ Len(r) < Len(m)
    BY <2>1 DEF Has
  <2>5. Bounded(r)
    BY <1>1, <2>1, <2>3, <2>4 DEF Bounded
  <2> QED BY <2>1, <2>2, <2>5 DEF Stores
<1>3. CASE c.kind # "delete"
  <2> DEFINE L == Len(c.items)
             saved[n \in 0..L] == IF n = 0 THEN m ELSE SaveItem(saved[n - 1], c.items[n])
             step == [n \in 1..L |-> [q \in Stores |-> SaveItem(q, c.items[n])]]
  <2>1. c.items \in UNION {[1..n -> Item] : n \in 1..2}
    BY <1>3 DEF Call
  <2>2. c.items \in Seq(Item) /\ L \in Nat /\ \A n \in 1..L : c.items[n] \in Item
    <3>1. PICK n \in 1..2 : c.items \in [1..n -> Item]
      BY <2>1
    <3>2. c.items \in Seq(Item)
      BY <3>1
    <3> QED BY <3>2
  <2>3. step \in [1..L -> [Stores -> Stores]]
    BY <2>2, UpsertKeeps, MergeKeeps DEF SaveItem
  <2> HIDE DEF step
  <2>4. Recursion(Stores, L, m, step)
    BY <2>2, <2>3, RecursionExists
  <2>5. PICK g \in [0..L -> Stores] : g[0] = m /\ \A n \in 1..L : g[n] = step[n][g[n - 1]]
    BY <2>4 DEF Recursion
  <2>6. \A n \in 0..L : g[n] = IF n = 0 THEN m ELSE SaveItem(g[n - 1], c.items[n])
    <3> TAKE n \in 0..L
    <3>1. CASE n = 0
      BY <2>5, <3>1
    <3>2. CASE n # 0
      <4>1. n \in 1..L /\ n - 1 \in 0..L
        BY <2>2, <3>2
      <4> QED BY <2>5, <3>2, <4>1 DEF step
    <3> QED BY <3>1, <3>2
  <2>7. g = [n \in 0..L |-> IF n = 0 THEN m ELSE SaveItem(g[n - 1], c.items[n])]
    BY <2>5, <2>6
  <2>8. saved = [n \in 0..L |-> IF n = 0 THEN m ELSE SaveItem(saved[n - 1], c.items[n])]
    BY <2>7
  <2>9. Changed(m, c) = saved[L]
    BY <1>3 DEF Changed
  <2> HIDE DEF saved
  <2> DEFINE T == {n \in Nat : n <= L => saved[n] \in Stores}
  <2>10. 0 \in T /\ \A n \in T : n + 1 \in T
    <3>1. saved[0] = m /\ 0 \in 0..L
      BY <2>2, <2>8
    <3>2. ASSUME NEW n \in T, n + 1 <= L PROVE saved[n + 1] \in Stores
      <4>1. n \in Nat /\ n <= L /\ n + 1 \in 1..L /\ n + 1 # 0 /\ (n + 1) - 1 = n
        BY <2>2, <3>2
      <4>2. saved[n] \in Stores /\ c.items[n + 1] \in Item
        BY <2>2, <4>1
      <4>3. saved[n + 1] = SaveItem(saved[n], c.items[n + 1])
        BY <2>2, <2>8, <4>1
      <4> QED BY <4>2, <4>3, UpsertKeeps, MergeKeeps DEF SaveItem
    <3> QED BY <3>1, <3>2
  <2>11. T = Nat
    BY <2>10, Inductive
  <2> QED BY <2>2, <2>9, <2>11
<1> QED BY <1>2, <1>3

-----------------------------------------------------------------------------
(* The invariant *)

StoreInv ==
    /\ file = Garbage \/ file \in Stores
    /\ pc \in {"idle", "loaded", "fill"} /\ call \in Call /\ mem \in Stores /\ calls \in 0..MaxCalls
    /\ ppc \in [Persisters -> {"idle", "loaded", "fill"}]
    /\ DOMAIN pmem = Persisters /\ \A p \in Persisters : pmem[p] \in Stores
    /\ serial \in BOOLEAN

LEMMA NoneIsStore == <<>> \in Stores
  BY CapacityAssumption DEF Stores, Bounded, Unique, Has

LEMMA StoreInit == Init => StoreInv
  BY NoneIsStore, CapacityAssumption DEF Init, StoreInv

LEMMA StoreStep == StoreInv /\ [Next]_vars => StoreInv'
<1> SUFFICES ASSUME StoreInv, [Next]_vars PROVE StoreInv'
  OBVIOUS
<1> USE DEF StoreInv
<1>1. Load \in Stores
  BY NoneIsStore DEF Load
<1>2. CASE Handle
  BY <1>1, <1>2, CapacityAssumption DEF Handle, persistVars
<1>3. CASE Save
  BY <1>3, NoneIsStore DEF Save, Emptied, persistVars
<1>4. CASE SaveFill
  BY <1>4, ChangedKeeps DEF SaveFill, FilledWith, persistVars
<1>5. CASE SaveFails
  BY <1>5 DEF SaveFails, persistVars
<1>6. CASE Restart
  BY <1>6 DEF Restart
<1>7. ASSUME NEW p \in Persisters, Persist(p) PROVE StoreInv'
  BY <1>1, <1>7 DEF Persist, toolVars
<1>8. ASSUME NEW p \in Persisters, PersistWrite(p) PROVE StoreInv'
  BY <1>8, NoneIsStore DEF PersistWrite, Emptied, toolVars
<1>9. ASSUME NEW p \in Persisters, PersistFill(p) PROVE StoreInv'
  BY <1>9, RootKeeps DEF PersistFill, FilledWith, toolVars
<1>10. ASSUME NEW p \in Persisters, PersistFails(p) PROVE StoreInv'
  BY <1>10 DEF PersistFails, toolVars
<1>11. CASE UNCHANGED vars
  BY <1>11 DEF vars, toolVars, persistVars
<1> QED BY <1>2, <1>3, <1>4, <1>5, <1>6, <1>7, <1>8, <1>9, <1>10, <1>11 DEF Next

LEMMA StoreInvariant == Spec => []StoreInv
  BY StoreInit, StoreStep, PTL DEF Spec

\* Every variable keeps its range, and no store grows beyond the capacity by more than the
\* root's entry, for every capacity and number of writers (memory/tool.go:505-519,
\* server.go:960-978).
THEOREM TypeCorrect == Spec => []TypeOK
<1>1. StoreInv => TypeOK
  BY CapacityAssumption DEF StoreInv, TypeOK, Store, Stores, Bounded
<1> QED BY <1>1, StoreInvariant, PTL

\* However the tool and the goroutines that record the root overlap, and wherever one of
\* them fails or is killed, a store that loads has one entry per key
\* (memory/tool.go:505-563, server.go:960-978).
THEOREM KeysStayUnique == Spec => []KeysUnique
<1>1. StoreInv => KeysUnique
  BY DEF StoreInv, KeysUnique, Stores, Unique
<1> QED BY <1>1, StoreInvariant, PTL

-----------------------------------------------------------------------------
(* The store as a map *)

KeysOf(m) == {m[i].key : i \in DOMAIN m}

\* The map of a store with one entry per key has the value of every entry.
LEMMA MapHas ==
    ASSUME NEW m \in Seq(Entries), Unique(m)
    PROVE  /\ DOMAIN AsMap(m) = KeysOf(m)
           /\ \A i \in DOMAIN m : AsMap(m)[m[i].key] = m[i].value
<1>1. \A i \in DOMAIN m : (CHOOSE j \in DOMAIN m : m[j].key = m[i].key) = i
  BY DEF Unique
<1> QED BY <1>1 DEF AsMap, KeysOf

\* Maps of the same keys that have the values of the store's entries are its map.
LEMMA MapIs ==
    ASSUME NEW m \in Seq(Entries), Unique(m), NEW D, NEW f, f = [k \in D |-> f[k]], D = KeysOf(m),
           \A i \in DOMAIN m : f[m[i].key] = m[i].value
    PROVE  AsMap(m) = f
<1>1. \A k \in D : AsMap(m)[k] = f[k]
  <2> TAKE k \in D
  <2>1. PICK i \in DOMAIN m : k = m[i].key
    BY DEF KeysOf
  <2> QED BY <2>1, MapHas
<1>2. AsMap(m) = [k \in D |-> AsMap(m)[k]]
  BY MapHas DEF AsMap
<1> QED BY <1>1, <1>2

\* Removing a key from the store removes it from the map, and nothing else.
LEMMA RemoveKeyMap ==
    ASSUME NEW m \in Seq(Entries), Unique(m), NEW key
    PROVE  AsMap(RemoveKey(m, key)) = Promise!Without(AsMap(m), {key})
<1> DEFINE r == RemoveKey(m, key)
           f == Promise!Without(AsMap(m), {key})
           D == DOMAIN AsMap(m) \ {key}
<1>1. /\ r \in Seq(Entries) /\ Unique(r) /\ ~Has(r, key)
      /\ \A i \in DOMAIN m : m[i].key # key => \E j \in DOMAIN r : r[j] = m[i]
      /\ \A j \in DOMAIN r : \E i \in DOMAIN m : r[j] = m[i]
  BY RemoveKeyKeeps
<1> HIDE DEF r
<1>2. DOMAIN AsMap(m) = KeysOf(m) /\ \A i \in DOMAIN m : AsMap(m)[m[i].key] = m[i].value
  BY MapHas
<1>3. D = KeysOf(r)
  BY <1>1, <1>2 DEF KeysOf, Has
<1>4. f = [k \in D |-> AsMap(m)[k]]
  BY DEF Promise!Without
<1> HIDE DEF f, D
<1>5. \A j \in DOMAIN r : f[r[j].key] = r[j].value
  <2> TAKE j \in DOMAIN r
  <2>1. PICK i \in DOMAIN m : r[j] = m[i]
    BY <1>1
  <2>2. r[j].key \in D
    BY <1>3 DEF KeysOf
  <2> QED BY <1>2, <1>4, <2>1, <2>2
<1>6. f = [k \in D |-> f[k]]
  BY <1>4
<1>7. AsMap(r) = f
  BY <1>1, <1>3, <1>5, <1>6, MapIs
<1> QED BY <1>7 DEF r, f

\* An entry put before those of other keys adds its key to the map.
LEMMA PutFirstMap ==
    ASSUME NEW r \in Seq(Entries), NEW e \in Entries, Unique(r), ~Has(r, e.key)
    PROVE  AsMap(<<e>> \o r) = Promise!With(AsMap(r), e.key, e.value)
<1> DEFINE new == <<e>> \o r
           D == DOMAIN AsMap(r) \cup {e.key}
           f == Promise!With(AsMap(r), e.key, e.value)
<1>1. /\ new \in Seq(Entries) /\ Unique(new)
      /\ new[1] = e /\ 1 \in DOMAIN new
      /\ \A i \in DOMAIN r : i + 1 \in DOMAIN new /\ new[i + 1] = r[i]
      /\ \A i \in DOMAIN new : i = 1 \/ (i - 1 \in DOMAIN r /\ new[i] = r[i - 1])
  BY PutFirst
<1> HIDE DEF new
<1>2. DOMAIN AsMap(r) = KeysOf(r) /\ \A i \in DOMAIN r : AsMap(r)[r[i].key] = r[i].value
  BY MapHas
<1>3. D = KeysOf(new)
  <2>1. e.key \in KeysOf(new)
    BY <1>1 DEF KeysOf
  <2>2. \A i \in DOMAIN r : r[i].key \in KeysOf(new)
    BY <1>1 DEF KeysOf
  <2>3. \A i \in DOMAIN new : new[i].key = e.key \/ new[i].key \in KeysOf(r)
    BY <1>1 DEF KeysOf
  <2> QED BY <1>2, <2>1, <2>2, <2>3 DEF KeysOf
<1>4. f = [k \in D |-> IF k = e.key THEN e.value ELSE AsMap(r)[k]]
  BY DEF Promise!With
<1> HIDE DEF f, D
<1>5. \A i \in DOMAIN new : f[new[i].key] = new[i].value
  <2> TAKE i \in DOMAIN new
  <2>1. new[i].key \in D
    BY <1>3 DEF KeysOf
  <2>2. CASE i = 1
    BY <1>1, <1>4, <2>1, <2>2
  <2>3. CASE i # 1
    <3>1. i - 1 \in DOMAIN r /\ new[i] = r[i - 1]
      BY <1>1, <2>3
    <3>2. new[i].key # e.key
      BY <3>1 DEF Has
    <3> QED BY <1>2, <1>4, <2>1, <3>1, <3>2
  <2> QED BY <2>2, <2>3
<1>6. f = [k \in D |-> f[k]]
  BY <1>4
<1>7. AsMap(new) = f
  <2>1. new \in Seq(Entries) /\ Unique(new)
    BY <1>1
  <2> QED BY <2>1, <1>3, <1>5, <1>6, MapIs
<1> QED BY <1>7 DEF new, f

\* Replacing a key's entry replaces its value in the map.
LEMMA ReplaceMap ==
    ASSUME NEW m \in Seq(Entries), Unique(m), NEW e \in Entries
    PROVE  AsMap(<<e>> \o RemoveKey(m, e.key)) = Promise!With(AsMap(m), e.key, e.value)
<1> DEFINE key == e.key
           r == RemoveKey(m, key)
<1>1. r \in Seq(Entries) /\ Unique(r) /\ ~Has(r, key)
  <2> HIDE DEF key
  <2> QED BY RemoveKeyKeeps
<1>2. AsMap(r) = Promise!Without(AsMap(m), {key})
  <2> HIDE DEF key
  <2> QED BY RemoveKeyMap
<1>3. AsMap(<<e>> \o r) = Promise!With(AsMap(r), e.key, e.value)
  BY <1>1, PutFirstMap
<1> HIDE DEF r
<1>4. DOMAIN AsMap(r) = DOMAIN AsMap(m) \ {key} /\ \A k \in DOMAIN AsMap(r) : AsMap(r)[k] = AsMap(m)[k]
  BY <1>2 DEF Promise!Without
<1>5. Promise!With(AsMap(r), e.key, e.value) = Promise!With(AsMap(m), e.key, e.value)
  BY <1>4 DEF Promise!With
<1> QED BY <1>3, <1>5 DEF r

\* As many keys as entries.
LEMMA KeysCounted ==
    ASSUME NEW m \in Seq(Entries), Unique(m)
    PROVE  IsFiniteSet(KeysOf(m)) /\ Cardinality(KeysOf(m)) = Len(m)
<1> DEFINE places == 1..Len(m)
           f == [i \in places |-> m[i].key]
<1>1. Len(m) \in Nat /\ DOMAIN m = places
  OBVIOUS
<1>2. IsFiniteSet(places) /\ Cardinality(places) = Len(m)
  BY <1>1, FS_Interval
<1>3. f \in Bijection(places, KeysOf(m))
  <2>1. f \in [places -> KeysOf(m)]
    BY <1>1 DEF KeysOf
  <2>2. \A i, j \in places : f[i] = f[j] => i = j
    BY <1>1 DEF Unique
  <2>3. \A k \in KeysOf(m) : \E i \in places : f[i] = k
    BY <1>1 DEF KeysOf
  <2> HIDE DEF f
  <2> QED BY <2>1, <2>2, <2>3 DEF Bijection, Injection, IsInjective, Surjection
<1> QED BY <1>2, <1>3, FS_Bijection DEF ExistsBijection

\* An upsert gives the key its new value, and forgets other keys only when there is no room.
LEMMA UpsertMap ==
    ASSUME NEW m \in Stores, NEW item \in Item
    PROVE  LET new == Promise!With(AsMap(m), item.key, <<item.value>>)
               excess == Cardinality(DOMAIN new) - MaxEntries
           IN  \E gone \in SUBSET (DOMAIN new \ {item.key}) :
                   /\ Cardinality(gone) = IF excess > 0 THEN excess ELSE 0
                   /\ AsMap(Upsert(m, item)) = Promise!Without(new, gone)
<1> DEFINE e == Entry(item.key, <<item.value>>)
           q == <<e>> \o RemoveKey(m, item.key)
           new == Promise!With(AsMap(m), item.key, <<item.value>>)
           kept == SubSeq(q, 1, MaxEntries)
           gone == KeysOf(q) \ KeysOf(kept)
<1>1. m \in Seq(Entries) /\ Unique(m)
  BY DEF Stores
<1>2. /\ e \in Entries /\ e.key = item.key /\ e.value = <<item.value>>
      /\ MaxEntries \in Nat \ {0}
  BY CapacityAssumption DEF Entry, Entries, Item
<1>3. AsMap(q) = new
  <2> HIDE DEF e
  <2>1. AsMap(<<e>> \o RemoveKey(m, e.key)) = Promise!With(AsMap(m), e.key, e.value)
    BY <1>1, <1>2, ReplaceMap
  <2> QED BY <1>2, <2>1
<1>4. q \in Seq(Entries) /\ Unique(q) /\ Len(q) \in Nat /\ q[1] = e /\ 1 \in DOMAIN q
  <2> DEFINE r == RemoveKey(m, item.key)
  <2>1. r \in Seq(Entries) /\ Unique(r) /\ ~Has(r, item.key)
    BY <1>1, RemoveKeyKeeps
  <2> HIDE DEF r, e
  <2>2. <<e>> \o r \in Seq(Entries) /\ Unique(<<e>> \o r) /\ (<<e>> \o r)[1] = e /\ 1 \in DOMAIN (<<e>> \o r)
    BY <1>2, <2>1, PutFirst
  <2> QED BY <2>2 DEF r
<1>5. Upsert(m, item) = IF Len(q) > MaxEntries THEN kept ELSE q
  BY DEF Upsert
<1> HIDE DEF q, e, new
<1>6. /\ DOMAIN new = KeysOf(q) /\ new = [k \in KeysOf(q) |-> new[k]]
      /\ \A i \in DOMAIN q : new[q[i].key] = q[i].value
      /\ IsFiniteSet(KeysOf(q)) /\ Cardinality(KeysOf(q)) = Len(q)
  BY <1>3, <1>4, MapHas, KeysCounted DEF AsMap
<1>7. CASE ~(Len(q) > MaxEntries)
  <2>1. Promise!Without(new, {}) = new
    BY <1>6 DEF Promise!Without
  <2>2. Cardinality({}) = 0
    BY FS_EmptySet
  <2>3. ~(Cardinality(DOMAIN new) - MaxEntries > 0)
    BY <1>2, <1>4, <1>6, <1>7
  <2> QED BY <1>3, <1>5, <1>7, <2>1, <2>2, <2>3 DEF new
<1>8. CASE Len(q) > MaxEntries
  <2>1. /\ kept \in Seq(Entries) /\ Len(kept) = MaxEntries
        /\ \A i \in DOMAIN kept : i \in DOMAIN q /\ kept[i] = q[i]
        /\ 1 \in DOMAIN kept
    BY <1>2, <1>4, <1>8
  <2> HIDE DEF kept
  <2>2. Unique(kept)
    BY <1>4, <2>1 DEF Unique
  <2>3. IsFiniteSet(KeysOf(kept)) /\ Cardinality(KeysOf(kept)) = MaxEntries
    BY <2>1, <2>2, KeysCounted
  <2>4. KeysOf(kept) \subseteq KeysOf(q) /\ item.key \in KeysOf(kept)
    BY <1>2, <1>4, <2>1 DEF KeysOf
  <2>5. Cardinality(gone) = Len(q) - MaxEntries
    <3>1. KeysOf(q) \cap KeysOf(kept) = KeysOf(kept)
      BY <2>4
    <3>2. Cardinality(gone) = Cardinality(KeysOf(q)) - Cardinality(KeysOf(q) \cap KeysOf(kept))
      BY <1>6, FS_Difference
    <3> QED BY <1>6, <2>3, <3>1, <3>2
  <2>6. DOMAIN new \ gone = KeysOf(kept)
    BY <1>6, <2>4
  <2>7. AsMap(kept) = Promise!Without(new, gone)
    <3> DEFINE f == Promise!Without(new, gone)
               D == DOMAIN new \ gone
    <3>1. f = [k \in D |-> new[k]]
      BY DEF Promise!Without
    <3>2. D = KeysOf(kept)
      BY <2>6
    <3> HIDE DEF f, D
    <3>3. \A i \in DOMAIN kept : f[kept[i].key] = kept[i].value
      BY <1>6, <2>1, <3>1, <3>2 DEF KeysOf
    <3>4. f = [k \in D |-> f[k]]
      BY <3>1
    <3>5. AsMap(kept) = f
      <4>1. kept \in Seq(Entries)
        BY <2>1
      <4> QED BY <2>2, <3>2, <3>3, <3>4, <4>1, MapIs
    <3> QED BY <3>5 DEF f
  <2>8. gone \in SUBSET (DOMAIN new \ {item.key})
    BY <1>6, <2>4
  <2>9. Cardinality(gone) = IF Cardinality(DOMAIN new) - MaxEntries > 0
                            THEN Cardinality(DOMAIN new) - MaxEntries ELSE 0
    BY <1>2, <1>4, <1>6, <1>8, <2>5
  <2> HIDE DEF gone
  <2> QED BY <1>5, <1>8, <2>7, <2>8, <2>9 DEF new
<1> QED BY <1>7, <1>8

\* The promise counts as the store does.
LEMMA SameSize == \A S : Promise!Cardinality(S) = Cardinality(S)
  BY Zenon DEF Promise!Cardinality, Cardinality, Promise!IsFiniteSet, IsFiniteSet

\* What the map becomes when an item is saved is what the memory promises.
LEMMA SaveItemMap ==
    ASSUME NEW m \in Stores, NEW item \in Item
    PROVE  AsMap(SaveItem(m, item)) \in Promise!Saved(AsMap(m), item)
<1> DEFINE having == {i \in DOMAIN m : m[i].key = item.key}
<1>1. m \in Seq(Entries) /\ Unique(m)
  BY DEF Stores
<1>2. DOMAIN AsMap(m) = KeysOf(m) /\ \A i \in DOMAIN m : AsMap(m)[m[i].key] = m[i].value
  BY <1>1, MapHas
<1>3. having = {} <=> item.key \notin DOMAIN AsMap(m)
  BY <1>2 DEF KeysOf
<1>4. CASE ~(item.merge /\ item.key \in DOMAIN AsMap(m))
  <2>1. SaveItem(m, item) = Upsert(m, item)
    BY <1>3, <1>4 DEF SaveItem, MergeEntry
  <2> DEFINE new == Promise!With(AsMap(m), item.key, <<item.value>>)
             excess == Cardinality(DOMAIN new) - MaxEntries
             size == IF excess > 0 THEN excess ELSE 0
             may == {g \in SUBSET (DOMAIN new \ {item.key}) : Cardinality(g) = size}
  <2>2. Promise!Saved(AsMap(m), item) = {Promise!Without(new, gone) : gone \in may}
    BY <1>4, SameSize, Zenon DEF Promise!Saved
  <2>3. PICK gone \in SUBSET (DOMAIN new \ {item.key}) :
          Cardinality(gone) = size /\ AsMap(Upsert(m, item)) = Promise!Without(new, gone)
    BY UpsertMap
  <2>4. gone \in may
    BY <2>3
  <2> QED BY <2>1, <2>2, <2>3, <2>4
<1>5. CASE item.merge /\ item.key \in DOMAIN AsMap(m)
  <2> DEFINE at == CHOOSE i \in having : \A j \in having : i <= j
             parts == m[at].value
             e == Entry(item.key, Append(parts, item.value))
             f == IF Contains(parts, item.value) THEN AsMap(m)
                  ELSE Promise!With(AsMap(m), item.key, Append(parts, item.value))
  <2>1. PICK i \in DOMAIN m : m[i].key = item.key
    BY <1>3, <1>5
  <2>2. having = {i}
    BY <1>1, <2>1 DEF Unique
  <2>3. at = i
    <3>1. i <= i
      BY <1>1
    <3> QED BY <2>2, <3>1
  <2>4. parts = AsMap(m)[item.key]
    BY <1>2, <2>1, <2>3
  <2>5. SaveItem(m, item) = IF Contains(parts, item.value) THEN m ELSE <<e>> \o RemoveKey(m, item.key)
    BY <1>3, <1>5 DEF SaveItem, MergeEntry
  <2>6. Promise!Saved(AsMap(m), item) = {f}
    <3>1. \A s, x : Promise!Contains(s, x) = Contains(s, x)
      BY DEF Promise!Contains, Contains
    <3> HIDE DEF parts
    <3> QED BY <1>5, <2>4, <3>1 DEF Promise!Saved
  <2>7. e \in Entries /\ e.key = item.key /\ e.value = Append(parts, item.value)
    <3>1. m[i] \in Entries
      BY <1>1
    <3>2. parts \in Seq(Values \cup {RootKey}) /\ item.value \in Values /\ item.key \in Keys
      BY <2>3, <3>1 DEF Entries, Item
    <3>3. Append(parts, item.value) \in Seq(Values \cup {RootKey})
      BY <3>2
    <3> HIDE DEF parts
    <3> QED BY <3>2, <3>3 DEF Entry, Entries
  <2>8. AsMap(<<e>> \o RemoveKey(m, item.key)) = Promise!With(AsMap(m), item.key, Append(parts, item.value))
    <3> HIDE DEF e, parts
    <3>1. AsMap(<<e>> \o RemoveKey(m, e.key)) = Promise!With(AsMap(m), e.key, e.value)
      BY <1>1, <2>7, ReplaceMap
    <3> QED BY <2>7, <3>1
  <2> HIDE DEF parts, e
  <2>9. AsMap(SaveItem(m, item)) = f
    BY <2>5, <2>8
  <2> QED BY <2>6, <2>9
<1> QED BY <1>4, <1>5

\* The items of a call are saved one after the other, in the store as in what it promises.
LEMMA SaveMap ==
    ASSUME NEW m \in Stores, NEW c \in Call, c.kind = "save", Known = AsMap(m), Known' = AsMap(Changed(m, c))
    PROVE  Promise!Remember(c.items)
<1> DEFINE items == c.items
           L == Len(items)
           saved[n \in 0..L] == IF n = 0 THEN m ELSE SaveItem(saved[n - 1], items[n])
           after(S, n) == UNION {Promise!Saved(k, items[n]) : k \in S}
           maps[n \in 0..L] == IF n = 0 THEN {Known} ELSE after(maps[n - 1], n)
<1>1. L \in 1..2 /\ \A n \in 1..L : items[n] \in Item
  <2>1. c.items \in UNION {[1..n -> Item] : n \in 1..2}
    BY DEF Call
  <2>2. PICK n \in 1..2 : c.items \in [1..n -> Item]
    BY <2>1
  <2>3. c.items \in Seq(Item) /\ L = n
    BY <2>2
  <2> QED BY <2>3
<1>2. Changed(m, c) = saved[L]
  BY DEF Changed
<1>3. Promise!Remember(items) <=> Known' \in maps[L]
  BY DEF Promise!Remember
<1>0. \A S, n, k : k \in S => Promise!Saved(k, items[n]) \subseteq after(S, n)
  OBVIOUS
<1> HIDE DEF items, saved, maps, L, after
<1>4. saved = [n \in 0..L |-> IF n = 0 THEN m ELSE SaveItem(saved[n - 1], items[n])]
  <2> DEFINE s1 == SaveItem(m, items[1])
             g == [n \in 0..L |-> IF n = 0 THEN m ELSE IF n = 1 THEN s1 ELSE SaveItem(s1, items[2])]
  <2>1. g = [n \in 0..L |-> IF n = 0 THEN m ELSE SaveItem(g[n - 1], items[n])]
    <3> SUFFICES ASSUME NEW n \in 0..L PROVE g[n] = IF n = 0 THEN m ELSE SaveItem(g[n - 1], items[n])
      OBVIOUS
    <3>1. n = 0 \/ n = 1 \/ (n = 2 /\ 1 \in 0..L)
      BY <1>1
    <3> QED BY <1>1, <3>1
  <2> QED BY <2>1 DEF saved
<1>5. maps = [n \in 0..L |-> IF n = 0 THEN {Known} ELSE after(maps[n - 1], n)]
  <2> DEFINE m1 == after({Known}, 1)
             g == [n \in 0..L |-> IF n = 0 THEN {Known} ELSE IF n = 1 THEN m1 ELSE after(m1, 2)]
  <2>1. g = [n \in 0..L |-> IF n = 0 THEN {Known} ELSE after(g[n - 1], n)]
    <3> SUFFICES ASSUME NEW n \in 0..L PROVE g[n] = IF n = 0 THEN {Known} ELSE after(g[n - 1], n)
      OBVIOUS
    <3>1. n = 0 \/ n = 1 \/ (n = 2 /\ 1 \in 0..L)
      BY <1>1
    <3> QED BY <1>1, <3>1
  <2> QED BY <2>1 DEF maps
<1>6. saved[0] = m /\ maps[0] = {Known}
  BY <1>1, <1>4, <1>5
<1>7. \A n \in 1..L : saved[n] = SaveItem(saved[n - 1], items[n]) /\ maps[n] = after(maps[n - 1], n)
  <2> TAKE n \in 1..L
  <2>1. n \in 0..L /\ n # 0
    BY <1>1
  <2>2. saved[n] = SaveItem(saved[n - 1], items[n])
    BY <1>4, <2>1
  <2>3. maps[n] = after(maps[n - 1], n)
    BY <1>5, <2>1
  <2> QED BY <2>2, <2>3
<1>8. ASSUME NEW n \in 1..L, saved[n - 1] \in Stores, AsMap(saved[n - 1]) \in maps[n - 1]
      PROVE  saved[n] \in Stores /\ AsMap(saved[n]) \in maps[n]
  BY <1>0, <1>1, <1>7, <1>8, SaveItemMap, UpsertKeeps, MergeKeeps DEF SaveItem
<1>9. saved[1] \in Stores /\ AsMap(saved[1]) \in maps[1]
  BY <1>1, <1>6, <1>8
<1>10. AsMap(saved[L]) \in maps[L]
  <2>1. L = 1 \/ L = 2
    BY <1>1
  <2>2. L = 2 => 2 \in 1..L /\ 2 - 1 = 1
    BY <1>1
  <2> QED BY <1>8, <1>9, <2>1, <2>2
<1> QED BY <1>2, <1>3, <1>10 DEF items

-----------------------------------------------------------------------------
(* The promise *)

Writing(p) == ppc[p] # "idle"

\* While the client leaves the writers time, one of them runs at most; what it has loaded is
\* what the file says until it empties it, and then the file is empty.
AloneInv ==
    serial =>
        /\ pc # "idle" => \A p \in Persisters : ~Writing(p)
        /\ \A p, q \in Persisters : Writing(p) /\ Writing(q) => p = q
        /\ pc = "loaded" => mem = Load
        /\ pc = "fill" => file = <<>>
        /\ \A p \in Persisters : /\ ppc[p] = "loaded" => pmem[p] = Load
                                 /\ ppc[p] = "fill" => file = <<>>

LEMMA AloneInit == Init => AloneInv
  BY DEF Init, AloneInv, Writing

LEMMA AloneStep == StoreInv /\ AloneInv /\ [Next]_vars => AloneInv'
<1> SUFFICES ASSUME StoreInv, AloneInv, [Next]_vars, serial' PROVE AloneInv'
  BY DEF AloneInv
<1> USE DEF AloneInv, Writing
<1>0. /\ serial' = serial /\ DOMAIN ppc = Persisters /\ DOMAIN pmem = Persisters
      /\ \A p \in Persisters : ppc[p] \in {"idle", "loaded", "fill"}
      /\ pc \in {"idle", "loaded", "fill"}
  <2>1. serial' = serial
    BY DEF Next, vars, Handle, Save, SaveFill, SaveFails, Restart, Persist, PersistWrite, PersistFill, PersistFails
  <2> QED BY <2>1 DEF StoreInv
<1>1. CASE Handle
  BY <1>0, <1>1 DEF Handle, MayStart, Busy, persistVars, Load
<1>2. CASE Save
  BY <1>0, <1>2 DEF Save, Emptied, persistVars, Load
<1>3. CASE SaveFill
  BY <1>0, <1>3 DEF SaveFill, persistVars, Load
<1>4. CASE SaveFails
  BY <1>0, <1>4 DEF SaveFails, persistVars, Load
<1>5. CASE Restart
  BY <1>0, <1>5 DEF Restart, Load
<1>6. ASSUME NEW p \in Persisters, Persist(p) \/ PersistWrite(p) \/ PersistFill(p) \/ PersistFails(p)
      PROVE  AloneInv'
  <2>1. /\ UNCHANGED <<pc, mem>>
        /\ DOMAIN ppc' = Persisters /\ DOMAIN pmem' = Persisters
        /\ \A q \in Persisters : q # p => ppc'[q] = ppc[q] /\ pmem'[q] = pmem[q]
    BY <1>0, <1>6 DEF Persist, PersistWrite, PersistFill, PersistFails, toolVars
  <2>2. pc = "idle" /\ \A q \in Persisters : q # p => ppc[q] = "idle"
    BY <1>0, <1>6 DEF Persist, PersistWrite, PersistFill, PersistFails, MayStart, Busy
  <2>3. /\ ppc'[p] = "loaded" => pmem'[p] = Load'
        /\ ppc'[p] = "fill" => file' = <<>>
    BY <1>0, <1>6 DEF Persist, PersistWrite, PersistFill, PersistFails, Emptied, Load
  <2> QED BY <1>0, <2>1, <2>2, <2>3
<1>7. CASE UNCHANGED vars
  BY <1>7 DEF vars, toolVars, persistVars, Load
<1> QED BY <1>1, <1>2, <1>3, <1>4, <1>5, <1>6, <1>7 DEF Next

LEMMA EmptyMap == AsMap(<<>>) = <<>>
<1>1. DOMAIN <<>> = {}
  OBVIOUS
<1>2. {<<>>[i].key : i \in DOMAIN <<>>} = {}
  BY <1>1
<1> QED BY <1>1, <1>2 DEF AsMap

\* The map that is known: what the tool has loaded while it fills the file, what the goroutine
\* has, and otherwise what the file says.
KnownAs ==
    /\ pc = "fill" => Known = AsMap(mem)
    /\ \A p \in Persisters :
          pc # "fill" /\ ppc[p] = "fill" /\ (\A q \in Persisters : ppc[q] = "fill" => q = p)
              => Known = AsMap(pmem[p])
    /\ pc # "fill" /\ (\A q \in Persisters : ppc[q] # "fill") => Known = AsMap(Load)

LEMMA KnownIs == KnownAs /\ KnownAs'
<1>1. KnownAs
  <2>1. ASSUME NEW p \in Persisters, ppc[p] = "fill", \A q \in Persisters : ppc[q] = "fill" => q = p
        PROVE  Filling = {p}
    BY <2>1 DEF Filling
  <2>2. ASSUME \A q \in Persisters : ppc[q] # "fill"
        PROVE  Filling = {}
    BY <2>2 DEF Filling
  <2>3. \A p : (CHOOSE q \in {p} : TRUE) = p
    OBVIOUS
  <2> QED BY <2>1, <2>2, <2>3 DEF Known, KnownAs
<1> QED BY <1>1, PTL

\* A call to save or to delete, the record of a root, and a writer that breaks off do what the
\* memory promises; no other step changes what is known.
LEMMA PromiseStep == StoreInv /\ AloneInv /\ serial /\ Next => Kept \/ Known' = Known
<1> SUFFICES ASSUME StoreInv, AloneInv, serial, Next PROVE Kept \/ Known' = Known
  OBVIOUS
<1>0. KnownAs /\ KnownAs'
  BY KnownIs
<1>1. /\ pc # "idle" => \A p \in Persisters : ppc[p] = "idle"
      /\ \A p, q \in Persisters : ppc[p] # "idle" /\ ppc[q] # "idle" => p = q
      /\ pc = "loaded" => mem = Load
      /\ pc = "fill" => file = <<>>
      /\ \A p \in Persisters : /\ ppc[p] = "loaded" => pmem[p] = Load
                               /\ ppc[p] = "fill" => file = <<>>
  BY DEF AloneInv, Writing
<1>2. DOMAIN ppc = Persisters /\ DOMAIN pmem = Persisters
  BY DEF StoreInv
<1>3. CASE Handle
  <2>1. UNCHANGED <<file, ppc, pmem>> /\ pc = "idle" /\ pc' = "loaded" /\ \A p \in Persisters : ppc[p] = "idle"
    BY <1>3 DEF Handle, MayStart, Busy, persistVars
  <2>2. Load' = Load
    BY <2>1 DEF Load
  <2> QED BY <1>0, <2>1, <2>2 DEF KnownAs
<1>4. CASE Save
  <2>1. UNCHANGED <<mem, ppc, pmem>> /\ pc = "loaded" /\ pc' = "fill"
    BY <1>4 DEF Save, persistVars
  <2> QED BY <1>0, <1>1, <2>1 DEF KnownAs
<1>5. CASE SaveFill
  <2>1. /\ UNCHANGED <<ppc, pmem>> /\ pc = "fill" /\ pc' = "idle" /\ file = <<>>
        /\ file' = Changed(mem, call) /\ mem \in Stores /\ call \in Call
    BY <1>1, <1>5 DEF SaveFill, persistVars, FilledWith, StoreInv
  <2>2. Load' = Changed(mem, call)
    BY <2>1, ChangedKeeps, GarbageAssumption DEF Load, Stores
  <2>3. Known = AsMap(mem) /\ Known' = AsMap(Changed(mem, call))
    BY <1>0, <1>1, <2>1, <2>2 DEF KnownAs
  <2>4. CASE call.kind = "save"
    BY <2>1, <2>3, <2>4, SaveMap DEF Kept
  <2>5. CASE call.kind # "save"
    <3>1. call.kind = "delete"
      BY <2>1, <2>5 DEF Call
    <3>2. Known' = AsMap(RemoveKey(mem, call.key))
      BY <2>3, <3>1 DEF Changed
    <3> DEFINE key == call.key
    <3> HIDE DEF key
    <3>3. AsMap(RemoveKey(mem, key)) = Promise!Without(AsMap(mem), {key})
      BY <2>1, RemoveKeyMap DEF Stores
    <3>4. Promise!Forget(call.key)
      BY <2>3, <3>2, <3>3 DEF Promise!Forget, key
    <3> QED BY <2>1, <3>1, <3>4 DEF Kept
  <2> QED BY <2>4, <2>5
<1>6. CASE SaveFails
  <2>1. UNCHANGED <<file, ppc, pmem>> /\ pc \in {"loaded", "fill"} /\ pc' = "idle"
    BY <1>6 DEF SaveFails, persistVars
  <2>2. Load' = Load
    BY <2>1 DEF Load
  <2>3. CASE pc = "loaded"
    BY <1>0, <1>1, <2>1, <2>2, <2>3 DEF KnownAs
  <2>4. CASE pc = "fill"
    <3>1. Known' = <<>>
      BY <1>0, <1>1, <2>1, <2>4, EmptyMap DEF KnownAs, Load
    <3> QED BY <1>1, <2>1, <2>4, <3>1 DEF Kept, Promise!Lose
  <2> QED BY <2>1, <2>3, <2>4
<1>7. CASE Restart
  <2>1. /\ UNCHANGED <<file, mem, pmem>> /\ pc' = "idle" /\ \A p \in Persisters : ppc'[p] = "idle"
    BY <1>7 DEF Restart
  <2>2. Load' = Load
    BY <2>1 DEF Load
  <2>3. Known' = AsMap(Load)
    BY <1>0, <2>1, <2>2 DEF KnownAs
  <2>4. CASE pc # "fill" /\ \A p \in Persisters : ppc[p] # "fill"
    BY <1>0, <2>3, <2>4 DEF KnownAs
  <2>5. CASE pc = "fill" \/ \E p \in Persisters : ppc[p] = "fill"
    <3>1. file = <<>>
      BY <1>1, <2>5
    <3>2. Known' = <<>>
      BY <2>3, <3>1, EmptyMap DEF Load
    <3> QED BY <2>1, <2>5, <3>1, <3>2 DEF Kept, Promise!Lose, Filling
  <2> QED BY <2>4, <2>5
<1>8. ASSUME NEW p \in Persisters, Persist(p) \/ PersistWrite(p) \/ PersistFill(p) \/ PersistFails(p)
      PROVE  Kept \/ Known' = Known
  <2>1. /\ pc' = pc /\ DOMAIN ppc' = Persisters /\ DOMAIN pmem' = Persisters
        /\ \A q \in Persisters : q # p => ppc'[q] = ppc[q] /\ pmem'[q] = pmem[q]
    BY <1>2, <1>8 DEF Persist, PersistWrite, PersistFill, PersistFails, toolVars
  <2>2. pc = "idle" /\ \A q \in Persisters : q # p => ppc[q] = "idle" /\ ppc'[q] = "idle"
    BY <1>1, <1>8, <2>1 DEF Persist, PersistWrite, PersistFill, PersistFails, MayStart, Busy, StoreInv
  <2>3. /\ ppc[p] = "fill" => Known = AsMap(pmem[p])
        /\ ppc[p] # "fill" => Known = AsMap(Load)
    BY <1>0, <2>2 DEF KnownAs
  <2>4. /\ ppc'[p] = "fill" => Known' = AsMap(pmem'[p])
        /\ ppc'[p] # "fill" => Known' = AsMap(Load')
    BY <1>0, <2>1, <2>2 DEF KnownAs
  <2>5. CASE Persist(p)
    <3>1. ppc[p] = "idle" /\ ppc'[p] = "loaded" /\ Load' = Load
      BY <1>2, <2>5 DEF Persist, Load
    <3> QED BY <2>3, <2>4, <3>1
  <2>6. CASE PersistWrite(p)
    <3>1. ppc[p] = "loaded" /\ ppc'[p] = "fill" /\ pmem'[p] = pmem[p] /\ pmem[p] = Load
      BY <1>1, <1>2, <2>6 DEF PersistWrite
    <3> QED BY <2>3, <2>4, <3>1
  <2>7. CASE PersistFill(p)
    <3> DEFINE e == Entry(RootKey, <<RootKey>>)
    <3>1. /\ ppc[p] = "fill" /\ ppc'[p] = "idle" /\ file = <<>> /\ file' = WithRoot(pmem[p])
          /\ pmem[p] \in Stores
      BY <1>1, <1>2, <2>7 DEF PersistFill, FilledWith, StoreInv
    <3>2. Load' = WithRoot(pmem[p])
      BY <3>1, RootKeeps, GarbageAssumption DEF Load, Stores
    <3>3. e \in Entries /\ e.key = RootKey /\ e.value = <<RootKey>>
      BY DEF Entry, Entries
    <3>4. WithRoot(pmem[p]) = <<e>> \o RemoveKey(pmem[p], RootKey)
      BY DEF WithRoot
    <3> HIDE DEF e
    <3>5. AsMap(<<e>> \o RemoveKey(pmem[p], e.key)) = Promise!With(AsMap(pmem[p]), e.key, e.value)
      BY <3>1, <3>3, ReplaceMap DEF Stores
    <3>6. Known' = Promise!With(Known, RootKey, <<RootKey>>)
      BY <2>3, <2>4, <3>1, <3>2, <3>3, <3>4, <3>5
    <3> QED BY <3>1, <3>6 DEF Kept, Promise!RecordRoot, Filling
  <2>8. CASE PersistFails(p)
    <3>1. ppc[p] \in {"loaded", "fill"} /\ ppc'[p] = "idle" /\ file' = file /\ Load' = Load
      BY <1>2, <2>8 DEF PersistFails, Load
    <3>2. CASE ppc[p] = "loaded"
      BY <2>3, <2>4, <3>1, <3>2
    <3>3. CASE ppc[p] = "fill"
      <4>1. Known' = <<>> /\ file = <<>>
        BY <1>1, <2>4, <3>1, <3>3, EmptyMap DEF Load
      <4> QED BY <3>1, <3>3, <4>1 DEF Kept, Promise!Lose, Filling
    <3> QED BY <3>1, <3>2, <3>3
  <2> QED BY <1>8, <2>5, <2>6, <2>7, <2>8
<1> QED BY <1>3, <1>4, <1>5, <1>6, <1>7, <1>8 DEF Next

\* While its writers do not overlap the store implements the memory it promises: what is known
\* changes as one call asks, forgets other keys only for lack of room, and is lost only when a
\* writer breaks off with the file emptied (memory/tool.go:225-309, 485-563,
\* server.go:960-978).
THEOREM StoreKeepsPromise == Spec => KeepsPromise
<1>1. StoreInv /\ AloneInv /\ [Next]_vars => [serial => Kept]_Known
  <2>1. ASSUME UNCHANGED vars PROVE Known' = Known
    BY <2>1 DEF vars, toolVars, persistVars, Known, Filling, Load
  <2> QED BY <2>1, PromiseStep
<1>2. Spec => [](StoreInv /\ AloneInv)
  BY StoreInit, StoreStep, AloneInit, AloneStep, PTL DEF Spec
<1> QED BY <1>1, <1>2, PTL DEF Spec, KeepsPromise
=============================================================================
