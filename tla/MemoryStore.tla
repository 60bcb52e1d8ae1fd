----------------------------- MODULE MemoryStore -----------------------------
(***************************************************************************)
(* The memory store of a project, .llm/memory.json, and its two writers:    *)
(* the memory tool (tools/memory/tool.go), whose calls the Run goroutine    *)
(* handles one after the other, and persistProjectRoot (server/server.go),  *)
(* which runs on a goroutine of its own whenever a root is settled.  Both   *)
(* load the whole store, change it in memory and write the file in place:   *)
(* the file is emptied, then filled.  Nothing keeps them apart.             *)
(*                                                                         *)
(* An entry's value is the list of the parts that were merged into it.      *)
(* A file that is missing, empty or not valid JSON loads as an empty store. *)
(***************************************************************************)
EXTENDS Integers, Sequences, FiniteSets, SequencesExt

CONSTANTS
    Keys,         \* the keys that calls name
    Values,       \* the values they give them
    RootKey,      \* the key "server.project_root"
    Garbage,      \* a file that is not valid JSON
    MaxEntries,   \* capacity of the store (source: 100)
    Persisters,   \* the goroutines that run persistProjectRoot
    MaxCalls      \* bound: calls that change the store

ASSUME KeysAssumption == RootKey \notin Keys /\ IsFiniteSet(Keys) /\ IsFiniteSet(Values)
ASSUME CapacityAssumption == MaxEntries \in Nat \ {0} /\ MaxCalls \in Nat

VARIABLES
    file,     \* the entries in the file, most recent first
    pc,       \* where the Run goroutine is in a call
    call,     \* the call
    mem,      \* the store it has loaded
    calls,    \* calls so far
    ppc,      \* where each goroutine of persistProjectRoot is
    pmem,     \* the store each has loaded
    serial    \* no two of them overlap: the client leaves the server time to settle

vars == <<file, pc, call, mem, calls, ppc, pmem, serial>>
toolVars == <<pc, call, mem, calls>>
persistVars == <<ppc, pmem>>

Item == [key : Keys, value : Values, merge : BOOLEAN]
\* A call saves one or more items, all of them merged or none, or deletes a key.
Call == [kind : {"save"}, items : {s \in UNION {[1..n -> Item] : n \in 1..2} :
                                      \A i \in DOMAIN s : s[i].merge = s[1].merge}]
            \cup [kind : {"delete"}, key : Keys \cup {RootKey}]

Entry(key, value) == [key |-> key, value |-> value]

-----------------------------------------------------------------------------
(* The store in memory *)

Load == IF file = Garbage THEN <<>> ELSE file

\* The entries of every other key, in their order.
RemoveKey(m, key) ==
    LET filtered[n \in 0..Len(m)] ==
            IF n = 0 THEN <<>>
            ELSE IF m[n].key = key THEN filtered[n - 1] ELSE Append(filtered[n - 1], m[n])
    IN  filtered[Len(m)]

\* Faulty variant: an entry with the same key stays.
UpsertTwice(m, item) ==
    LET new == <<Entry(item.key, <<item.value>>)>> \o m
    IN  IF Len(new) > MaxEntries THEN SubSeq(new, 1, MaxEntries) ELSE new

\* Faulty variant: nothing is evicted.
UpsertGrows(m, item) == <<Entry(item.key, <<item.value>>)>> \o RemoveKey(m, item.key)

\* The new entry comes first; the oldest is evicted over capacity.
Upsert(m, item) ==
    LET new == <<Entry(item.key, <<item.value>>)>> \o RemoveKey(m, item.key)
    IN  IF Len(new) > MaxEntries THEN SubSeq(new, 1, MaxEntries) ELSE new

\* Faulty variant: the merged value replaces those that were there.
MergeReplaces(m, item) == Upsert(m, item)

\* A key that exists takes another part unless it has it; any other is upserted.
MergeEntry(m, item) ==
    LET having == {i \in DOMAIN m : m[i].key = item.key}
    IN  IF having = {} THEN Upsert(m, item)
        ELSE LET parts == m[CHOOSE i \in having : \A j \in having : i <= j].value
             IN  IF Contains(parts, item.value) THEN m
                 ELSE <<Entry(item.key, Append(parts, item.value))>> \o RemoveKey(m, item.key)

SaveItem(m, item) == IF item.merge THEN MergeEntry(m, item) ELSE Upsert(m, item)

\* A call's items are saved one after the other.
Changed(m, c) ==
    IF c.kind = "delete" THEN RemoveKey(m, c.key)
    ELSE LET saved[n \in 0..Len(c.items)] == IF n = 0 THEN m ELSE SaveItem(saved[n - 1], c.items[n])
         IN  saved[Len(c.items)]

\* The root's entry is put first, whatever the capacity.
WithRoot(m) == <<Entry(RootKey, <<RootKey>>)>> \o RemoveKey(m, RootKey)

-----------------------------------------------------------------------------
Init ==
    /\ file = <<>>
    /\ pc = "idle" /\ call \in {c \in Call : c.kind = "delete" /\ c.key = RootKey}
    /\ mem = <<>> /\ calls = 0
    /\ ppc = [p \in Persisters |-> "idle"]
    /\ pmem = [p \in Persisters |-> <<>>]
    /\ serial \in BOOLEAN

Busy == pc # "idle" \/ \E p \in Persisters : ppc[p] # "idle"
MayStart == serial => ~Busy

\* os.WriteFile empties the file, then fills it.  When another writer has filled it in
\* between, the end of a longer text may stay behind.
Emptied == file' = <<>>
FilledWith(m) == file' \in IF file = <<>> THEN {m} ELSE {m, Garbage}

-----------------------------------------------------------------------------
(* The memory tool *)

Handle ==
    /\ pc = "idle" /\ MayStart /\ calls < MaxCalls
    /\ call' \in Call
    /\ mem' = Load
    /\ calls' = calls + 1
    /\ pc' = "loaded"
    /\ UNCHANGED <<file, persistVars, serial>>

Save ==
    /\ pc = "loaded"
    /\ Emptied
    /\ pc' = "fill"
    /\ UNCHANGED <<call, mem, calls, persistVars, serial>>

SaveFill ==
    /\ pc = "fill"
    /\ FilledWith(Changed(mem, call))
    /\ pc' = "idle"
    /\ UNCHANGED <<call, mem, calls, persistVars, serial>>

\* The file cannot be opened, or filled: the call returns an error.
SaveFails ==
    /\ pc \in {"loaded", "fill"}
    /\ pc' = "idle"
    /\ UNCHANGED <<file, call, mem, calls, persistVars, serial>>

-----------------------------------------------------------------------------
(* persistProjectRoot *)

Persist(p) ==
    /\ ppc[p] = "idle" /\ MayStart
    /\ pmem' = [pmem EXCEPT ![p] = Load]
    /\ ppc' = [ppc EXCEPT ![p] = "loaded"]
    /\ UNCHANGED <<file, toolVars, serial>>

PersistWrite(p) ==
    /\ ppc[p] = "loaded"
    /\ Emptied
    /\ ppc' = [ppc EXCEPT ![p] = "fill"]
    /\ UNCHANGED <<toolVars, pmem, serial>>

PersistFill(p) ==
    /\ ppc[p] = "fill"
    /\ FilledWith(WithRoot(pmem[p]))
    /\ ppc' = [ppc EXCEPT ![p] = "idle"]
    /\ UNCHANGED <<toolVars, pmem, serial>>

PersistFails(p) ==
    /\ ppc[p] \in {"loaded", "fill"}
    /\ ppc' = [ppc EXCEPT ![p] = "idle"]
    /\ UNCHANGED <<file, toolVars, pmem, serial>>

\* The server is killed and started again: what was under way is gone.
Restart ==
    /\ Busy
    /\ pc' = "idle"
    /\ ppc' = [p \in Persisters |-> "idle"]
    /\ UNCHANGED <<file, call, mem, calls, pmem, serial>>

Next == \/ Handle \/ Save \/ SaveFill \/ SaveFails \/ Restart
        \/ \E p \in Persisters : Persist(p) \/ PersistWrite(p) \/ PersistFill(p) \/ PersistFails(p)

Spec == Init /\ [][Next]_vars

-----------------------------------------------------------------------------
(* Properties *)

Entries == [key : Keys \cup {RootKey}, value : Seq(Values \cup {RootKey})]
Store(m) == m \in Seq(Entries) /\ Len(m) <= MaxEntries + 1

ASSUME GarbageAssumption == Garbage \notin Seq(Entries)

\* Every variable stays in its range, and no store exceeds its capacity by more than the
\* root's entry (memory/tool.go:511-514, server.go:970-975).
TypeOK ==
    /\ file = Garbage \/ Store(file)
    /\ pc \in {"idle", "loaded", "fill"} /\ call \in Call /\ Store(mem) /\ calls \in 0..MaxCalls
    /\ ppc \in [Persisters -> {"idle", "loaded", "fill"}]
    /\ \A p \in Persisters : Store(pmem[p])
    /\ serial \in BOOLEAN

\* However the writers overlap, a store that loads has one entry per key: a recall is
\* never ambiguous (memory/tool.go:505-506, server.go:963-969).
KeysUnique == file # Garbage => \A i, j \in DOMAIN file : file[i].key = file[j].key => i = j

\* The map a store stands for; while the file is being filled, the map before that.
AsMap(m) == [k \in {m[i].key : i \in DOMAIN m} |->
                m[CHOOSE i \in DOMAIN m : m[i].key = k].value]
Filling == {p \in Persisters : ppc[p] = "fill"}
Known == IF pc = "fill" THEN AsMap(mem)
         ELSE IF Filling # {} THEN AsMap(pmem[CHOOSE p \in Filling : TRUE])
         ELSE AsMap(Load)

Promise == INSTANCE Memory WITH known <- Known

\* What becomes known is what one call, or the goroutine of one root, asks for; only a
\* writer that breaks off with the file emptied loses anything, and then everything.
Kept ==
    \/ pc = "fill" /\ call.kind = "save" /\ Promise!Remember(call.items)
    \/ pc = "fill" /\ call.kind = "delete" /\ Promise!Forget(call.key)
    \/ Filling # {} /\ Promise!RecordRoot
    \/ (pc = "fill" \/ Filling # {}) /\ file = <<>> /\ UNCHANGED file /\ Promise!Lose

\* While the writers do not overlap the store keeps what it promises: a call changes the
\* keys it names and no others, except to stay within the capacity, and a failure or a
\* kill loses nothing or everything (memory/tool.go:225-309, 485-563, server.go:960-978).
KeepsPromise == [][serial => Kept]_Known

\* "Remember/recall project conventions across sessions" (README.md:180): what was saved
\* stays known however the handlers and the goroutines that persist the root overlap.
AlwaysKeepsPromise == [][Kept]_Known
=============================================================================
