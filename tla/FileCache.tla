----------------------------- MODULE FileCache -----------------------------
(***************************************************************************)
(* The cache of file contents that every search reads through                 *)
(* (tools/grepfunc/filecache.go), with several workers and files that are      *)
(* rewritten while they are read.  Time is counted in steps of the clock that *)
(* stamps files: what is written in one step has one stamp.                   *)
(***************************************************************************)
EXTENDS Integers, Sequences, FiniteSets, FiniteSetsExt

CONSTANTS
    Reader,          \* the workers that read
    Cached,          \* the paths they read
    Sizes,           \* the sizes a file may have
    Window,          \* cacheStabilityWindow, in steps of the clock
    CacheMaxBytes, CacheMaxEntry,
    CompactFrom,     \* entries to consume before the queue is compacted: 1024
    MaxTime,         \* bound: steps of the clock
    MaxWrites,       \* bound: versions of a file
    MaxLag           \* bound: steps of the clock between a read and its store

VARIABLES
    now,        \* the clock
    file,       \* per path: version, size and stamp of the file
    entries,    \* the cached entries, at most one per path
    order,      \* all entries not compacted away, the oldest first
    evicted,    \* `head`: how many of them are consumed
    bytes,      \* the count of retained bytes
    where,      \* per worker: where it is
    stat,       \* per worker: what the walker's stat said
    data,       \* per worker: the version it has and its length
    readAt      \* per worker: when it read
cacheVars == <<now, file, entries, order, evicted, bytes, where, stat, data, readAt>>
storeVars == <<entries, order, evicted, bytes>>
readerVars == <<where, stat, data, readAt>>

NoStat == [path |-> "", version |-> 0, size |-> 0, mod |-> 0]
NoData == [version |-> 0, length |-> 0]

CacheIdle ==
    /\ now = 0
    /\ file = [p \in Cached |-> [version |-> 1, size |-> Min(Sizes), mod |-> 0]]
    /\ entries = {} /\ order = <<>> /\ evicted = 0 /\ bytes = 0
    /\ where = [r \in Reader |-> "idle"]
    /\ stat = [r \in Reader |-> NoStat] /\ data = [r \in Reader |-> NoData] /\ readAt = [r \in Reader |-> 0]
CacheInit == CacheIdle

Entry(p) == {e \in entries : e.path = p}

(***************************************************************************)
(* The world.                                                                *)
(***************************************************************************)
Tick ==
    /\ now < MaxTime
    /\ \A r \in Reader : where[r] = "store" => now - readAt[r] < MaxLag
    /\ now' = now + 1
    /\ UNCHANGED <<file, storeVars, readerVars>>

Rewrite(p) ==
    /\ file[p].version < MaxWrites
    /\ \E n \in Sizes : file' = [file EXCEPT ![p] = [version |-> @.version + 1, size |-> n, mod |-> now]]
    /\ UNCHANGED <<now, storeVars, readerVars>>

(***************************************************************************)
(* A worker: stat by the walker, lookup, os.ReadFile, store.                  *)
(***************************************************************************)
Goes(r, next) == where' = [where EXCEPT ![r] = next]

Stat(r, p) ==
    /\ where[r] = "idle"
    /\ stat' = [stat EXCEPT ![r] = [path |-> p, version |-> file[p].version, size |-> file[p].size, mod |-> file[p].mod]]
    /\ Goes(r, "lookup")
    /\ UNCHANGED <<now, file, storeVars, data, readAt>>

(* Mutant: the stamp is not compared.                                        *)
HitBySize(e, s) == e.path = s.path /\ e.size = s.size

Hit(e, s) == e.path = s.path /\ e.size = s.size /\ e.mod = s.mod

Lookup(r) ==
    /\ where[r] = "lookup"
    /\ LET hits == {e \in entries : Hit(e, stat[r])} IN
       IF hits = {} THEN Goes(r, "read") /\ UNCHANGED data
       ELSE /\ data' = [data EXCEPT ![r] = (CHOOSE e \in hits : TRUE).data]
            /\ Goes(r, "has")
    /\ UNCHANGED <<now, file, storeVars, stat, readAt>>

ReadFile(r) ==
    /\ where[r] = "read"
    /\ LET f == file[stat[r].path] IN data' = [data EXCEPT ![r] = [version |-> f.version, length |-> f.size]]
    /\ readAt' = [readAt EXCEPT ![r] = now]
    /\ Goes(r, "store")
    /\ UNCHANGED <<now, file, storeVars, stat>>

Leaves(r) ==
    /\ Goes(r, "idle")
    /\ stat' = [stat EXCEPT ![r] = NoStat] /\ data' = [data EXCEPT ![r] = NoData]
    /\ UNCHANGED <<now, file, storeVars, readAt>>

ReadFails(r) == where[r] = "read" /\ Leaves(r)

(* The bytes of the entries up to each place of the queue, and of those behind *)
(* place i up to place j.                                                     *)
Lengths(q) ==
    LET upTo[k \in 0..Len(q)] == IF k = 0 THEN 0 ELSE upTo[k - 1] + q[k].data.length
    IN  upTo
Length(q, i, j) == Lengths(q)[j] - Lengths(q)[i]

(* Mutant: what is dropped is counted by the size its stat said.             *)
EvictBySize(q, n, b) ==
    LET Sized(i) == [k \in 1..i |-> [data |-> [length |-> q[k].size]]]
        k == Min({i \in n..Len(q) : b - Length(Sized(i), n, i) <= CacheMaxBytes} \cup {Len(q)})
    IN [evicted |-> k, bytes |-> b - Length(Sized(k), n, k)]

(* Evict drops the oldest entries until the budget fits; every entry of the    *)
(* queue that is not consumed is cached.                                     *)
Evict(q, n, b) ==
    LET k == Min({i \in n..Len(q) : b - Length(q, n, i) <= CacheMaxBytes})
    IN [evicted |-> k, bytes |-> b - Length(q, n, k)]

(* An entry there is stays, whatever its stamp; a file that may still be       *)
(* written within the resolution of the clock is not kept.                    *)
Stores(s) == s.size <= CacheMaxEntry /\ now - s.mod >= Window /\ Entry(s.path) = {}

Store(r) ==
    /\ where[r] = "store"
    /\ Goes(r, "has")
    /\ IF ~Stores(stat[r]) THEN UNCHANGED storeVars
       ELSE LET s == stat[r]
                e == [path |-> s.path, size |-> s.size, mod |-> s.mod, data |-> data[r]]
                q == Append(order, e)
                left == Evict(q, evicted, bytes + data[r].length)
                gone == {q[i] : i \in (evicted + 1)..left.evicted}
                compacts == left.evicted > CompactFrom /\ left.evicted * 2 > Len(q)
            IN /\ entries' = (entries \cup {e}) \ gone
               /\ bytes' = left.bytes
               /\ order' = IF compacts THEN SubSeq(q, left.evicted + 1, Len(q)) ELSE q
               /\ evicted' = IF compacts THEN 0 ELSE left.evicted
    /\ readAt' = [readAt EXCEPT ![r] = 0]
    /\ UNCHANGED <<now, file, stat, data>>

Return(r) == where[r] = "has" /\ Leaves(r)

CacheNext ==
    \/ Tick \/ \E p \in Cached : Rewrite(p)
    \/ \E r \in Reader :
          \/ \E p \in Cached : Stat(r, p)
          \/ Lookup(r) \/ ReadFile(r) \/ ReadFails(r) \/ Store(r) \/ Return(r)

(***************************************************************************)
(* Properties.                                                               *)
(***************************************************************************)

(* Who reads through the cache gets the file as it was at the stat or later,   *)
(* however often it is rewritten within one step of the clock.                *)
NeverStale == \A r \in Reader : where[r] = "has" => data[r].version >= stat[r].version

(* The count of bytes is exact and within the budget, a path has one entry,    *)
(* and the entries are the part of the queue that is not consumed, each once.  *)
BytesCounted ==
    /\ bytes = Length(order, evicted, Len(order)) /\ bytes <= CacheMaxBytes
    /\ \A p \in Cached : Cardinality(Entry(p)) <= 1
    /\ evicted <= Len(order)
    /\ entries = {order[i] : i \in (evicted + 1)..Len(order)}
    /\ Cardinality(entries) = Len(order) - evicted
=============================================================================
