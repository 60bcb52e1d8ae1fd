--------------------------- MODULE DiskToolsProof ---------------------------
(***************************************************************************)
(* Proofs about DiskTools: what git restore discards, that a moved symbol is *)
(* moved whole, that a tree is rewritten in order, that the summary of a      *)
(* batch is true, that no search reads stale content through the cache and   *)
(* its bytes are counted, that a bookmark's verdict is true of the files it   *)
(* speaks of, and that its references follow their sections.                 *)
(***************************************************************************)
EXTENDS DiskTools, Counting

-----------------------------------------------------------------------------
(* git restore *)

\* Until git has restored the file, it is what it was unless its owner has saved it, and
\* what is shown of it is what git made of what there was when it looked.
Read(h, i, t) == Git!CapLines(Git!Patch(h, IF i = NoFile THEN NoFile ELSE t))
GitInv ==
    LET f == call.file IN
    /\ DOMAIN disk = Names /\ call \in RestoreCall
    /\ pc # "end" => reply = None
    /\ pc = "restore" => call.confirm
    /\ reply = "untracked" => head = NoFile
    /\ reply = "restored" => call.confirm /\ disk[f] = head
    /\ pc = "restore" \/ reply = "restored" => shown = Read(head, index, looked)
    /\ f \notin saved =>
          /\ reply # "restored" => disk[f] = given[f]
          /\ reply = "clean" => disk[f] = head

\* A call to restore begins so: it meets every file, and has answered nothing.
LEMMA GitStarts == DiskInit => (tool = "git" => GitInv)
<1> SUFFICES ASSUME DiskInit, tool = "git" PROVE GitInv
  OBVIOUS
<1>1. disk \in Disks["git"] /\ given = disk /\ reply = None /\ Git!GitInit
  BY DEF DiskInit, Writers
<1>2. DOMAIN disk = Names
  BY <1>1, FilesAssumption
<1> QED BY <1>1, <1>2 DEF GitInv, Git!GitInit, Git!NoFile, NoFile, None

\* Every step of the call, also one that fails, and every save of the owner keeps it.
LEMMA GitKeeps == GitInv /\ tool = "git" /\ [DiskNext]_allVars => GitInv'
<1> SUFFICES ASSUME GitInv, tool = "git", [DiskNext]_allVars PROVE GitInv'
  OBVIOUS
<1> USE DEF GitInv
<1>0. call.file \in Names /\ NoFile \notin Versions
  BY FilesAssumption DEF Names
<1>1. CASE GitStep
  <2>1. UNCHANGED <<given, saved, call, head, index>> /\ Git!GitNext
    BY <1>1 DEF GitStep, Git!GitNext, Git!Status, Git!PendingDiff, Git!Restore, Git!GitFails, Git!gitVars
  <2>2. CASE Git!Status
    BY <1>0, <2>1, <2>2 DEF Git!Status, Git!PorcelainState, Git!Reply, Git!NoFile, NoFile, None
  <2>3. CASE Git!PendingDiff
    BY <1>0, <2>1, <2>3 DEF Git!PendingDiff, Git!Reply, Git!NoFile, NoFile, None, Read
  <2>4. CASE Git!Restore
    BY <1>0, <2>1, <2>4 DEF Git!Restore, Git!Reply, Git!Put, Git!gitVars, None
  <2>5. CASE Git!GitFails
    BY <1>0, <2>1, <2>5 DEF Git!GitFails, Git!Reply, Git!gitVars, None
  <2> QED BY <2>1, <2>2, <2>3, <2>4, <2>5 DEF Git!GitNext
<1>2. CASE OwnerSaves
  <2>1. PICK p \in Path : Save(p)
    BY <1>2 DEF OwnerSaves
  <2>2. PICK v \in Versions : disk' = [disk EXCEPT ![p] = v]
    BY <2>1 DEF Save, Put
  <2>3. /\ UNCHANGED <<given, call, pc, reply, head, index, looked, shown>> /\ pc # "end"
        /\ saved' = saved \cup {p}
    BY <1>2, <2>1 DEF Save, OwnerSaves, toolVars, gitVars
  <2> QED BY <1>0, <2>2, <2>3 DEF None
<1>3. CASE UNCHANGED allVars
  BY <1>3 DEF allVars, diskVars, toolVars, gitVars
<1> QED BY <1>1, <1>2, <1>3 DEF DiskNext, DirectStep, TreeStep, BatchStep, CacheStep, BookStep

\* git restore changes a file only when that was confirmed, and leaves what HEAD has; its reply
\* shows what was discarded, up to the cap and with a count of the rest, of a file the index
\* knows and nobody saved since the difference was read.  An answer that there is nothing to
\* restore is true.
THEOREM RestoreIsShown == DiskSpec => []RestoredAsShown
<1>1. DiskInit => (tool = "git" => GitInv)
  BY GitStarts
<1>2. (tool = "git" => GitInv) /\ [DiskNext]_allVars => (tool = "git" => GitInv)'
  <2>1. [DiskNext]_allVars => tool' = tool
    BY DEF DiskNext, DirectStep, TreeStep, BatchStep, GitStep, OwnerSaves, CacheStep, BookStep, allVars
  <2> QED BY <2>1, GitKeeps
<1>3. (tool = "git" => GitInv) => RestoredAsShown
  BY DEF GitInv, Read, RestoredAsShown, Git!RestoredAsShown, Git!NoFile, NoFile
<1> QED BY <1>1, <1>2, <1>3, PTL DEF DiskSpec

-----------------------------------------------------------------------------
(* The cache of file contents *)

\* The versions of a file that its searches may still go by: the one there is, and what a
\* worker's stat has found.
Seen(p) == {file[p]} \cup {stat[r] : r \in {q \in Reader : where[q] # "idle" /\ stat[q].path = p}}

\* Files are stamped with the time of their writing, and a stat is of a version there was.
FilesInv ==
    /\ now \in Nat /\ DOMAIN file = Cached
    /\ \A p \in Cached :
          /\ file[p].version \in Nat /\ file[p].mod \in Nat /\ file[p].mod <= now
          /\ \A s \in Seen(p) : s.version \in Nat /\ s.mod \in Nat /\ s.version <= file[p].version

\* Who has just read a file has every version that is older than the read, and stores it soon.
ReadersInv ==
    /\ DOMAIN where = Reader /\ DOMAIN stat = Reader /\ DOMAIN data = Reader /\ DOMAIN readAt = Reader
    /\ \A r \in Reader :
          /\ where[r] # "idle" => stat[r].path \in Cached
          /\ where[r] \in {"store", "has"} =>
                data[r].version \in Nat /\ stat[r].version <= data[r].version
          /\ where[r] = "store" =>
                /\ readAt[r] \in Nat /\ readAt[r] <= now /\ now - readAt[r] <= MaxLag
                /\ \A s \in Seen(stat[r].path) : s.mod < readAt[r] => s.version <= data[r].version

\* No version of a file can get the stamp of a cached entry any more, and none that has it is
\* newer than what is cached.
EntriesInv ==
    \A e \in entries :
        /\ e.path \in Cached /\ e.mod \in Nat /\ e.mod < now /\ e.data.version \in Nat
        /\ \A s \in Seen(e.path) : s.mod = e.mod => s.version <= e.data.version

CacheInv == FilesInv /\ ReadersInv /\ EntriesInv

\* A search finds nothing in the beginning.
LEMMA CacheStarts == DiskInit => (tool = "cache" => CacheInv)
<1> SUFFICES ASSUME DiskInit, tool = "cache" PROVE CacheInv
  OBVIOUS
<1>1. Cache!CacheIdle
  BY DEF DiskInit, Cache!CacheInit
<1> QED BY <1>1 DEF Cache!CacheIdle, CacheInv, FilesInv, ReadersInv, EntriesInv, Seen

\* When no more can be seen than before and no more is cached, what is known of them stays so.
LEMMA SeenLess ==
    ASSUME CacheInv, UNCHANGED <<now, file>>, entries' \subseteq entries,
           \A p \in Cached : Seen(p)' \subseteq Seen(p)
    PROVE  FilesInv' /\ EntriesInv'
BY DEF CacheInv, FilesInv, EntriesInv

\* Time passes: a read that is not stored yet is stored in time.
LEMMA TickKeeps == CacheInv /\ Cache!Tick => CacheInv'
<1> SUFFICES ASSUME CacheInv, Cache!Tick PROVE CacheInv'
  OBVIOUS
<1> USE DEF CacheInv, FilesInv, ReadersInv, EntriesInv
<1>1. /\ now' = now + 1 /\ UNCHANGED <<file, entries, where, stat, data, readAt>>
      /\ \A r \in Reader : where[r] = "store" => now - readAt[r] < MaxLag
  BY DEF Cache!Tick, Cache!storeVars, Cache!readerVars
<1>2. \A p : Seen(p)' = Seen(p)
  BY <1>1 DEF Seen
<1>3. FilesInv'
  BY <1>1, <1>2
<1>4. ReadersInv'
  BY <1>1, <1>2, ClockAssumption
<1>5. EntriesInv'
  BY <1>1, <1>2
<1> QED BY <1>3, <1>4, <1>5

\* A file is rewritten: the new version has a stamp no cached entry has, nor is it older than a
\* read that is not stored yet.
LEMMA RewriteKeeps == \A p \in Cached : CacheInv /\ Cache!Rewrite(p) => CacheInv'
<1> SUFFICES ASSUME NEW p \in Cached, CacheInv, Cache!Rewrite(p) PROVE CacheInv'
  OBVIOUS
<1> USE DEF CacheInv, FilesInv, ReadersInv, EntriesInv
<1>1. UNCHANGED <<now, entries, where, stat, data, readAt>>
  BY DEF Cache!Rewrite, Cache!storeVars, Cache!readerVars
<1>2. PICK n \in Sizes :
        file' = [file EXCEPT ![p] = [version |-> file[p].version + 1, size |-> n, mod |-> now]]
  BY DEF Cache!Rewrite
<1> DEFINE new == file'[p]
<1>3. /\ new.version = file[p].version + 1 /\ new.mod = now
      /\ DOMAIN file' = Cached /\ \A q \in Cached : q # p => file'[q] = file[q]
  BY <1>2
<1> HIDE DEF new
<1>4. \A q \in Cached : Seen(q)' \subseteq Seen(q) \cup {new} /\ (q # p => Seen(q)' = Seen(q))
  <2> TAKE q \in Cached
  <2>1. file'[q] = file[q] \/ (q = p /\ file'[q] = new)
    BY <1>3 DEF new
  <2> QED BY <1>1, <2>1 DEF Seen
<1>5. FilesInv'
  <2> SUFFICES ASSUME NEW q \in Cached
               PROVE  /\ file'[q].version \in Nat /\ file'[q].mod \in Nat /\ file'[q].mod <= now'
                      /\ \A s \in Seen(q)' : /\ s.version \in Nat /\ s.mod \in Nat
                                             /\ s.version <= file'[q].version
    BY <1>1, <1>3
  <2>1. CASE q = p
    BY <1>1, <1>3, <1>4, <2>1 DEF new
  <2>2. CASE q # p
    BY <1>1, <1>3, <1>4, <2>2
  <2> QED BY <2>1, <2>2
<1>6. ReadersInv'
  BY <1>1, <1>3, <1>4
<1>7. EntriesInv'
  BY <1>1, <1>3, <1>4
<1> QED BY <1>5, <1>6, <1>7

\* A stat is of the version there is, so no more can be seen than before.
LEMMA StatKeeps == \A r \in Reader, p \in Cached : CacheInv /\ Cache!Stat(r, p) => CacheInv'
<1> SUFFICES ASSUME NEW r \in Reader, NEW p \in Cached, CacheInv, Cache!Stat(r, p) PROVE CacheInv'
  OBVIOUS
<1> DEFINE fresh == stat'[r]
<1>1. /\ UNCHANGED <<now, file, entries, data, readAt>> /\ where[r] = "idle"
      /\ where' = [where EXCEPT ![r] = "lookup"]
      /\ stat' = [stat EXCEPT ![r] = [path |-> p, version |-> file[p].version,
                                      size |-> file[p].size, mod |-> file[p].mod]]
  BY DEF Cache!Stat, Cache!Goes, Cache!storeVars
<1>2. /\ fresh.path = p /\ fresh.version = file[p].version /\ fresh.mod = file[p].mod
      /\ where'[r] = "lookup" /\ DOMAIN where' = Reader /\ DOMAIN stat' = Reader
      /\ \A q \in Reader : q # r => where'[q] = where[q] /\ stat'[q] = stat[q]
  BY <1>1 DEF CacheInv, ReadersInv
<1> HIDE DEF fresh
<1>3. \A c \in Cached : \A s \in Seen(c)' : s \in Seen(c) \/ (c = p /\ s = fresh)
  <2> SUFFICES ASSUME NEW c \in Cached, NEW s \in Seen(c)', s \notin Seen(c)
               PROVE  c = p /\ s = fresh
    OBVIOUS
  <2>1. PICK q \in Reader : where'[q] # "idle" /\ stat'[q].path = c /\ s = stat'[q]
    BY <1>1 DEF Seen
  <2>2. q = r
    BY <1>2, <2>1 DEF Seen
  <2> QED BY <1>2, <2>1, <2>2 DEF fresh
<1>4. \A c \in Cached : \A s \in Seen(c)' : \E t \in Seen(c) : s.version = t.version /\ s.mod = t.mod
  BY <1>2, <1>3 DEF Seen
<1>5. FilesInv'
  BY <1>1, <1>4 DEF CacheInv, FilesInv
<1>6. ReadersInv'
  <2>1. \A q \in Reader : q # r => where'[q] = where[q] /\ stat'[q] = stat[q]
    BY <1>2
  <2>2. where'[r] = "lookup" /\ stat'[r].path \in Cached
    BY <1>2 DEF fresh
  <2>3. \A q \in Reader : where'[q] # "idle" => stat'[q].path \in Cached
    BY <2>1, <2>2 DEF CacheInv, ReadersInv
  <2> QED BY <1>1, <1>2, <1>4, <2>1, <2>2, <2>3 DEF CacheInv, ReadersInv
<1>7. EntriesInv'
  BY <1>1, <1>4 DEF CacheInv, EntriesInv
<1> QED BY <1>5, <1>6, <1>7 DEF CacheInv

\* What is found in the cache is not older than the stat: its stamp is the one of the stat.
LEMMA LookupKeeps == \A r \in Reader : CacheInv /\ Cache!Lookup(r) => CacheInv'
<1> SUFFICES ASSUME NEW r \in Reader, CacheInv, Cache!Lookup(r) PROVE CacheInv'
  OBVIOUS
<1> DEFINE hits == {e \in entries : Cache!Hit(e, stat[r])}
           e == CHOOSE e \in hits : TRUE
<1>1. UNCHANGED <<now, file, entries, stat, readAt>> /\ where[r] = "lookup"
  BY DEF Cache!Lookup, Cache!storeVars
<1>2. \/ /\ where' = [where EXCEPT ![r] = "read"] /\ data' = data
      \/ /\ hits # {} /\ where' = [where EXCEPT ![r] = "has"] /\ data' = [data EXCEPT ![r] = e.data]
  BY DEF Cache!Lookup, Cache!Goes
<1>3. hits # {} => e.data.version \in Nat /\ stat[r].version <= e.data.version
  <2> SUFFICES ASSUME hits # {} PROVE e.data.version \in Nat /\ stat[r].version <= e.data.version
    OBVIOUS
  <2>1. e \in entries /\ Cache!Hit(e, stat[r])
    OBVIOUS
  <2>2. e.path = stat[r].path /\ e.mod = stat[r].mod
    BY <2>1 DEF Cache!Hit
  <2>3. stat[r] \in Seen(e.path)
    BY <1>1, <2>2 DEF Seen
  <2> QED BY <2>1, <2>2, <2>3 DEF CacheInv, EntriesInv
<1> HIDE DEF e, hits
<1>4. \A c \in Cached : Seen(c)' = Seen(c)
  <2>1. DOMAIN where = Reader
    BY DEF CacheInv, ReadersInv
  <2>2. \A q \in Reader : where'[q] # "idle" <=> where[q] # "idle"
    BY <1>1, <1>2, <2>1
  <2> QED BY <1>1, <2>2 DEF Seen
<1>5. ReadersInv'
  <2>1. CASE where' = [where EXCEPT ![r] = "read"] /\ data' = data
    BY <1>1, <1>4, <2>1 DEF CacheInv, ReadersInv
  <2>2. CASE hits # {} /\ where' = [where EXCEPT ![r] = "has"] /\ data' = [data EXCEPT ![r] = e.data]
    BY <1>1, <1>3, <1>4, <2>2 DEF CacheInv, ReadersInv
  <2> QED BY <1>2, <2>1, <2>2
<1>6. FilesInv' /\ EntriesInv'
  BY <1>1, <1>4, SeenLess
<1> QED BY <1>5, <1>6 DEF CacheInv

\* A read gets the version there is: no version that can be seen is newer.
LEMMA ReadKeeps == \A r \in Reader : CacheInv /\ Cache!ReadFile(r) => CacheInv'
<1> SUFFICES ASSUME NEW r \in Reader, CacheInv, Cache!ReadFile(r) PROVE CacheInv'
  OBVIOUS
<1> DEFINE p == stat[r].path
<1>1. /\ UNCHANGED <<now, file, entries, stat>> /\ where[r] = "read"
      /\ where' = [where EXCEPT ![r] = "store"] /\ readAt' = [readAt EXCEPT ![r] = now]
      /\ data' = [data EXCEPT ![r] = [version |-> file[p].version, length |-> file[p].size]]
  BY DEF Cache!ReadFile, Cache!Goes, Cache!storeVars
<1>2. /\ where'[r] = "store" /\ readAt'[r] = now /\ data'[r].version = file[p].version
      /\ DOMAIN where' = Reader /\ DOMAIN data' = Reader /\ DOMAIN readAt' = Reader
      /\ \A q \in Reader : q # r => where'[q] = where[q] /\ data'[q] = data[q] /\ readAt'[q] = readAt[q]
  BY <1>1 DEF CacheInv, ReadersInv
<1>3. \A c \in Cached : Seen(c)' = Seen(c)
  <2>1. \A q \in Reader : where'[q] # "idle" <=> where[q] # "idle"
    BY <1>1, <1>2
  <2> QED BY <1>1, <2>1 DEF Seen
<1>4. p \in Cached /\ stat[r] \in Seen(p)
  BY <1>1 DEF CacheInv, ReadersInv, Seen
<1>5. /\ file[p].version \in Nat /\ \A s \in Seen(p) : s.version <= file[p].version
      /\ stat[r].version <= file[p].version
  BY <1>4 DEF CacheInv, FilesInv
<1>6. now \in Nat /\ now - now = 0
  BY DEF CacheInv, FilesInv
<1>7. ReadersInv'
  <2> SUFFICES ASSUME NEW q \in Reader
               PROVE  /\ where'[q] # "idle" => stat'[q].path \in Cached
                      /\ where'[q] \in {"store", "has"} =>
                            data'[q].version \in Nat /\ stat'[q].version <= data'[q].version
                      /\ where'[q] = "store" =>
                            /\ readAt'[q] \in Nat /\ readAt'[q] <= now' /\ now' - readAt'[q] <= MaxLag
                            /\ \A s \in Seen(stat[q].path)' :
                                  s.mod < readAt'[q] => s.version <= data'[q].version
    BY <1>1, <1>2 DEF CacheInv, ReadersInv
  <2>1. CASE q = r
    BY <1>1, <1>2, <1>3, <1>4, <1>5, <1>6, <2>1, ClockAssumption
  <2>2. CASE q # r
    BY <1>1, <1>2, <1>3, <2>2 DEF CacheInv, ReadersInv
  <2> QED BY <2>1, <2>2
<1>8. FilesInv' /\ EntriesInv'
  BY <1>1, <1>3, SeenLess
<1> QED BY <1>7, <1>8 DEF CacheInv

\* Who leaves is seen with no version any more.
LEMMA LeavesKeeps == \A r \in Reader : CacheInv /\ Cache!Leaves(r) => CacheInv'
<1> SUFFICES ASSUME NEW r \in Reader, CacheInv, Cache!Leaves(r) PROVE CacheInv'
  OBVIOUS
<1>1. /\ UNCHANGED <<now, file, entries, readAt>>
      /\ where'[r] = "idle" /\ DOMAIN where' = Reader /\ DOMAIN stat' = Reader /\ DOMAIN data' = Reader
      /\ \A q \in Reader : q # r => where'[q] = where[q] /\ stat'[q] = stat[q] /\ data'[q] = data[q]
  BY DEF CacheInv, ReadersInv, Cache!Leaves, Cache!Goes, Cache!storeVars
<1>2. \A c \in Cached : Seen(c)' \subseteq Seen(c)
  BY <1>1 DEF Seen
<1>3. FilesInv' /\ EntriesInv'
  BY <1>1, <1>2, SeenLess
<1>4. ReadersInv'
  <2>1. \A q \in Reader : where'[q] # "idle" => q # r
    BY <1>1
  <2> QED BY <1>1, <1>2, <2>1 DEF CacheInv, ReadersInv
<1> QED BY <1>3, <1>4 DEF CacheInv

\* What is stored was read when its stamp was past, and more than the lag: no version with that
\* stamp is newer, nor will one be written.
LEMMA StoreKeeps == \A r \in Reader : CacheInv /\ Cache!Store(r) => CacheInv'
<1> SUFFICES ASSUME NEW r \in Reader, CacheInv, Cache!Store(r) PROVE CacheInv'
  OBVIOUS
<1> DEFINE e == [path |-> stat[r].path, size |-> stat[r].size, mod |-> stat[r].mod, data |-> data[r]]
<1>1. /\ UNCHANGED <<now, file, stat, data>> /\ where[r] = "store"
      /\ where' = [where EXCEPT ![r] = "has"] /\ readAt' = [readAt EXCEPT ![r] = 0]
  BY DEF Cache!Store, Cache!Goes
<1>2. \A c \in Cached : Seen(c)' = Seen(c)
  <2>1. \A q \in Reader : where'[q] # "idle" <=> where[q] # "idle"
    BY <1>1 DEF CacheInv, ReadersInv
  <2> QED BY <1>1, <2>1 DEF Seen
<1>3. entries' \subseteq entries \/ (Cache!Stores(stat[r]) /\ entries' \subseteq entries \cup {e})
  BY DEF Cache!Store, Cache!storeVars
<1>4. e.path \in Cached /\ stat[r] \in Seen(e.path) /\ e.data.version \in Nat
  BY <1>1 DEF CacheInv, ReadersInv, Seen
<1>5. now \in Nat /\ e.mod \in Nat /\ \A s \in Seen(e.path) : s.mod \in Nat
  BY <1>4 DEF CacheInv, FilesInv
<1>6. /\ readAt[r] \in Nat /\ now - readAt[r] <= MaxLag
      /\ \A s \in Seen(e.path) : s.mod < readAt[r] => s.version <= e.data.version
  BY <1>1 DEF CacheInv, ReadersInv
<1>7. Cache!Stores(stat[r]) => e.mod < readAt[r] /\ e.mod < now
  <2>1. Cache!Stores(stat[r]) => now - e.mod >= Window
    BY DEF Cache!Stores
  <2> HIDE DEF e
  <2> QED BY <1>5, <1>6, <2>1, ClockAssumption
<1> HIDE DEF e
<1>8. EntriesInv'
  BY <1>1, <1>2, <1>3, <1>4, <1>5, <1>6, <1>7 DEF CacheInv, EntriesInv
<1>9. FilesInv'
  BY <1>1, <1>2 DEF CacheInv, FilesInv
<1>10. ReadersInv'
  BY <1>1, <1>2 DEF CacheInv, ReadersInv
<1> QED BY <1>8, <1>9, <1>10 DEF CacheInv

\* The searches, the writers of the files and the clock keep the invariant.
LEMMA CacheKeeps == CacheInv /\ tool = "cache" /\ [DiskNext]_allVars => CacheInv'
<1> SUFFICES ASSUME CacheInv, tool = "cache", [DiskNext]_allVars PROVE CacheInv'
  OBVIOUS
<1>1. CASE CacheStep
  <2>1. Cache!CacheNext
    BY <1>1 DEF CacheStep
  <2>2. \A r \in Reader : Cache!ReadFails(r) \/ Cache!Return(r) => Cache!Leaves(r)
    BY DEF Cache!ReadFails, Cache!Return
  <2> QED BY <2>1, <2>2, TickKeeps, RewriteKeeps, StatKeeps, LookupKeeps, ReadKeeps, LeavesKeeps, StoreKeeps
          DEF Cache!CacheNext
<1>2. CASE UNCHANGED cacheVars
  BY <1>2 DEF cacheVars, CacheInv, FilesInv, ReadersInv, EntriesInv, Seen
<1> QED BY <1>1, <1>2
        DEF DiskNext, DirectStep, TreeStep, BatchStep, GitStep, OwnerSaves, BookStep, allVars, toolVars

\* Who reads through the cache gets no version older than the stat it came with, as long as a
\* read is stored within less time than a file must rest to be kept.
THEOREM CacheIsFresh == DiskSpec => []NeverStale
<1>1. DiskInit => (tool = "cache" => CacheInv)
  BY CacheStarts
<1>2. (tool = "cache" => CacheInv) /\ [DiskNext]_allVars => (tool = "cache" => CacheInv)'
  <2>1. [DiskNext]_allVars => tool' = tool
    BY DEF DiskNext, DirectStep, TreeStep, BatchStep, GitStep, OwnerSaves, CacheStep, BookStep, allVars
  <2> QED BY <2>1, CacheKeeps
<1>3. (tool = "cache" => CacheInv) => NeverStale
  BY DEF CacheInv, ReadersInv, NeverStale, Cache!NeverStale
<1> QED BY <1>1, <1>2, <1>3, PTL DEF DiskSpec

-----------------------------------------------------------------------------
(* The verdict of a bookmark *)

Commits == [file : ToSet(Files) \cup {"", "amended"}, subject : Subjects \cup {""}]
Kinds == {"changed", "new", "deleted"}
Repositories ==
    [branch : {"main", "work"}, sha : Seq(Commits) \ {<<>>},
     dirty : SUBSET [file : ToSet(Files), kind : Kinds], gone : SUBSET ToSet(Files)]

\* A bookmark that no edit has followed is one of the document there is, unless an edit came
\* during the call; what git told when it was set is not empty; no tool writes files meanwhile.
BookInv ==
    /\ pc = "end"
    /\ git \in Repositories
    /\ DOMAIN book = {"refs", "branch", "sha", "dirty"} /\ book.sha \in Seq(Commits)
    /\ doing.op = "read" => book # Book!NoBook
    /\ book # Book!NoBook =>
          /\ "branch" \notin unheard => book.branch \in {"main", "work"}
          /\ "sha" \notin unheard => book.sha # <<>>
          /\ ~edited => doc = verified \/ raced

LEMMA BookStarts == DiskInit => (tool = "bookmark" => BookInv)
<1> SUFFICES ASSUME DiskInit, tool = "bookmark" PROVE BookInv
  OBVIOUS
<1>1. pc = "end" /\ Book!BookInit
  BY DEF DiskInit, Writers
<1>2. book = Book!NoBook /\ doing.op # "read"
  BY <1>1 DEF Book!BookInit, Book!Unmarked, Book!IdleCall
<1>3. git \in Repositories
  <2>1. [file |-> "", subject |-> ""] \in Commits
    BY DEF Commits
  <2> DEFINE first == [file |-> "", subject |-> ""]
  <2>2. <<first>> \in Seq(Commits) /\ <<first>> # <<>>
    <3> HIDE DEF first
    <3>1. first \in Commits
      BY <2>1 DEF first
    <3> QED BY <3>1
  <2>3. PICK absent \in Absent : git = [Book!NoGit EXCEPT !.gone = absent]
    BY <1>1 DEF Book!BookInit
  <2>4. git = [branch |-> "main", sha |-> <<first>>, dirty |-> {}, gone |-> absent]
    BY <2>3 DEF Book!NoGit
  <2>5. absent \in SUBSET ToSet(Files)
    BY DocsAssumption
  <2> HIDE DEF first
  <2> QED BY <2>2, <2>4, <2>5 DEF Repositories
<1>4. DOMAIN book = {"refs", "branch", "sha", "dirty"} /\ book.sha = <<>>
  BY <1>2 DEF Book!NoBook
<1>5. book.sha \in Seq(Commits)
  BY <1>4
<1> QED BY <1>1, <1>2, <1>3, <1>4, <1>5 DEF BookInv

\* What others do to the repository leaves a repository.
BookRest == <<doc, edited, book, lines, doing, home, verified, raced, unheard>>
RepositoryChanges ==
    \/ Book!Checkout
    \/ \E f \in ToSet(Files), k \in Kinds : Book!Changes([file |-> f, kind |-> k])
    \/ \E s \in Subjects : Book!Amend(s) \/ \E d \in git.dirty : Book!Commit(d, s)
LEMMA RepositoryKeeps ==
    ASSUME git \in Repositories, RepositoryChanges
    PROVE  git' \in Repositories /\ UNCHANGED BookRest
<1> USE DEF Book!Repository, Book!Happens, Book!History, BookRest
<1>1. CASE Book!Checkout
  BY <1>1 DEF Book!Checkout, Repositories
<1>2. ASSUME NEW f \in ToSet(Files), NEW k \in Kinds, Book!Changes([file |-> f, kind |-> k])
      PROVE  git' \in Repositories /\ UNCHANGED BookRest
  <2> DEFINE d == [file |-> f, kind |-> k]
             left == IF k # "deleted" THEN git.gone \ {f} ELSE git.gone \cup {f}
  <2>1. d \in [file : ToSet(Files), kind : Kinds] /\ left \in SUBSET ToSet(Files)
    BY <1>2 DEF Repositories
  <2>2. git' = [git EXCEPT !.dirty = git.dirty \cup {d}, !.gone = left]
    BY <1>2 DEF Book!Changes, Book!Present
  <2> HIDE DEF d, left
  <2>3. git' \in Repositories
    BY <2>1, <2>2 DEF Repositories
  <2> QED BY <1>2, <2>3 DEF Book!Changes
<1>3. ASSUME NEW s \in Subjects, Book!Amend(s)
      PROVE  git' \in Repositories /\ UNCHANGED BookRest
  <2>1. [file |-> "amended", subject |-> s] \in Commits
    BY DEF Commits
  <2>2. git.sha \in Seq(Commits) /\ git.sha # <<>>
    BY DEF Repositories
  <2> DEFINE last == [file |-> "amended", subject |-> s]
             new == [git.sha EXCEPT ![Len(git.sha)] = last]
  <2>3. new \in Seq(Commits) /\ Len(new) = Len(git.sha)
    BY <2>1, <2>2, ExceptSeq
  <2>4. new # <<>>
    <3>1. Len(git.sha) # 0
      BY <2>2, EmptySeq
    <3> HIDE DEF new
    <3> QED BY <2>3, <3>1
  <2>5. git' = [git EXCEPT !.sha = new]
    BY <1>3 DEF Book!Amend
  <2> HIDE DEF new
  <2>6. git' \in Repositories
    BY <2>3, <2>4, <2>5 DEF Repositories
  <2> QED BY <1>3, <2>6 DEF Book!Amend
<1>4. ASSUME NEW s \in Subjects, NEW d \in git.dirty, Book!Commit(d, s)
      PROVE  git' \in Repositories /\ UNCHANGED BookRest
  <2>1. [file |-> d.file, subject |-> s] \in Commits
    BY DEF Commits, Repositories
  <2> DEFINE last == [file |-> d.file, subject |-> s]
             new == Append(git.sha, last)
  <2>2. new \in Seq(Commits) /\ new # <<>>
    <3> HIDE DEF last
    <3>1. last \in Commits /\ git.sha \in Seq(Commits)
      BY <2>1 DEF last, Repositories
    <3> QED BY <3>1, AppendProperties
  <2>3. git' = [git EXCEPT !.sha = new, !.dirty = git.dirty \ {d}]
    BY <1>4 DEF Book!Commit
  <2> HIDE DEF new
  <2>4. git' \in Repositories
    BY <2>2, <2>3 DEF Repositories
  <2> QED BY <1>4, <2>4 DEF Book!Commit
<1> QED BY <1>1, <1>2, <1>3, <1>4 DEF RepositoryChanges

\* The calls, edits of the document and changes of the repository keep the invariant.
LEMMA BookKeeps == BookInv /\ tool = "bookmark" /\ [DiskNext]_allVars => BookInv'
<1> SUFFICES ASSUME BookInv, tool = "bookmark", [DiskNext]_allVars PROVE BookInv'
  OBVIOUS
<1>1. CASE UNCHANGED <<pc, bookVars>>
  BY <1>1 DEF bookVars, BookInv
<1>2. CASE BookStep
  <2> USE DEF Book!World, Book!History
  <2>1. pc' = "end" /\ Book!BookNext
    BY <1>2 DEF BookStep, BookInv, diskVars
  <2>2. CASE Book!SetReads \/ Book!ReadReads
    <3>1. UNCHANGED <<doc, git, book, edited, verified, raced, unheard>> /\ (doing'.op = "read" => book # Book!NoBook)
      BY <2>2 DEF Book!SetReads, Book!ReadReads, Book!Begin
    <3> QED BY <2>1, <3>1 DEF BookInv
  <2>3. CASE Book!SetSaves \/ Book!ReadSaves
    <3>1. /\ UNCHANGED <<doc, git>> /\ verified' = lines /\ raced' = (lines # doc)
          /\ doing'.op # "read"
      <4>1. \E refs, sections : Book!Verifies(refs, sections)
        BY <2>3, Zenon DEF Book!SetSaves, Book!ReadSaves
      <4> QED BY <4>1 DEF Book!Verifies, Book!IdleCall
    <3>2. /\ DOMAIN book' = {"refs", "branch", "sha", "dirty"} /\ book'.sha \in Seq(Commits)
          /\ book' # Book!NoBook =>
                /\ "branch" \notin unheard' => book'.branch \in {"main", "work"}
                /\ "sha" \notin unheard' => book'.sha # <<>>
      <4>1. CASE Book!SetSaves
        <5>1. PICK refs, lost :
                 LET snapshot == Book!Snapshot(lost) IN
                 /\ book' = [refs |-> refs, branch |-> snapshot.branch, sha |-> snapshot.sha, dirty |-> snapshot.dirty]
                 /\ unheard' = lost \cap {"branch", "sha", "status"}
          BY <4>1, Zenon DEF Book!SetSaves
        <5>2. /\ DOMAIN book' = {"refs", "branch", "sha", "dirty"}
              /\ book'.branch = (IF "branch" \in lost THEN "" ELSE git.branch)
              /\ book'.sha = (IF "sha" \in lost THEN <<>> ELSE git.sha)
          BY <5>1 DEF Book!Snapshot
        <5>3. git.branch \in {"main", "work"} /\ git.sha \in Seq(Commits) /\ git.sha # <<>> /\ <<>> \in Seq(Commits)
          BY DEF BookInv, Repositories
        <5> QED BY <5>1, <5>2, <5>3
      <4>2. CASE Book!ReadSaves
        <5>1. PICK refs : book' = [book EXCEPT !.refs = refs]
          BY <4>2 DEF Book!ReadSaves
        <5>2. book # Book!NoBook /\ unheard' = unheard
          BY <4>2 DEF Book!ReadSaves, BookInv
        <5> QED BY <5>1, <5>2 DEF BookInv
      <4> QED BY <2>3, <4>1, <4>2
    <3>3. doc' = verified' \/ raced'
      BY <3>1
    <3> QED BY <2>1, <3>1, <3>2, <3>3 DEF BookInv
  <2>4. CASE Book!Cleared \/ Book!Clear
    <3>1. /\ UNCHANGED git /\ book' = Book!NoBook
          /\ doing'.op # "read"
      BY <2>4 DEF Book!Cleared, Book!Clear, Book!IdleCall
    <3>2. DOMAIN book' = {"refs", "branch", "sha", "dirty"} /\ book'.sha = <<>>
      BY <3>1 DEF Book!NoBook
    <3>3. book'.sha \in Seq(Commits)
      BY <3>2
    <3> QED BY <2>1, <3>1, <3>2, <3>3 DEF BookInv
  <2>5. CASE Book!CallFails
    <3>1. UNCHANGED <<doc, git, book, edited, verified, raced, unheard>> /\ doing'.op # "read"
      BY <2>5 DEF Book!CallFails, Book!IdleCall
    <3> QED BY <2>1, <3>1 DEF BookInv
  <2>6. CASE \E i \in DOMAIN doc : \/ Book!MoveSection(i) \/ Book!DropSection(i)
                                  \/ \E t \in Texts : Book!Rewrite(i, t)
    <3>1. UNCHANGED <<git, book, doing, unheard>> /\ edited'
      BY <2>6 DEF Book!MoveSection, Book!DropSection, Book!Rewrite, Book!Edits, Book!Happens
    <3> QED BY <2>1, <3>1 DEF BookInv
  <2>7. CASE RepositoryChanges
    <3>1. git' \in Repositories /\ UNCHANGED BookRest
      BY <2>7, RepositoryKeeps DEF BookInv
    <3> QED BY <2>1, <3>1 DEF BookInv, BookRest
  <2> QED BY <2>1, <2>2, <2>3, <2>4, <2>5, <2>6, <2>7, Zenon
         DEF Book!BookNext, RepositoryChanges, Kinds, Book!ToSet, ToSet
<1>3. CASE OwnerSaves
  BY <1>3 DEF OwnerSaves, Save, BookInv
<1> QED BY <1>1, <1>2, <1>3
        DEF DiskNext, DirectStep, TreeStep, BatchStep, GitStep, CacheStep, allVars, toolVars, diskVars

\* Where the snapshot is a beginning of the history and nothing came since, they are the same.
LEMMA NothingSince ==
    ASSUME git.sha \in Seq(Commits), book.sha \in Seq(Commits),
           Book!IsPrefix(book.sha, git.sha), Book!Since = <<>>
    PROVE  git.sha = book.sha
<1> DEFINE new == git.sha
           old == book.sha
<1>1. /\ Len(old) <= Len(new) /\ SubSeq(old, 1, Len(old)) = SubSeq(new, 1, Len(old))
      /\ SubSeq(new, Len(old) + 1, Len(new)) = <<>>
  BY DEF Book!Since, Book!IsPrefix
<1> HIDE DEF new, old
<1>2. new \in Seq(Commits) /\ old \in Seq(Commits)
  BY DEF new, old
<1>3. Len(new) \in Nat /\ Len(old) \in Nat /\ \A i \in 1..Len(new) : new[i] \in Commits
  BY <1>2
<1>4. Len(SubSeq(new, Len(old) + 1, Len(new)))
        = IF Len(old) + 1 <= Len(new) THEN Len(new) - (Len(old) + 1) + 1 ELSE 0
  BY <1>3, SubSeqProperties
<1>5. Len(old) = Len(new)
  <2> DEFINE since == SubSeq(new, Len(old) + 1, Len(new))
  <2>1. Len(since) = 0
    <3>1. since = <<>>
      BY <1>1
    <3> HIDE DEF since
    <3> QED BY <3>1
  <2> QED BY <1>1, <1>3, <1>4, <2>1
<1> QED BY <1>1, <1>2, <1>5, SubSeqFull DEF new, old

-----------------------------------------------------------------------------
(* The references of a bookmark *)

Documents == Seq(DocLine)

\* The model's own operators on sets and sequences are the library's.
LEMMA BookThose == \A s, S : Book!Those(s, S) = Those(s, S)
BY DEF Book!Those, Book!Gathered, Book!Gather, Those, Gathered, Gather

LEMMA BookCount == \A S : Book!Cardinality(S) = Cardinality(S)
BY DEF Book!Cardinality, Cardinality, Book!IsFiniteSet, IsFiniteSet

LEMMA BookMinIs ==
    ASSUME NEW n \in Nat, NEW S \in SUBSET (1..n), S # {}
    PROVE  /\ Book!Min(S) \in S /\ \A k \in S : Book!Min(S) <= k
           /\ \A h : S = {h} => Book!Min(S) = h
<1>1. \E m \in S : \A k \in S : m <= k
  <2>1. S \in SUBSET Int /\ S # {} /\ 1 \in Int /\ \A k \in S : 1 <= k
    OBVIOUS
  <2> QED BY <2>1, LeastExists
<1>2. Book!Min(S) \in S /\ \A k \in S : Book!Min(S) <= k
  BY <1>1 DEF Book!Min
<1> HIDE DEF Book!Min
<1>3. \A h : S = {h} => Book!Min(S) = h
  <2> SUFFICES ASSUME NEW h, S = {h} PROVE Book!Min(S) = h
    OBVIOUS
  <2> QED BY <1>2
<1> QED BY <1>2, <1>3

\* A set of lines has one member when it is the set of that one.
LEMMA OneLine ==
    ASSUME NEW n \in Nat, NEW S \in SUBSET (1..n)
    PROVE  Book!Cardinality(S) = 1 <=> \E h \in 1..n : S = {h}
<1>1. IsFiniteSet(S)
  <2>1. 1 \in Int /\ n \in Int
    OBVIOUS
  <2>2. IsFiniteSet(1..n)
    BY <2>1, FS_Interval
  <2> QED BY <2>2, FS_Subset
<1> QED BY <1>1, FS_Singleton, BookCount

\* Where a reference is found: at the only line of its heading; at the line of that heading whose
\* section begins as it did, when that is one, and at no other when there is one; by its first
\* line when the heading is gone.
LEMMA RefNowIs ==
    ASSUME NEW ls, Len(ls) \in Nat, NEW r
    PROVE  LET hits == Book!FindHeadings(ls, r.heading)
               alike == {i \in hits : Book!SectionMark(ls, i) = r.mark}
               marked == {i \in 1..Len(ls) : Book!Raw(ls[i]) = r.mark}
               p == Book!RefNow(ls, r).at
           IN /\ \A h : hits = {h} => p = h
              /\ \A h : alike = {h} => p = h
              /\ \A h \in alike : p # 0 => p = h
              /\ \A h : hits = {} /\ r.mark # Book!NoMark /\ marked = {h} => p = h
              /\ hits # {} /\ p # 0 => p \in hits
              /\ p \in 0..Len(ls)
<1> DEFINE n == Len(ls)
           hits == Book!FindHeadings(ls, r.heading)
           alike == {i \in hits : Book!SectionMark(ls, i) = r.mark}
           marked == {i \in 1..Len(ls) : Book!Raw(ls[i]) = r.mark}
           p == Book!RefNow(ls, r).at
<1>1. n \in Nat /\ hits \in SUBSET (1..n) /\ alike \in SUBSET hits /\ marked \in SUBSET (1..n)
  BY DEF Book!FindHeadings
<1>2. p = IF Book!Cardinality(hits) = 1 THEN Book!Min(hits)
           ELSE IF hits = {} THEN Book!FindMark(ls, r.mark) ELSE Book!UniqueMarkMatch(ls, hits, r.mark)
  BY DEF Book!RefNow
<1>3. Book!UniqueMarkMatch(ls, hits, r.mark) = IF Book!Cardinality(alike) = 1 THEN Book!Min(alike) ELSE 0
  BY DEF Book!UniqueMarkMatch
<1>4. Book!FindMark(ls, r.mark) = IF r.mark # Book!NoMark /\ Book!Cardinality(marked) = 1 THEN Book!Min(marked) ELSE 0
  BY DEF Book!FindMark
<1> HIDE DEF n, hits, marked, p
<1>5. \A S \in SUBSET (1..n) : /\ Book!Cardinality(S) = 1 <=> \E h \in 1..n : S = {h}
                               /\ \A h : S = {h} => Book!Min(S) = h /\ h \in 1..n
  <2> TAKE S \in SUBSET (1..n)
  <2>1. \A h : S = {h} => Book!Min(S) = h
    BY <1>1, BookMinIs
  <2> QED BY <1>1, <2>1, OneLine
<1>6. alike \in SUBSET (1..n)
  BY <1>1
<1>7. CASE Book!Cardinality(hits) = 1
  <2>1. PICK h \in 1..n : hits = {h}
    BY <1>1, <1>5, <1>7
  <2>2. p = h
    BY <1>1, <1>2, <1>5, <1>7, <2>1
  <2> QED BY <1>1, <2>1, <2>2 DEF n, hits, marked, p
<1>8. CASE hits = {}
  <2>1. p = Book!FindMark(ls, r.mark) /\ alike = {} /\ Book!Cardinality(hits) # 1
    BY <1>1, <1>2, <1>5, <1>8
  <2>2. /\ \A h : r.mark # Book!NoMark /\ marked = {h} => p = h
        /\ p \in 0..n
    <3>1. CASE r.mark # Book!NoMark /\ Book!Cardinality(marked) = 1
      <4>1. p = Book!Min(marked)
        BY <1>4, <2>1, <3>1
      <4>2. PICK h \in 1..n : marked = {h} /\ Book!Min(marked) = h
        BY <1>1, <1>5, <3>1
      <4> QED BY <1>1, <4>1, <4>2
    <3>2. CASE ~(r.mark # Book!NoMark /\ Book!Cardinality(marked) = 1)
      <4>1. p = 0
        BY <1>4, <2>1, <3>2
      <4>2. \A h : marked = {h} => Book!Cardinality(marked) = 1
        BY <1>1, <1>5
      <4>3. p \in 0..n
        BY <1>1, <4>1
      <4> QED BY <3>2, <4>2, <4>3, Zenon
    <3> QED BY <3>1, <3>2
  <2> QED BY <1>1, <1>8, <2>1, <2>2 DEF n, hits, marked, p
<1>9. CASE hits # {} /\ Book!Cardinality(hits) # 1
  <2>1. p = Book!UniqueMarkMatch(ls, hits, r.mark) /\ \A h : hits # {h}
    BY <1>1, <1>2, <1>5, <1>9
  <2> HIDE DEF alike
  <2>2. /\ \A h : alike = {h} => p = h
        /\ \A h \in alike : p # 0 => p = h
        /\ p # 0 => p \in hits
        /\ p \in 0..n
    <3>1. CASE Book!Cardinality(alike) = 1
      <4>1. PICK h \in 1..n : alike = {h} /\ Book!Min(alike) = h
        BY <1>5, <1>6, <3>1
      <4>2. p = h
        BY <1>3, <2>1, <3>1, <4>1 DEF alike
      <4>3. h \in hits
        BY <4>1 DEF alike
      <4> QED BY <1>1, <4>1, <4>2, <4>3
    <3>2. CASE Book!Cardinality(alike) # 1
      <4>1. p = 0
        BY <1>3, <2>1, <3>2 DEF alike
      <4>2. \A h : alike # {h}
        BY <1>5, <1>6, <3>2
      <4>3. p \in 0..n
        BY <1>1, <4>1
      <4> QED BY <4>1, <4>2, <4>3, Zenon
    <3> QED BY <3>1, <3>2
  <2> QED BY <1>1, <1>9, <2>1, <2>2 DEF n, hits, marked, p, alike
<1> QED BY <1>7, <1>8, <1>9

\* A heading that resolves does so at a line, and the first line with the text of that one is the
\* same line, if it is a heading.
LEMMA ResolvedIs ==
    ASSUME NEW ls, Len(ls) \in Nat, NEW heading
    PROVE  LET i == Book!ResolveHeading(ls, heading)
               j == Book!ResolveHeading(ls, ls[i].text)
           IN /\ i \in 0..Len(ls)
              /\ i # 0 => j \in 1..Len(ls) /\ (ls[j].level > 0 => j = i)
<1> DEFINE n == Len(ls)
           exact(g) == Book!FindHeadings(ls, g)
           loose == Book!Loose(ls, heading)
           i == Book!ResolveHeading(ls, heading)
           j == Book!ResolveHeading(ls, ls[i].text)
<1>1. /\ \A g : exact(g) = {k \in 1..n : ls[k].text = g}
      /\ loose = {k \in 1..n : ls[k].level > 0 /\ Lower[ls[k].text] = Lower[heading]}
  BY DEF Book!FindHeadings, Book!Loose
<1>2. i = IF exact(heading) # {} THEN Book!Min(exact(heading)) ELSE IF loose # {} THEN Book!Min(loose) ELSE 0
  BY DEF Book!ResolveHeading
<1>3. exact(ls[i].text) # {} => j = Book!Min(exact(ls[i].text))
  BY DEF Book!ResolveHeading
<1> HIDE DEF n, exact, loose, i, j
<1>4. \A S \in SUBSET (1..n) : S # {} => Book!Min(S) \in S /\ \A k \in S : Book!Min(S) <= k
  BY BookMinIs DEF n
<1>5. n \in Nat /\ (\A g : exact(g) \in SUBSET (1..n)) /\ loose \in SUBSET (1..n)
  BY <1>1 DEF n
<1>6. CASE exact(heading) # {}
  <2>1. i \in exact(heading) /\ i = Book!Min(exact(heading))
    BY <1>2, <1>4, <1>5, <1>6
  <2>2. i \in 1..n /\ ls[i].text = heading
    BY <1>1, <2>1
  <2>3. j = i
    BY <1>3, <1>6, <2>1, <2>2
  <2> QED BY <2>2, <2>3 DEF n, i, j
<1>7. CASE exact(heading) = {} /\ loose # {}
  <2>1. i \in loose /\ \A k \in loose : i <= k
    BY <1>2, <1>4, <1>5, <1>7
  <2>2. i \in 1..n /\ Lower[ls[i].text] = Lower[heading]
    BY <1>1, <2>1
  <2>3. i \in exact(ls[i].text)
    BY <1>1, <2>2
  <2>4. j \in exact(ls[i].text) /\ j <= i
    BY <1>3, <1>4, <1>5, <2>3
  <2>5. j \in 1..n /\ ls[j].text = ls[i].text
    BY <1>1, <2>4
  <2>6. ASSUME ls[j].level > 0 PROVE j = i
    <3>1. j \in loose
      BY <1>1, <2>2, <2>5, <2>6
    <3> QED BY <2>1, <2>2, <2>4, <2>5, <3>1
  <2> QED BY <2>2, <2>5, <2>6 DEF n, i, j
<1>8. CASE exact(heading) = {} /\ loose = {}
  <2>1. i = 0
    BY <1>2, <1>8
  <2> QED BY <1>5, <2>1 DEF n, i, j
<1> QED BY <1>6, <1>7, <1>8

\* The references a call stores: each is where its heading resolves, and no two have one label.
IsRef(r) == r = [label |-> r.label, heading |-> r.heading, mark |-> r.mark]
Resolves(ls, r) ==
    /\ IsRef(r)
    /\ \E heading : LET i == Book!ResolveHeading(ls, heading) IN
        i # 0 /\ r.heading = ls[i].text /\ r.mark = Book!SectionMark(ls, i)
ApartLabels(refs) == \A m, n \in 1..Len(refs) : m # n => refs[m].label # refs[n].label

LEMMA AddRefKeeps ==
    ASSUME NEW ls, Len(ls) \in Nat, NEW R, NEW refs \in Seq(R), NEW spec,
           \A n \in 1..Len(refs) : Resolves(ls, refs[n]), ApartLabels(refs),
           \A i \in 1..Len(ls) :
               [label |-> Book!LabelOf(spec), heading |-> ls[i].text, mark |-> Book!SectionMark(ls, i)] \in R
    PROVE  LET more == Book!AddRef(ls, refs, spec) IN
              /\ more \in Seq(R)
              /\ \A n \in 1..Len(more) : Resolves(ls, more[n])
              /\ ApartLabels(more)
<1> DEFINE i == Book!ResolveHeading(ls, spec.heading)
           r == [label |-> Book!LabelOf(spec), heading |-> ls[i].text, mark |-> Book!SectionMark(ls, i)]
           taken == \E k \in 1..Len(refs) :
                       Lower[refs[k].label] = Lower[Book!LabelOf(spec)] \/ Lower[refs[k].heading] = Lower[ls[i].text]
           more == Book!AddRef(ls, refs, spec)
<1>1. more = refs \/ (more = Append(refs, r) /\ i # 0 /\ ~taken)
  BY DEF Book!AddRef
<1>2. CASE more = refs
  BY <1>2
<1>3. CASE more = Append(refs, r) /\ i # 0 /\ ~taken
  <2>1. r \in R /\ Resolves(ls, r)
    <3>1. i \in 1..Len(ls)
      <4>1. i \in 0..Len(ls)
        BY ResolvedIs
      <4> HIDE DEF i
      <4> QED BY <1>3, <4>1
    <3>2. r \in R
      <4> HIDE DEF i
      <4> QED BY <3>1
    <3>3. Resolves(ls, r)
      BY <1>3 DEF Resolves, IsRef
    <3> QED BY <3>2, <3>3
  <2>2. \A k \in 1..Len(refs) : refs[k].label # r.label
    BY <1>3
  <2> HIDE DEF r, more, i, taken
  <2>3. /\ more \in Seq(R) /\ Len(refs) \in Nat /\ Len(more) = Len(refs) + 1
        /\ (\A k \in 1..Len(refs) : more[k] = refs[k]) /\ more[Len(refs) + 1] = r
    BY <1>3, <2>1, AppendProperties, LenProperties
  <2> DEFINE n == Len(refs)
  <2> HIDE DEF n
  <2>4. /\ n \in Nat /\ Len(more) = n + 1 /\ \A k \in 1..(n + 1) : k \in 1..n \/ k = n + 1
        /\ (\A k \in 1..n : more[k] = refs[k] /\ Resolves(ls, refs[k]) /\ refs[k].label # r.label)
        /\ more[n + 1] = r
        /\ \A k, m \in 1..n : k # m => refs[k].label # refs[m].label
    <3>1. n \in Nat /\ Len(more) = n + 1 /\ more[n + 1] = r
      BY <2>3 DEF n
    <3>2. \A k \in 1..(n + 1) : k \in 1..n \/ k = n + 1
      BY <3>1
    <3>3. \A k \in 1..n : more[k] = refs[k] /\ Resolves(ls, refs[k]) /\ refs[k].label # r.label
      <4>1. \A k \in 1..Len(refs) : more[k] = refs[k] /\ Resolves(ls, refs[k]) /\ refs[k].label # r.label
        BY <2>2, <2>3, Zenon
      <4> QED BY <4>1, Zenon DEF n
    <3>4. \A k, m \in 1..n : k # m => refs[k].label # refs[m].label
      BY Zenon DEF n, ApartLabels
    <3> QED BY <3>1, <3>2, <3>3, <3>4, Zenon
  <2>5. \A k \in 1..(n + 1) : Resolves(ls, more[k])
    BY <2>1, <2>4
  <2>6. ASSUME NEW k \in 1..(n + 1), NEW m \in 1..(n + 1), k # m PROVE more[k].label # more[m].label
    <3>1. k \in 1..n \/ m \in 1..n
      BY <2>4, <2>6
    <3>2. CASE k \in 1..n /\ m \in 1..n
      BY <2>4, <2>6, <3>2
    <3>3. CASE k = n + 1 /\ m \in 1..n
      BY <2>4, <3>3
    <3>4. CASE m = n + 1 /\ k \in 1..n
      BY <2>4, <3>4
    <3> QED BY <2>4, <2>6, <3>2, <3>3, <3>4
  <2> QED BY <2>3, <2>4, <2>5, <2>6 DEF ApartLabels, more
<1> QED BY <1>1, <1>2, <1>3

LEMMA BuildRefsIs ==
    ASSUME NEW ls, Len(ls) \in Nat, NEW D, NEW specs \in Seq(D)
    PROVE  LET refs == Book!BuildRefs(ls, specs) IN
              /\ Len(refs) \in Nat /\ DOMAIN refs = 1..Len(refs)
              /\ \A n \in 1..Len(refs) : Resolves(ls, refs[n])
              /\ ApartLabels(refs)
<1> DEFINE L == Len(specs)
           R == [label : {Book!LabelOf(specs[k]) : k \in 1..L}, heading : {ls[i].text : i \in 1..Len(ls)},
                 mark : {Book!SectionMark(ls, i) : i \in 1..Len(ls)}]
           Q == {refs \in Seq(R) : (\A n \in 1..Len(refs) : Resolves(ls, refs[n])) /\ ApartLabels(refs)}
           step == [k \in 1..L |-> [refs \in Q |-> Book!AddRef(ls, refs, specs[k])]]
           body(g) == [k \in 0..L |-> IF k = 0 THEN <<>> ELSE Book!AddRef(ls, g[k - 1], specs[k])]
<1>1. L \in Nat
  BY LenProperties
<1>2. ASSUME NEW k \in 1..L, NEW refs \in Q PROVE Book!AddRef(ls, refs, specs[k]) \in Q
  <2>1. \A i \in 1..Len(ls) :
           [label |-> Book!LabelOf(specs[k]), heading |-> ls[i].text, mark |-> Book!SectionMark(ls, i)] \in R
    OBVIOUS
  <2> HIDE DEF R
  <2>2. refs \in Seq(R) /\ (\A n \in 1..Len(refs) : Resolves(ls, refs[n])) /\ ApartLabels(refs)
    OBVIOUS
  <2> DEFINE spec == specs[k]
             more == Book!AddRef(ls, refs, spec)
  <2> HIDE DEF spec
  <2>3. more \in Seq(R) /\ (\A n \in 1..Len(more) : Resolves(ls, more[n])) /\ ApartLabels(more)
    BY <2>1, <2>2, AddRefKeeps DEF spec
  <2> HIDE DEF more
  <2>4. more \in Q
    BY <2>3
  <2> QED BY <2>4 DEF more, spec
<1>3. <<>> \in Q
  <2> HIDE DEF R
  <2>1. <<>> \in Seq(R) /\ Len(<<>>) = 0 /\ 1..0 = {}
    BY EmptySeq
  <2> QED BY <2>1 DEF ApartLabels
<1> HIDE DEF L, Q, R
<1>4. step \in [1..L -> [Q -> Q]]
  BY <1>2
<1>5. PICK g \in [0..L -> Q] : g[0] = <<>> /\ \A k \in 1..L : g[k] = step[k][g[k - 1]]
  <2> DEFINE none == <<>>
  <2>1. L \in Nat /\ none \in Q /\ step \in [1..L -> [Q -> Q]]
    BY <1>1, <1>3, <1>4
  <2> HIDE DEF step, none
  <2>2. Recursion(Q, L, none, step)
    BY <2>1, RecursionExists
  <2> QED BY <2>2 DEF Recursion, none
<1>6. \A k \in 1..L : g[k] = Book!AddRef(ls, g[k - 1], specs[k])
  <2> TAKE k \in 1..L
  <2>1. k - 1 \in 0..L
    BY <1>1
  <2>2. g[k - 1] \in Q
    BY <1>5, <2>1
  <2> QED BY <1>5, <2>2
<1>7. g = body(g)
  <2> DEFINE h == body(g)
  <2>1. \A k \in 0..L : g[k] = h[k]
    <3> TAKE k \in 0..L
    <3>1. CASE k = 0
      BY <1>5, <3>1
    <3>2. CASE k # 0
      <4>1. k \in 1..L
        BY <1>1, <3>2
      <4> QED BY <1>6, <3>2, <4>1
    <3> QED BY <3>1, <3>2
  <2>2. h = [k \in 0..L |-> h[k]] /\ g = [k \in 0..L |-> g[k]]
    BY <1>5
  <2> HIDE DEF h
  <2>3. g = h
    BY <2>1, <2>2
  <2> QED BY <2>3 DEF h
<1> DEFINE built == CHOOSE f : f = body(f)
<1>8. Book!BuildRefs(ls, specs) = built[L]
  BY DEF Book!BuildRefs, L
<1>9. built = body(built)
  <2> HIDE DEF body
  <2> QED BY <1>7
<1>10. built[0] = <<>> /\ \A k \in 1..L : built[k] = Book!AddRef(ls, built[k - 1], specs[k])
  <2> HIDE DEF built
  <2>1. 0 \in 0..L /\ \A k \in 1..L : k \in 0..L /\ k # 0
    BY <1>1
  <2>2. \A k \in 0..L : built[k] = body(built)[k]
    BY <1>9
  <2> QED BY <2>1, <2>2
<1> DEFINE T == {k \in 0..L : built[k] \in Q}
<1>11. \A k \in 0..L : k \in T
  <2> HIDE DEF built
  <2>1. 0 \in T
    BY <1>1, <1>3, <1>10
  <2>2. ASSUME NEW k \in 0..(L - 1), k \in T PROVE k + 1 \in T
    <3>1. k + 1 \in 1..L /\ (k + 1) - 1 = k /\ k + 1 \in 0..L
      BY <1>1
    <3>2. Book!AddRef(ls, built[k], specs[k + 1]) \in Q
      BY <1>2, <2>2, <3>1
    <3> QED BY <1>10, <3>1, <3>2
  <2> HIDE DEF T
  <2> QED BY <1>1, <2>1, <2>2, Upward
<1>12. built[L] \in Q
  <2>1. L \in 0..L
    BY <1>1
  <2> HIDE DEF built
  <2> QED BY <1>11, <2>1
<1> DEFINE refs == Book!BuildRefs(ls, specs)
<1>13. refs \in Q
  BY <1>8, <1>12
<1> HIDE DEF refs, R
<1>14. refs \in Seq(R) /\ (\A n \in 1..Len(refs) : Resolves(ls, refs[n])) /\ ApartLabels(refs)
  BY <1>13 DEF Q
<1>15. Len(refs) \in Nat /\ DOMAIN refs = 1..Len(refs)
  BY <1>14, LenProperties
<1> QED BY <1>14, <1>15 DEF refs

\* No two references have one label, and a reference whose section has a name remembers the line
\* that section began with when it was found.
FollowInv ==
    /\ doc # Book!NoDoc => doc \in Documents
    /\ doing # Book!IdleCall => lines \in Documents
    /\ doing.op = "set" => doing.refs \in Specs
    /\ Len(book.refs) \in Nat /\ DOMAIN book.refs = 1..Len(book.refs)
    /\ DOMAIN home = DOMAIN book.refs /\ \A k \in DOMAIN book.refs : IsRef(book.refs[k])
    /\ ApartLabels(book.refs)
    /\ \A k \in DOMAIN home : home[k].id # 0 => home[k].first = book.refs[k].mark

\* The references a read keeps: those that are found, each once.
Found == {k \in 1..Len(book.refs) : Book!RefNow(lines, book.refs[k]).at # 0}

LEMMA KeptIs ==
    ASSUME Len(book.refs) \in Nat
    PROVE  LET kept == Book!KeptRefs IN
              /\ Len(kept) \in Nat /\ DOMAIN kept = 1..Len(kept)
              /\ \A n \in 1..Len(kept) : kept[n] \in Found
              /\ \A k \in Found : \E n \in 1..Len(kept) : kept[n] = k
              /\ \A m, n \in 1..Len(kept) : m # n => kept[m] # kept[n]
<1> DEFINE L == Len(book.refs)
           all == [k \in 1..L |-> k]
           kept == Book!KeptRefs
<1>1. kept = Those(all, Found)
  BY BookThose DEF Book!KeptRefs, Found
<1>2. all \in Seq(1..L) /\ Len(all) = L /\ \A k \in 1..L : all[k] = k
  OBVIOUS
<1>3. Found \in SUBSET (1..L)
  BY DEF Found
<1> HIDE DEF all, kept, Found, L
<1>4. kept \in Seq(1..L) /\ Places(all, kept, Found, 0, L)
  BY <1>1, <1>2, ThosePlaces, ThoseTyped
<1>5. Len(kept) \in Nat /\ DOMAIN kept = 1..Len(kept)
  BY <1>4, LenProperties
<1>6. PICK place \in [1..Len(kept) -> 1..L] :
          /\ \A i, j \in 1..Len(kept) : i < j => place[i] < place[j]
          /\ \A i \in 1..Len(kept) : kept[i] = all[place[i]] /\ kept[i] \in Found
          /\ \A o \in 1..L : all[o] \in Found => \E i \in 1..Len(kept) : place[i] = o
  <2>1. 0 + 1 = 1
    OBVIOUS
  <2> QED BY <1>4, <2>1 DEF Places
<1>7. \A i \in 1..Len(kept) : kept[i] = place[i] /\ place[i] \in Int /\ i \in Int
  <2> TAKE i \in 1..Len(kept)
  <2>1. place[i] \in 1..L
    BY <1>6
  <2> HIDE DEF L
  <2>2. kept[i] = all[place[i]] /\ all[place[i]] = place[i]
    BY <1>2, <1>6, <2>1
  <2> QED BY <1>3, <1>5, <2>1, <2>2
<1>8. \A k \in Found : \E n \in 1..Len(kept) : kept[n] = k
  BY <1>2, <1>3, <1>6, <1>7
<1>9. ASSUME NEW m \in 1..Len(kept), NEW n \in 1..Len(kept), m # n PROVE kept[m] # kept[n]
  <2>1. m < n \/ n < m
    BY <1>7, <1>9
  <2>2. place[m] < place[n] \/ place[n] < place[m]
    BY <1>6, <2>1
  <2>3. place[m] # place[n]
    BY <1>7, <2>2
  <2> QED BY <1>7, <2>3
<1> QED BY <1>5, <1>6, <1>8, <1>9 DEF kept

LEMMA FollowStarts == DiskInit => (tool = "bookmark" => FollowInv)
<1> SUFFICES ASSUME DiskInit, tool = "bookmark" PROVE FollowInv
  OBVIOUS
<1>1. Book!BookInit
  BY DEF DiskInit
<1>2. doc \in Docs /\ book = Book!NoBook /\ doing = Book!IdleCall /\ doing.op # "set" /\ home = <<>>
  BY <1>1 DEF Book!BookInit, Book!Unmarked, Book!IdleCall
<1>4. doc \in Documents
  BY <1>2, DocsAssumption DEF Documents
<1>5. book.refs = <<>>
  BY <1>2 DEF Book!NoBook
<1>6. Len(book.refs) = 0 /\ DOMAIN book.refs = {} /\ 1..0 = {} /\ DOMAIN home = {}
  BY <1>2, <1>5
<1> QED BY <1>2, <1>4, <1>6 DEF FollowInv, ApartLabels

\* Sections lie in the document.
LEMMA SectionEndIs ==
    ASSUME NEW ls, Len(ls) \in Nat, NEW i \in 1..Len(ls)
    PROVE  Book!SectionEnd(ls, i) \in i..Len(ls)
<1> DEFINE n == Len(ls)
           after == {k \in (i + 1)..n : ls[k].level \in 1..ls[i].level}
<1>1. Book!SectionEnd(ls, i) = IF after = {} THEN n ELSE Book!Min(after) - 1
  BY DEF Book!SectionEnd
<1>2. after \in SUBSET ((i + 1)..n) /\ n \in Nat /\ i \in 1..n
  OBVIOUS
<1> HIDE DEF after, n
<1>3. after \in SUBSET (1..n)
  BY <1>2
<1>4. after # {} => Book!Min(after) \in after
  BY <1>2, <1>3, BookMinIs
<1>5. after # {} => Book!Min(after) \in (i + 1)..n
  BY <1>2, <1>4
<1>6. Book!SectionEnd(ls, i) \in i..n
  BY <1>1, <1>2, <1>5
<1> QED BY <1>6 DEF n

\* Lines from one place of a document to another are lines of it.
LEMMA CutTyped ==
    ASSUME NEW d \in Documents, NEW a \in 1..(Len(d) + 1), NEW b \in 0..Len(d)
    PROVE  SubSeq(d, a, b) \in Documents
<1>1. Len(d) \in Nat /\ \A i \in 1..Len(d) : d[i] \in DocLine
  BY LenProperties, ElementOfSeq DEF Documents
<1>2. a \in Int /\ b \in Int /\ \A i \in a..b : d[i] \in DocLine
  BY <1>1
<1> QED BY <1>2, SubSeqProperties DEF Documents

\* The owner's edits leave lines.
LEMMA EditsKeep ==
    ASSUME doc \in Documents, NEW i \in 1..Len(doc),
           Book!MoveSection(i) \/ Book!DropSection(i) \/ \E t \in Texts : Book!Rewrite(i, t)
    PROVE  doc' = Book!NoDoc \/ doc' \in Documents
<1> DEFINE e == Book!SectionEnd(doc, i)
           n == Len(doc)
<1>1. n \in Nat /\ i \in 1..n /\ e \in i..n /\ DOMAIN doc = 1..n
  <2>1. n \in Nat /\ DOMAIN doc = 1..n
    BY LenProperties DEF Documents
  <2> HIDE DEF n
  <2>2. i \in 1..n
    BY DEF n
  <2> QED BY <2>1, <2>2, SectionEndIs DEF n
<1> HIDE DEF e
<1>2. SubSeq(doc, 1, i - 1) \in Documents /\ SubSeq(doc, e + 1, n) \in Documents /\ SubSeq(doc, i, e) \in Documents
  <2>1. /\ 1 \in 1..(n + 1) /\ i - 1 \in 0..n /\ e + 1 \in 1..(n + 1) /\ n \in 0..n
        /\ i \in 1..(n + 1) /\ e \in 0..n
    BY <1>1
  <2> HIDE DEF n
  <2>2. \A a \in 1..(n + 1), b \in 0..n : SubSeq(doc, a, b) \in Documents
    BY CutTyped DEF n
  <2> QED BY <2>1, <2>2
<1>3. CASE Book!MoveSection(i)
  <2> DEFINE a == SubSeq(doc, 1, i - 1)
             b == SubSeq(doc, e + 1, n)
             c == SubSeq(doc, i, e)
  <2>1. doc' = (a \o b) \o c
    BY <1>3 DEF Book!MoveSection, e
  <2>2. a \in Documents /\ b \in Documents /\ c \in Documents
    BY <1>2
  <2> HIDE DEF a, b, c
  <2> QED BY <2>1, <2>2, ConcatProperties DEF Documents
<1>4. CASE Book!DropSection(i)
  <2> DEFINE a == SubSeq(doc, 1, i - 1)
             b == SubSeq(doc, e + 1, n)
  <2>1. doc' = IF a \o b = <<>> THEN Book!NoDoc ELSE a \o b
    BY <1>4 DEF Book!DropSection, e
  <2>2. a \in Documents /\ b \in Documents
    BY <1>2
  <2> HIDE DEF a, b
  <2>3. a \o b \in Documents
    BY <2>2, ConcatProperties DEF Documents
  <2> QED BY <2>1, <2>3
<1>5. CASE \E t \in Texts : Book!Rewrite(i, t)
  <2>1. PICK t \in Texts : doc' = [doc EXCEPT ![i].text = t]
    BY <1>5 DEF Book!Rewrite
  <2>2. doc[i] \in DocLine
    BY ElementOfSeq DEF Documents
  <2>3. [doc[i] EXCEPT !.text = t] \in DocLine
    BY <2>2, DocsAssumption DEF DocLine
  <2> DEFINE l == [doc[i] EXCEPT !.text = t]
  <2>4. doc' = [doc EXCEPT ![i] = l]
    BY <2>1
  <2> HIDE DEF l
  <2>5. [doc EXCEPT ![i] = l] \in Seq(DocLine)
    BY <2>3, ExceptSeq DEF Documents, l
  <2> QED BY <2>4, <2>5 DEF Documents
<1> QED BY <1>3, <1>4, <1>5

\* What a call stores keeps its references apart, and remembers how their sections begin.
LEMMA SetFollows == FollowInv /\ BookInv /\ Book!SetSaves => FollowInv'
<1> SUFFICES ASSUME FollowInv, BookInv, Book!SetSaves PROVE FollowInv'
  OBVIOUS
<1> DEFINE refs == Book!BuildRefs(lines, doing.refs)
           section(i) == [id |-> lines[i].id, first |-> Book!SectionMark(lines, i)]
           line(k) == Book!ResolveHeading(lines, refs[k].heading)
<1>1. /\ doing.op = "set" /\ doing' = Book!IdleCall /\ UNCHANGED <<doc, lines>>
      /\ book'.refs = refs
      /\ home' = [k \in DOMAIN refs |-> section(line(k))]
  BY DEF Book!SetSaves, Book!Verifies, Book!World, Book!Section
<1>2. doing # Book!IdleCall
  BY <1>1 DEF Book!IdleCall
<1>3. lines \in Seq(DocLine) /\ doing.refs \in Seq([label : STRING, heading : STRING]) /\ Len(lines) \in Nat
  BY <1>1, <1>2, DocsAssumption, LenProperties DEF FollowInv, Documents
<1>4. /\ Len(refs) \in Nat /\ DOMAIN refs = 1..Len(refs)
      /\ \A n \in 1..Len(refs) : Resolves(lines, refs[n])
      /\ ApartLabels(refs)
  BY <1>3, BuildRefsIs
<1> HIDE DEF refs
<1>5. ASSUME NEW k \in 1..Len(refs), section(line(k)).id # 0 PROVE section(line(k)).first = refs[k].mark
  <2>1. PICK heading : LET i == Book!ResolveHeading(lines, heading) IN
            i # 0 /\ refs[k].heading = lines[i].text /\ refs[k].mark = Book!SectionMark(lines, i)
    BY <1>4 DEF Resolves
  <2> DEFINE i == Book!ResolveHeading(lines, heading)
             j == Book!ResolveHeading(lines, lines[i].text)
  <2>2. i # 0 /\ refs[k].mark = Book!SectionMark(lines, i) /\ line(k) = j
    BY <2>1
  <2>3. j \in 1..Len(lines) /\ (lines[j].level > 0 => j = i)
    BY <1>3, <2>2, ResolvedIs
  <2> HIDE DEF i, j, line
  <2>4. lines[j] \in DocLine
    BY <1>3, <2>3, ElementOfSeq
  <2>5. lines[j].level > 0
    BY <1>5, <2>2, <2>4 DEF DocLine
  <2> QED BY <2>2, <2>3, <2>5
<1> HIDE DEF line
<1>6. DOMAIN home' = 1..Len(refs) /\ \A k \in DOMAIN home' : home'[k].id # 0 => home'[k].first = refs[k].mark
  <2> HIDE DEF section
  <2> QED BY <1>1, <1>4, <1>5
<1> QED BY <1>1, <1>4, <1>6 DEF FollowInv, ApartLabels, Book!IdleCall, Resolves

\* A read keeps a reference's label and heading, its mark when the heading is gone, and remembers
\* the line its section begins with when it is found by the heading.
LEMMA NowIs ==
    ASSUME NEW ls, NEW r, IsRef(r)
    PROVE  LET new == Book!RefNow(ls, r).ref
               hits == Book!FindHeadings(ls, r.heading)
           IN /\ IsRef(new) /\ new.label = r.label /\ new.heading = r.heading
              /\ hits = {} => new = r
              /\ hits # {} /\ Book!RefNow(ls, r).at # 0 =>
                    new.mark = Book!SectionMark(ls, Book!RefNow(ls, r).at)
BY DEF Book!RefNow, IsRef

\* What a read stores are the references it found, as they are now.
LEMMA ReadFollows == FollowInv /\ BookInv /\ Book!ReadSaves => FollowInv'
<1> SUFFICES ASSUME FollowInv, BookInv, Book!ReadSaves PROVE FollowInv'
  OBVIOUS
<1> DEFINE kept == Book!KeptRefs
           old(n) == book.refs[kept[n]]
           place(n) == Book!RefNow(lines, old(n)).at
           new(n) == Book!RefNow(lines, old(n)).ref
           refs == [n \in DOMAIN kept |-> new(n)]
           section(i) == [id |-> lines[i].id, first |-> Book!SectionMark(lines, i)]
           lost(n) == Book!FindHeadings(lines, refs[n].heading) = {}
<1>1. /\ doing.op = "read" /\ doing' = Book!IdleCall /\ UNCHANGED <<doc, lines>>
      /\ book' = [book EXCEPT !.refs = refs]
      /\ home' = [n \in DOMAIN kept |-> IF lost(n) THEN home[kept[n]] ELSE section(place(n))]
  <2>1. [n \in DOMAIN kept |-> [n_1 \in DOMAIN kept |-> Book!RefNow(lines, book.refs[kept[n_1]])][n].ref] = refs
    OBVIOUS
  <2> QED BY <2>1 DEF Book!ReadSaves, Book!Verifies, Book!World, Book!Section
<1>2. doing # Book!IdleCall
  BY <1>1 DEF Book!IdleCall
<1>3. lines \in Seq(DocLine) /\ Len(lines) \in Nat
  BY <1>2, LenProperties DEF FollowInv, Documents
<1>4. /\ Len(kept) \in Nat /\ DOMAIN kept = 1..Len(kept)
      /\ \A n \in 1..Len(kept) : kept[n] \in Found
      /\ \A m, n \in 1..Len(kept) : m # n => kept[m] # kept[n]
  <2>1. Len(book.refs) \in Nat
    BY DEF FollowInv
  <2> HIDE DEF kept
  <2> QED BY <2>1, KeptIs DEF kept
<1> HIDE DEF kept
<1>5. \A n \in DOMAIN kept : kept[n] \in DOMAIN book.refs /\ place(n) # 0 /\ IsRef(old(n))
  <2> TAKE n \in DOMAIN kept
  <2>1. kept[n] \in Found
    BY <1>4
  <2> QED BY <2>1 DEF FollowInv, Found
<1>6. ASSUME NEW n \in DOMAIN kept
      PROVE  /\ refs[n] = new(n) /\ IsRef(new(n)) /\ new(n).label = old(n).label /\ new(n).heading = old(n).heading
             /\ Book!FindHeadings(lines, old(n).heading) = {} => new(n) = old(n)
             /\ Book!FindHeadings(lines, old(n).heading) # {} => new(n).mark = Book!SectionMark(lines, place(n))
  <2>1. IsRef(old(n)) /\ place(n) # 0
    BY <1>5
  <2>2. refs[n] = new(n)
    OBVIOUS
  <2> HIDE DEF refs
  <2> QED BY <2>1, <2>2, NowIs
<1>7. book'.refs = refs /\ Len(refs) = Len(kept) /\ DOMAIN refs = 1..Len(kept)
  <2>1. book'.refs = refs
    BY <1>1 DEF BookInv
  <2>2. DOMAIN refs = 1..Len(kept)
    BY <1>4
  <2> HIDE DEF refs
  <2>3. Len(refs) = Len(kept)
    BY <1>4, <2>2
  <2> QED BY <2>1, <2>2, <2>3
<1>8. ASSUME NEW n \in DOMAIN kept, home'[n].id # 0 PROVE home'[n].first = refs[n].mark
  <2>1. home'[n] = IF lost(n) THEN home[kept[n]] ELSE section(place(n))
    BY <1>1
  <2>2. lost(n) <=> Book!FindHeadings(lines, old(n).heading) = {}
    BY <1>6
  <2>3. CASE lost(n)
    <3>1. new(n) = old(n) /\ home'[n] = home[kept[n]] /\ kept[n] \in DOMAIN home
      BY <1>5, <1>6, <2>1, <2>2, <2>3 DEF FollowInv
    <3> QED BY <1>6, <1>8, <3>1 DEF FollowInv
  <2>4. CASE ~lost(n)
    <3>1. new(n).mark = Book!SectionMark(lines, place(n)) /\ home'[n] = section(place(n))
      BY <1>6, <2>1, <2>2, <2>4
    <3> QED BY <1>6, <3>1
  <2> QED BY <2>3, <2>4
<1>9. ASSUME NEW m \in DOMAIN kept, NEW n \in DOMAIN kept, m # n PROVE refs[m].label # refs[n].label
  <2>1. kept[m] # kept[n] /\ kept[m] \in DOMAIN book.refs /\ kept[n] \in DOMAIN book.refs
    BY <1>4, <1>5, <1>9
  <2>2. old(m).label # old(n).label
    BY <2>1 DEF FollowInv, ApartLabels
  <2> QED BY <1>6, <2>2
<1>10. DOMAIN home' = DOMAIN kept
  BY <1>1
<1>11. \A n \in DOMAIN kept : IsRef(refs[n])
  BY <1>6
<1> HIDE DEF refs, section, place, new, lost
<1>12. lines' \in Documents /\ doc' = doc /\ doing' = Book!IdleCall /\ doing'.op # "set"
  BY <1>1, <1>3 DEF Documents, Book!IdleCall
<1>13. ApartLabels(book'.refs)
  BY <1>4, <1>7, <1>9 DEF ApartLabels
<1> QED BY <1>4, <1>7, <1>8, <1>10, <1>11, <1>12, <1>13 DEF FollowInv

\* The calls, edits of the document and changes of the repository keep the invariant.
LEMMA FollowKeeps == FollowInv /\ BookInv /\ tool = "bookmark" /\ [DiskNext]_allVars => FollowInv'
<1> SUFFICES ASSUME FollowInv, BookInv, tool = "bookmark", [DiskNext]_allVars PROVE FollowInv'
  OBVIOUS
<1>1. CASE UNCHANGED bookVars
  BY <1>1 DEF bookVars, FollowInv, ApartLabels
<1>2. CASE BookStep
  <2> USE DEF Book!World, Book!History
  <2>1. Book!BookNext
    BY <1>2 DEF BookStep
  <2>2. CASE Book!SetReads \/ Book!ReadReads
    <3>1. /\ doc # Book!NoDoc /\ lines' = doc /\ UNCHANGED <<doc, book, home>>
          /\ doing'.op = "set" => doing'.refs \in Specs
      BY <2>2 DEF Book!SetReads, Book!ReadReads, Book!Begin
    <3> QED BY <3>1 DEF FollowInv, ApartLabels
  <2>3. CASE Book!SetSaves
    BY <2>3, SetFollows
  <2>4. CASE Book!ReadSaves
    BY <2>4, ReadFollows
  <2>5. CASE Book!Cleared \/ Book!Clear
    <3>1. UNCHANGED <<doc, lines>> /\ book' = Book!NoBook /\ home' = <<>> /\ doing' = Book!IdleCall
      BY <2>5 DEF Book!Cleared, Book!Clear
    <3>2. book'.refs = <<>>
      BY <3>1 DEF Book!NoBook
    <3>3. Len(book'.refs) = 0 /\ DOMAIN book'.refs = {} /\ 1..0 = {} /\ DOMAIN home' = {} /\ doing'.op # "set"
      BY <3>1, <3>2 DEF Book!IdleCall
    <3> QED BY <3>1, <3>3 DEF FollowInv, ApartLabels
  <2>6. CASE Book!CallFails
    <3>1. UNCHANGED <<doc, lines, book, home>> /\ doing' = Book!IdleCall /\ doing'.op # "set"
      BY <2>6 DEF Book!CallFails, Book!IdleCall
    <3> QED BY <3>1 DEF FollowInv, ApartLabels
  <2>7. CASE \E i \in DOMAIN doc : \/ Book!MoveSection(i) \/ Book!DropSection(i)
                                  \/ \E t \in Texts : Book!Rewrite(i, t)
    <3>1. PICK i \in DOMAIN doc : Book!MoveSection(i) \/ Book!DropSection(i) \/ \E t \in Texts : Book!Rewrite(i, t)
      BY <2>7
    <3>2. doc # Book!NoDoc /\ UNCHANGED <<lines, book, doing, home>>
      BY <3>1 DEF Book!MoveSection, Book!DropSection, Book!Rewrite, Book!Edits, Book!Happens
    <3>3. doc \in Documents /\ i \in 1..Len(doc)
      BY <3>2, LenProperties DEF FollowInv, Documents
    <3>4. doc' = Book!NoDoc \/ doc' \in Documents
      BY <3>1, <3>3, EditsKeep
    <3> QED BY <3>2, <3>4 DEF FollowInv, ApartLabels
  <2>8. CASE RepositoryChanges
    <3>1. UNCHANGED BookRest
      BY <2>8, RepositoryKeeps DEF BookInv
    <3> QED BY <3>1 DEF FollowInv, ApartLabels, BookRest
  <2> QED BY <2>1, <2>2, <2>3, <2>4, <2>5, <2>6, <2>7, <2>8, Zenon
         DEF Book!BookNext, RepositoryChanges, Kinds, Book!ToSet, ToSet
<1>3. CASE OwnerSaves
  BY <1>3 DEF OwnerSaves, Save, BookInv
<1> QED BY <1>1, <1>2, <1>3
        DEF DiskNext, DirectStep, TreeStep, BatchStep, GitStep, CacheStep, allVars, toolVars, diskVars

\* A reference is shown where it is found: its label tells it from the others.
LEMMA ShownIs ==
    ASSUME FollowInv, Book!ReadSaves, NEW k \in DOMAIN book.refs, NEW i
    PROVE  Book!Shown(k, i) <=> i # 0 /\ Book!RefNow(lines, book.refs[k]).at = i
<1> DEFINE kept == Book!KeptRefs
           seen(n) == Book!RefNow(lines, book.refs[kept[n]])
           place == Book!RefNow(lines, book.refs[k]).at
<1>1. /\ Len(kept) \in Nat /\ DOMAIN kept = 1..Len(kept)
      /\ \A n \in 1..Len(kept) : kept[n] \in Found
      /\ \A m \in Found : \E n \in 1..Len(kept) : kept[n] = m
  <2>1. Len(book.refs) \in Nat
    BY DEF FollowInv
  <2> HIDE DEF kept
  <2> QED BY <2>1, KeptIs DEF kept
<1>2. spans' = [n \in DOMAIN kept |-> Book!Span(lines, seen(n))]
  <2>1. spans' = [n \in DOMAIN kept |-> Book!Span(lines, [m \in DOMAIN kept |-> seen(m)][n])]
    BY DEF Book!ReadSaves
  <2> QED BY <2>1
<1> HIDE DEF kept
<1>3. ASSUME NEW n \in DOMAIN kept
      PROVE  /\ spans'[n].label = book.refs[kept[n]].label /\ spans'[n].start = seen(n).at
             /\ kept[n] \in DOMAIN book.refs /\ seen(n).at # 0
  <2>1. kept[n] \in DOMAIN book.refs /\ IsRef(book.refs[kept[n]]) /\ seen(n).at # 0
    BY <1>1 DEF FollowInv, Found
  <2>2. seen(n).ref.label = book.refs[kept[n]].label
    BY <2>1, NowIs
  <2>3. spans'[n] = Book!Span(lines, seen(n))
    BY <1>2
  <2> QED BY <2>1, <2>2, <2>3 DEF Book!Span
<1>4. DOMAIN spans' = DOMAIN kept
  BY <1>2
<1>5. ASSUME Book!Shown(k, i) PROVE i # 0 /\ place = i
  <2>1. PICK n \in DOMAIN spans' : spans'[n].label = book.refs[k].label /\ spans'[n].start = i
    BY <1>5 DEF Book!Shown
  <2>2. n \in DOMAIN kept
    BY <1>4, <2>1
  <2>3. book.refs[kept[n]].label = book.refs[k].label /\ kept[n] \in DOMAIN book.refs
    BY <1>3, <2>1, <2>2
  <2>4. kept[n] = k
    BY <2>3 DEF FollowInv, ApartLabels
  <2> QED BY <1>3, <2>1, <2>2, <2>4
<1>6. ASSUME i # 0, place = i PROVE Book!Shown(k, i)
  <2>1. k \in Found
    BY <1>6 DEF Found, FollowInv
  <2>2. PICK n \in 1..Len(kept) : kept[n] = k
    BY <1>1, <2>1
  <2>3. n \in DOMAIN spans' /\ spans'[n].label = book.refs[k].label /\ spans'[n].start = i
    BY <1>1, <1>3, <1>4, <1>6, <2>2
  <2> QED BY <2>3 DEF Book!Shown
<1> QED BY <1>5, <1>6

\* When the sections mention no more files than are looked for, all of them are in scope: the
\* first place that mentions one comes after places that mention the others only.
LEMMA ScopeIs ==
    ASSUME NEW n \in Nat, NEW m \in Nat, NEW ls, NEW ss, DOMAIN ss = 1..n, DOMAIN ls = 1..m,
           Book!Cardinality(Book!TextsAt(ls, Book!Mention(ls, ss))) <= PathScanCap
    PROVE  Book!InScope(ls, ss) = Book!TextsAt(ls, Book!Mention(ls, ss))
<1> DEFINE places == Book!Mention(ls, ss)
           wordOf(p) == ls[p[2]].text
           words(P) == {wordOf(p) : p \in P}
           before(p) == {q \in places : Book!Earlier(q, p)}
           early == {p \in places : Cardinality(words(before(p))) < PathScanCap}
<1>1. \A p \in places : p \in (1..n) \X (1..m) /\ wordOf(p) \in ToSet(Files)
  BY DEF Book!Mention, Book!ToSet, ToSet
<1>2. Book!InScope(ls, ss) = words(early) /\ Book!TextsAt(ls, places) = words(places)
  BY BookCount DEF Book!InScope, Book!TextsAt
<1>3. Cardinality(words(places)) <= PathScanCap /\ PathScanCap \in Nat
  BY <1>2, BookCount, DocsAssumption
<1> HIDE DEF places
<1>4. IsFiniteSet(words(places))
  <2>1. Files \in Surjection(1..Len(Files), ToSet(Files)) /\ Len(Files) \in Nat
    BY DocsAssumption DEF Surjection, ToSet
  <2>2. IsFiniteSet(ToSet(Files))
    BY <2>1, FS_NatSurjection DEF ExistsSurjection
  <2>3. words(places) \in SUBSET ToSet(Files)
    BY <1>1
  <2> QED BY <2>2, <2>3, FS_Subset
<1>5. ASSUME NEW p0 \in places PROVE \E p \in early : wordOf(p) = wordOf(p0)
  <2> DEFINE t == wordOf(p0)
             K == {k \in 1..n : \E i \in 1..m : <<k, i>> \in places /\ wordOf(<<k, i>>) = t}
  <2>1. p0[1] \in K
    <3>1. p0 = <<p0[1], p0[2]>> /\ p0[1] \in 1..n /\ p0[2] \in 1..m
      BY <1>1
    <3> QED BY <3>1
  <2>2. PICK k \in K : \A o \in K : k <= o
    <3>1. K \in SUBSET Int /\ 1 \in Int /\ \A o \in K : 1 <= o
      OBVIOUS
    <3> HIDE DEF K
    <3> QED BY <2>1, <3>1, LeastExists
  <2> DEFINE I == {i \in 1..m : <<k, i>> \in places /\ wordOf(<<k, i>>) = t}
  <2>3. PICK i \in I : \A o \in I : i <= o
    <3>1. I \in SUBSET (1..m) /\ \E i \in 1..m : i \in I
      BY <2>2
    <3> HIDE DEF I
    <3>2. I \in SUBSET Int /\ I # {} /\ 1 \in Int /\ \A o \in I : 1 <= o
      BY <3>1
    <3> QED BY <3>2, LeastExists
  <2> DEFINE p == <<k, i>>
  <2>4. p \in places /\ wordOf(p) = t /\ k \in Int /\ i \in Int
    BY <2>2, <2>3
  <2>5. \A q \in before(p) : wordOf(q) # t
    <3> SUFFICES ASSUME NEW q \in places, Book!Earlier(q, p), wordOf(q) = t PROVE FALSE
      OBVIOUS
    <3>1. q = <<q[1], q[2]>> /\ q[1] \in 1..n /\ q[2] \in 1..m
      BY <1>1
    <3>2. q[1] \in K
      BY <3>1
    <3>3. k <= q[1]
      BY <2>2, <3>2
    <3>4. q[1] = k /\ q[2] < i
      BY <2>4, <3>1, <3>3 DEF Book!Earlier
    <3>5. q[2] \in I
      BY <3>1, <3>4
    <3> QED BY <2>3, <2>4, <3>1, <3>4, <3>5
  <2> DEFINE rest == words(places) \ {t}
  <2>6. words(before(p)) \in SUBSET rest /\ t \in words(places)
    BY <2>5
  <2>7. /\ IsFiniteSet(rest) /\ Cardinality(rest) = Cardinality(words(places)) - 1
        /\ Cardinality(words(places)) \in Nat
    <3> HIDE DEF t, wordOf, words
    <3> QED BY <1>4, <2>6, FS_RemoveElement, FS_CardinalityType
  <2>8. /\ Cardinality(words(before(p))) <= Cardinality(rest)
        /\ Cardinality(words(before(p))) \in Nat
    <3> HIDE DEF rest, words, before
    <3> QED BY <2>6, <2>7, FS_Subset, FS_CardinalityType
  <2>9. Cardinality(words(before(p))) < PathScanCap
    <3> HIDE DEF rest, words, before
    <3> QED BY <1>3, <2>7, <2>8
  <2>10. p \in early
    BY <2>4, <2>9
  <2> HIDE DEF p, early
  <2> QED BY <2>4, <2>10
<1>6. words(early) = words(places)
  BY <1>5
<1> HIDE DEF words
<1> QED BY <1>2, <1>6 DEF places

\* A read that answers IDLE answers that the document is the one that was verified, unless the
\* call that verified it was overtaken, and the repository the one of the bookmark, as far as git
\* answered; one that does not answer PROGRESS has been told of no change in a file that the
\* sections mention, when these mention no more than are looked for.
THEOREM VerdictHolds == DiskSpec => VerdictTrue
<1>1. DiskInit => (tool = "bookmark" => BookInv /\ FollowInv)
  BY BookStarts, FollowStarts
<1>2. (tool = "bookmark" => BookInv /\ FollowInv) /\ [DiskNext]_allVars => (tool = "bookmark" => BookInv /\ FollowInv)'
  <2>1. [DiskNext]_allVars => tool' = tool
    BY DEF DiskNext, DirectStep, TreeStep, BatchStep, GitStep, OwnerSaves, CacheStep, BookStep, allVars
  <2> QED BY <2>1, BookKeeps, FollowKeeps
<1>3. (tool = "bookmark" => BookInv /\ FollowInv) /\ [DiskNext]_allVars => [tool = "bookmark" => Book!VerdictTrue]_allVars
  <2> SUFFICES ASSUME BookInv, FollowInv, DiskNext, tool = "bookmark", Book!Answers PROVE Book!VerdictTrue
    BY DEF Book!VerdictTrue
  <2> DEFINE mentioned == Book!TextsAt(lines, Book!Mention(lines, spans'))
  <2>1. Book!ReadSaves
    <3>1. Book!BookNext
      BY DEF DiskNext, DirectStep, TreeStep, BatchStep, GitStep, CacheStep, BookStep, OwnerSaves, Save, BookInv
    <3>2. ~Book!NoReply
      BY DEF Book!NoReply, Book!Answers
    <3> QED BY <3>1, <3>2, Zenon
            DEF Book!BookNext, Book!SetReads, Book!ReadReads, Book!Begin, Book!SetSaves, Book!Cleared, Book!Clear,
                Book!CallFails, Book!MoveSection, Book!DropSection, Book!Rewrite, Book!Edits, Book!Happens,
                Book!Checkout, Book!Changes, Book!Amend, Book!Commit, Book!Repository
  <2>2. PICK refs : verdict' = Book!Verdict(lines, spans', refs, Book!Report(missed'))
    BY <2>1 DEF Book!ReadSaves
  <2> DEFINE lost == missed'
             rep == Book!Report(lost)
             told == Book!Snapshot(lost)
  <2>3. ASSUME verdict' # "PROGRESS" PROVE ~edited /\ Book!ScopeMatches(lines, spans', rep) = {}
    BY <2>2, <2>3 DEF Book!Verdict, Book!Progress
  <2>4. ASSUME verdict' = "IDLE"
        PROVE  rep.commits = <<>> /\ rep.dirty = book.dirty /\ ~rep.branched /\ ~rep.rewritten
    <3> HIDE DEF rep
    <3> QED BY <2>2, <2>4 DEF Book!Verdict, rep
  <2>5. /\ told.branch = (IF "branch" \in lost THEN "" ELSE git.branch)
        /\ told.sha = (IF "sha" \in lost THEN <<>> ELSE git.sha)
        /\ told.dirty = (IF "status" \in lost THEN {} ELSE Book!ParsePorcelain(git.dirty))
    BY DEF Book!Snapshot
  <2>6. /\ rep.dirty = told.dirty
        /\ rep.branched <=> (told.branch # "" /\ book.branch # "" /\ told.branch # book.branch)
        /\ rep.commits = (IF Book!HeadMoved(told) THEN Book!CommitsSince(lost) ELSE <<>>)
        /\ rep.files = (IF Book!HeadMoved(told) THEN Book!ChangedFiles(lost) ELSE {})
        /\ rep.rewritten <=> (Book!HeadMoved(told) /\ ~Book!IsAncestor(lost))
    BY DEF Book!Report
  <2>7. /\ git.branch \in {"main", "work"} /\ git.sha \in Seq(Commits) /\ git.sha # <<>>
        /\ book.sha \in Seq(Commits)
        /\ "branch" \notin unheard => book.branch \in {"main", "work"}
        /\ "sha" \notin unheard => book.sha # <<>>
        /\ ~edited => doc = verified \/ raced
    <3>1. book # Book!NoBook
      BY <2>1 DEF BookInv, Book!ReadSaves
    <3> QED BY <3>1 DEF BookInv, Repositories
  <2> HIDE DEF rep, told
  <2>8. ASSUME verdict' = "IDLE" PROVE doc = verified \/ raced
    BY <2>3, <2>7, <2>8
  <2>9. ASSUME verdict' = "IDLE", Book!Heard({"branch"}) PROVE git.branch = book.branch
    <3>1. "branch" \notin unheard /\ "branch" \notin lost
      BY <2>9 DEF Book!Heard
    <3> QED BY <2>4, <2>5, <2>6, <2>7, <2>9, <3>1
  <2>10. ASSUME verdict' = "IDLE", Book!Heard({"sha", "log"}) PROVE git.sha = book.sha
    <3>1. "sha" \notin unheard /\ "sha" \notin lost /\ "log" \notin lost
      BY <2>10 DEF Book!Heard
    <3>2. told.sha = git.sha /\ book.sha # <<>>
      BY <2>5, <2>7, <3>1
    <3>3. ASSUME git.sha # book.sha PROVE FALSE
      <4>1. Book!HeadMoved(told)
        BY <2>7, <3>2, <3>3 DEF Book!HeadMoved
      <4>2. Book!IsAncestor(lost) /\ Book!CommitsSince(lost) = <<>>
        BY <2>4, <2>6, <2>10, <4>1
      <4>3. Book!Since = <<>> /\ Book!IsPrefix(book.sha, git.sha)
        BY <3>1, <4>2 DEF Book!CommitsSince, Book!IsAncestor
      <4> QED BY <2>7, <3>3, <4>3, NothingSince
    <3> QED BY <3>3
  <2>11. {x.file : x \in Book!ParsePorcelain(git.dirty)} = {d.file : d \in git.dirty}
    <3> DEFINE changed == SelectSeq(Files, LAMBDA f : \E k \in {"changed", "deleted"} : [file |-> f, kind |-> k] \in git.dirty)
               row(d) == [file |-> d.file, cut |-> changed # <<>> /\ d.file = Head(changed)]
    <3>1. Book!ParsePorcelain(git.dirty) = {row(d) : d \in git.dirty}
      BY DEF Book!ParsePorcelain
    <3>2. \A d : row(d).file = d.file
      OBVIOUS
    <3> HIDE DEF row
    <3> QED BY <3>1, <3>2
  <2>12. ASSUME verdict' = "IDLE", Book!Heard({"status"})
         PROVE  {d.file : d \in git.dirty} = {d.file : d \in book.dirty}
    <3>1. "status" \notin lost
      BY <2>12 DEF Book!Heard
    <3>2. book.dirty = Book!ParsePorcelain(git.dirty)
      BY <2>4, <2>5, <2>6, <2>12, <3>1
    <3> QED BY <2>11, <3>2
  <2>13. ASSUME verdict' # "PROGRESS", Book!Cardinality(mentioned) <= PathScanCap
         PROVE  /\ \A d \in rep.dirty : ~d.cut => d.file \notin mentioned
                /\ \A f \in rep.files : f \notin mentioned
    <3>1. Book!InScope(lines, spans') = mentioned
      <4> DEFINE kept == Book!KeptRefs
      <4>1. DOMAIN spans' = DOMAIN kept
        BY <2>1 DEF Book!ReadSaves
      <4>2. Len(kept) \in Nat /\ DOMAIN kept = 1..Len(kept)
        <5>1. Len(book.refs) \in Nat
          BY DEF FollowInv
        <5> HIDE DEF kept
        <5> QED BY <5>1, KeptIs DEF kept
      <4>3. doing # Book!IdleCall
        BY <2>1 DEF Book!ReadSaves, Book!IdleCall
      <4>4. Len(lines) \in Nat /\ DOMAIN lines = 1..Len(lines)
        BY <4>3, LenProperties DEF FollowInv, Documents
      <4> HIDE DEF kept
      <4> QED BY <2>13, <4>1, <4>2, <4>4, ScopeIs
    <3> HIDE DEF mentioned
    <3> QED BY <2>3, <2>13, <3>1 DEF Book!ScopeMatches
  <2>14. ASSUME verdict' # "PROGRESS", Book!Cardinality(mentioned) <= PathScanCap, "status" \notin lost,
                NEW d \in Book!ParsePorcelain(git.dirty), d.file \in mentioned
         PROVE  d.cut
    <3>1. d \in rep.dirty
      BY <2>5, <2>6, <2>14
    <3> HIDE DEF mentioned
    <3> QED BY <2>13, <2>14, <3>1
  <2>15. ASSUME verdict' # "PROGRESS", Book!Cardinality(mentioned) <= PathScanCap,
                Book!Heard({"sha", "ancestor", "files"}), Book!IsPrefix(book.sha, git.sha),
                NEW c \in Book!ToSet(Book!Since)
         PROVE  c.file \notin mentioned
    <3>1. "sha" \notin unheard /\ "sha" \notin lost /\ "ancestor" \notin lost /\ "files" \notin lost
      BY <2>15 DEF Book!Heard
    <3>2. git.sha # book.sha
      <4>1. ASSUME git.sha = book.sha PROVE FALSE
        <5>1. Len(git.sha) \in Nat
          BY <2>7, LenProperties
        <5>2. Book!Since = SubSeq(git.sha, Len(git.sha) + 1, Len(git.sha))
          BY <4>1 DEF Book!Since
        <5>3. Len(Book!Since) = 0 /\ DOMAIN Book!Since = 1..Len(Book!Since)
          BY <2>7, <5>1, <5>2, SubSeqProperties, LenProperties
        <5>4. DOMAIN Book!Since = {}
          BY <5>3
        <5> QED BY <2>15, <5>4 DEF Book!ToSet
      <4> QED BY <4>1
    <3>3. Book!HeadMoved(told)
      BY <2>5, <2>7, <3>1, <3>2 DEF Book!HeadMoved
    <3>4. c.file \in rep.files
      BY <2>6, <2>15, <3>1, <3>3 DEF Book!ChangedFiles, Book!IsAncestor
    <3> HIDE DEF mentioned
    <3> QED BY <2>13, <2>15, <3>4
  <2> HIDE DEF mentioned
  <2> QED BY <2>8, <2>9, <2>10, <2>12, <2>14, <2>15 DEF Book!VerdictTrue, mentioned
<1> QED BY <1>1, <1>2, <1>3, PTL DEF DiskSpec, VerdictTrue

\* A reference follows its section between two reads, while the owner moves, renames or edits it, as
\* long as the heading or the first line under it tells it from the others; and another section is
\* shown only when these do not (bookmark/tool.go:393-429).
THEOREM SectionsAreFollowed == DiskSpec => RefsFollow
<1>1. DiskInit => (tool = "bookmark" => BookInv /\ FollowInv)
  BY BookStarts, FollowStarts
<1>2. (tool = "bookmark" => BookInv /\ FollowInv) /\ [DiskNext]_allVars => (tool = "bookmark" => BookInv /\ FollowInv)'
  <2>1. [DiskNext]_allVars => tool' = tool
    BY DEF DiskNext, DirectStep, TreeStep, BatchStep, GitStep, OwnerSaves, CacheStep, BookStep, allVars
  <2> QED BY <2>1, BookKeeps, FollowKeeps
<1>3. (tool = "bookmark" => BookInv /\ FollowInv) /\ [DiskNext]_allVars => [tool = "bookmark" => Book!RefsFollow]_allVars
  <2> SUFFICES ASSUME BookInv, FollowInv, DiskNext, tool = "bookmark", verdict' # "none", NEW k \in DOMAIN book.refs
               PROVE  LET heading == book.refs[k].heading
                          same == Book!FindHeadings(lines, heading)
                          h == Book!HomeLine(k)
                          stays == h # 0 /\ home[k].first # Book!NoMark /\ Book!SectionMark(lines, h) = home[k].first
                          first == {i \in same : Book!SectionMark(lines, i) = home[k].first}
                          marked == {i \in DOMAIN lines : Book!Raw(lines[i]) = home[k].first}
                      IN /\ h \in same /\ (Book!Only(h, same) \/ (stays /\ Book!Only(h, first))) => Book!Shown(k, h)
                         /\ stays /\ same = {} /\ Book!Only(h + 1, marked) => Book!Shown(k, h + 1)
                         /\ \A i \in DOMAIN lines \ {h} :
                               Book!Shown(k, i) => h \notin same \/ (~stays /\ Book!Cardinality(same) > 1)
    BY DEF Book!RefsFollow, Book!Answers
  <2> DEFINE r == book.refs[k]
             same == Book!FindHeadings(lines, r.heading)
             alike == {i \in same : Book!SectionMark(lines, i) = r.mark}
             marked == {i \in 1..Len(lines) : Book!Raw(lines[i]) = r.mark}
             place == Book!RefNow(lines, r).at
             h == Book!HomeLine(k)
             stays == h # 0 /\ home[k].first # Book!NoMark /\ Book!SectionMark(lines, h) = home[k].first
  <2>1. Book!ReadSaves
    <3>1. Book!BookNext
      BY DEF DiskNext, DirectStep, TreeStep, BatchStep, GitStep, CacheStep, BookStep, OwnerSaves, Save, BookInv
    <3>2. ~Book!NoReply
      BY DEF Book!NoReply
    <3> QED BY <3>1, <3>2, Zenon
            DEF Book!BookNext, Book!SetReads, Book!ReadReads, Book!Begin, Book!SetSaves, Book!Cleared, Book!Clear,
                Book!CallFails, Book!MoveSection, Book!DropSection, Book!Rewrite, Book!Edits, Book!Happens,
                Book!Checkout, Book!Changes, Book!Amend, Book!Commit, Book!Repository
  <2>2. Len(lines) \in Nat /\ DOMAIN lines = 1..Len(lines) /\ \A i \in 1..Len(lines) : lines[i] \in DocLine
    <3>1. doing # Book!IdleCall
      BY <2>1 DEF Book!ReadSaves, Book!IdleCall
    <3>2. lines \in Seq(DocLine)
      BY <3>1 DEF FollowInv, Documents
    <3> QED BY <3>2, LenProperties, ElementOfSeq
  <2>3. \A i : Book!Shown(k, i) <=> i # 0 /\ place = i
    BY <2>1, ShownIs
  <2>4. /\ \A i : same = {i} => place = i
        /\ \A i : alike = {i} => place = i
        /\ \A i \in alike : place # 0 => place = i
        /\ \A i : same = {} /\ r.mark # Book!NoMark /\ marked = {i} => place = i
    BY <2>2, RefNowIs
  <2>5. /\ same \in SUBSET (1..Len(lines))
        /\ Book!Cardinality(same) = 1 <=> \E i \in 1..Len(lines) : same = {i}
        /\ Book!Cardinality(same) \in Nat /\ (same # {} => Book!Cardinality(same) # 0)
    <3>1. same \in SUBSET (1..Len(lines))
      BY DEF Book!FindHeadings
    <3> HIDE DEF same
    <3>2. IsFiniteSet(1..Len(lines)) /\ Len(lines) \in Nat
      BY <2>2, FS_Interval
    <3>3. IsFiniteSet(same)
      BY <3>1, <3>2, FS_Subset
    <3>4. Cardinality(same) \in Nat /\ (Cardinality(same) = 0 <=> same = {})
      BY <3>3, FS_CardinalityType, FS_EmptySet
    <3> QED BY <2>2, <3>1, <3>4, OneLine, BookCount
  <2>6. h # 0 => h \in 1..Len(lines) /\ home[k].first = r.mark
    <3> DEFINE homes == {i \in DOMAIN lines : lines[i].level > 0 /\ lines[i].id = home[k].id}
    <3>1. h = IF homes = {} THEN 0 ELSE Book!Min(homes)
      BY DEF Book!HomeLine
    <3>2. homes \in SUBSET (1..Len(lines))
      BY <2>2
    <3>3. homes # {} => Book!Min(homes) \in homes
      <4> HIDE DEF homes
      <4> QED BY <2>2, <3>2, BookMinIs
    <3>4. h # 0 => h \in homes
      BY <3>1, <3>3
    <3>5. \A i \in homes : i \in 1..Len(lines) /\ home[k].id # 0
      BY <2>2 DEF DocLine
    <3>6. k \in DOMAIN home /\ (home[k].id # 0 => home[k].first = r.mark)
      BY DEF FollowInv
    <3> HIDE DEF h, homes
    <3> QED BY <3>4, <3>5, <3>6
  <2> HIDE DEF same, place, h, r, marked
  <2>7. ASSUME h \in same PROVE h # 0 /\ h \in Int
    BY <2>2, <2>5, <2>7
  <2>8. ASSUME h \in same, same = {h} PROVE Book!Shown(k, h)
    BY <2>3, <2>4, <2>7, <2>8
  <2>9. ASSUME h \in same, stays, {i \in same : Book!SectionMark(lines, i) = home[k].first} = {h} PROVE Book!Shown(k, h)
    <3>1. alike = {h}
      BY <2>6, <2>7, <2>9
    <3> QED BY <2>3, <2>4, <2>7, <2>9, <3>1
  <2>10. ASSUME stays, same = {}, {i \in DOMAIN lines : Book!Raw(lines[i]) = home[k].first} = {h + 1}
         PROVE  Book!Shown(k, h + 1)
    <3>1. h \in 1..Len(lines) /\ home[k].first = r.mark /\ r.mark # Book!NoMark
      BY <2>6, <2>10
    <3>2. marked = {h + 1}
      BY <2>2, <2>10, <3>1 DEF marked
    <3>3. h + 1 # 0
      BY <2>2, <3>1
    <3> QED BY <2>3, <2>4, <2>10, <3>1, <3>2, <3>3
  <2>11. ASSUME NEW i \in DOMAIN lines, i # h, Book!Shown(k, i), h \in same
         PROVE  ~stays /\ Book!Cardinality(same) > 1
    <3>1. place = i /\ place # 0 /\ place # h
      BY <2>3, <2>11
    <3>2. ~stays
      <4>1. ASSUME stays PROVE FALSE
        <5>1. h \in alike
          BY <2>6, <2>7, <2>11, <4>1
        <5> QED BY <2>4, <3>1, <5>1
      <4> QED BY <4>1
    <3>3. Book!Cardinality(same) # 1
      <4>1. ASSUME Book!Cardinality(same) = 1 PROVE FALSE
        <5>1. PICK j \in 1..Len(lines) : same = {j}
          BY <2>5, <4>1
        <5>2. same = {h}
          BY <2>11, <5>1
        <5> QED BY <2>4, <3>1, <5>2
      <4> QED BY <4>1
    <3>4. Book!Cardinality(same) # 0
      BY <2>5, <2>11
    <3> QED BY <2>5, <3>2, <3>3, <3>4
  <2> QED BY <2>8, <2>9, <2>10, <2>11 DEF Book!Only, same, h, r
<1> QED BY <1>1, <1>2, <1>3, PTL DEF DiskSpec, RefsFollow

-----------------------------------------------------------------------------
(* batch_patch *)

\* The model's own view of a sequence's members is the one of Counting.
LEMMA BatchThose == \A s, S : Batch!Those(s, S) = Those(s, S)
BY DEF Batch!Those, Batch!Gathered, Batch!Gather, Those, Gathered, Gather

\* So is the number of a set's elements.
LEMMA BatchCount == \A S : Batch!Cardinality(S) = Cardinality(S)
BY DEF Batch!Cardinality, Cardinality, Batch!IsFiniteSet, IsFiniteSet

\* The files the summary speaks of: nobody else writes them, and none of the glob has the name of
\* their temporary file.
Told == {p \in Own : given[Tmp[p]] = NoFile}

\* What a row says was applied is what did not fail.
RowHolds(p) ==
    /\ rows[p].applied = Cardinality(DOMAIN call.edits \ rows[p].failures)
    /\ call.failFast => rows[p].failures = {}

\* What the summary promises of a file that is done.
Settled(p) ==
    \/ 0 \in rows[p].failures
    \/ rows[p].applied = 0 /\ disk[p] = given[p]
    \/ RowHolds(p) /\ disk[p] = IF call.dry THEN given[p] ELSE Batch!Patched(given[p])

\* A file that is being written: its row is final unless the write fails, and what takes its
\* name is the new text.
Underway(p) ==
    /\ RowHolds(p) /\ ~call.dry /\ text[p] = Batch!Patched(given[p])
    /\ task[p] = "rename" => disk[Tmp[p]] = text[p]

Fresh(p) == rows[p] = Batch!NoRow /\ disk[p] = given[p]

Stage(p) ==
    CASE task[p] = "gone" -> Settled(p)
      [] task[p] = "read" -> Fresh(p)
      [] OTHER -> Underway(p)

Rows == {"applied", "failures", "skipped"}

BatchShape ==
    /\ DOMAIN disk = Names /\ DOMAIN task = Path /\ DOMAIN text = Path /\ DOMAIN rows = Path
    /\ \A p \in Path : DOMAIN rows[p] = Rows
    /\ waiting \in Seq(Path)
    /\ \A i, j \in 1..Len(waiting) : i < j => waiting[i] # waiting[j]

\* A file that waits has been found, once, and nothing has been done about it.
WaitingInv ==
    /\ \A i \in 1..Len(waiting) :
          /\ given[waiting[i]] # NoFile /\ task[waiting[i]] = "gone"
          /\ waiting[i] \in Told => Fresh(waiting[i])
    /\ \A p \in Path : given[p] = NoFile => task[p] = "gone"

RunningInv ==
    /\ Cardinality(Batch!Running) <= NumCPU
    /\ reply = "done" => Batch!Running = {} /\ waiting = <<>>

BatchInv == BatchShape /\ WaitingInv /\ RunningInv /\ \A p \in Told : Stage(p)

LEMMA PathFinite == IsFiniteSet(Path)
<1>1. Len(Order) \in Nat /\ \A p \in Path : \E i \in 1..Len(Order) : Order[i] = p
  <2>1. DOMAIN Order = 1..Len(Order) /\ ToSet(Order) = Path
    BY FilesAssumption
  <2> QED BY <2>1, FilesAssumption DEF ToSet
<1>2. Order \in Surjection(1..Len(Order), Path)
  BY <1>1, FilesAssumption DEF Surjection
<1> QED BY <1>1, <1>2, FS_NatSurjection DEF ExistsSurjection

LEMMA BatchStarts == DiskInit => (tool = "batch" => BatchInv)
<1> SUFFICES ASSUME DiskInit, tool = "batch" PROVE BatchInv
  OBVIOUS
<1> DEFINE S == {p \in Path : disk[p] # NoFile /\ p \notin call.skip}
<1>1. /\ disk \in Disks["batch"] /\ given = disk /\ reply = None
      /\ waiting = Those(Order, S)
      /\ task = [p \in Path |-> "gone"] /\ text = [p \in Path |-> <<>>]
      /\ rows = [p \in Path |-> Batch!NoRow]
  <2>1. /\ disk \in Disks["batch"] /\ given = disk /\ reply = None /\ Batch!BatchInit
    BY DEF DiskInit, Writers
  <2>2. Batch!NoFile = NoFile
    BY DEF Batch!NoFile, NoFile
  <2>3. waiting = Batch!Those(Order, S)
    BY <2>1, <2>2 DEF Batch!BatchInit
  <2> HIDE DEF S
  <2> QED BY <2>1, <2>3, BatchThose DEF Batch!BatchInit, Batch!Unstarted
<1>2. waiting \in Seq(Path)
  BY <1>1, FilesAssumption, ThoseTyped
<1>3. PICK place \in [1..Len(waiting) -> (0 + 1)..Len(Order)] :
          /\ \A i, j \in 1..Len(waiting) : i < j => place[i] < place[j]
          /\ \A i \in 1..Len(waiting) : waiting[i] = Order[place[i]] /\ waiting[i] \in S
  <2>1. Places(Order, waiting, S, 0, Len(Order))
    <3> HIDE DEF S
    <3> QED BY <1>1, FilesAssumption, ThosePlaces
  <2> HIDE DEF S
  <2> QED BY <2>1 DEF Places
<1>4. \A i, j \in 1..Len(waiting) : i < j => waiting[i] # waiting[j]
  <2> SUFFICES ASSUME NEW i \in 1..Len(waiting), NEW j \in 1..Len(waiting), i < j
               PROVE  waiting[i] # waiting[j]
    OBVIOUS
  <2>1. place[i] \in 1..Len(Order) /\ place[j] \in 1..Len(Order) /\ place[i] < place[j]
    BY <1>3
  <2>2. place[i] # place[j]
    BY <2>1
  <2> QED BY <1>3, <2>1, <2>2, FilesAssumption
<1>5. DOMAIN disk = Names
  BY <1>1, FilesAssumption
<1>6. DOMAIN Batch!NoRow = Rows /\ Batch!NoRow.applied = 0
  BY DEF Batch!NoRow, Rows
<1>7. BatchShape
  BY <1>1, <1>2, <1>4, <1>5, <1>6 DEF BatchShape
<1>8. WaitingInv
  <2>1. \A i \in 1..Len(waiting) : waiting[i] \in Path /\ given[waiting[i]] # NoFile
    BY <1>1, <1>3
  <2> QED BY <1>1, <2>1 DEF WaitingInv, Fresh
<1>9. RunningInv
  <2>1. Batch!Running = {}
    BY <1>1 DEF Batch!Running
  <2> QED BY <1>1, <2>1, FS_EmptySet, FilesAssumption DEF RunningInv, None
<1>10. \A p \in Told : Stage(p)
  BY <1>1, <1>6 DEF Told, Own, Stage, Settled
<1> QED BY <1>7, <1>8, <1>9, <1>10 DEF BatchInv

\* A step of one goroutine writes its file and that file's temporary one; it cannot disturb what
\* the summary says of another file.
LEMMA FileStepKeeps ==
    ASSUME BatchInv, NEW p \in Path, task[p] # "gone", NEW next, task' = [task EXCEPT ![p] = next],
           DOMAIN disk' = Names, \A n \in Names : n \notin {p, Tmp[p]} => disk'[n] = disk[n],
           DOMAIN text' = Path, DOMAIN rows' = Path, DOMAIN rows'[p] = Rows,
           \A q \in Path : q # p => text'[q] = text[q] /\ rows'[q] = rows[q],
           UNCHANGED <<given, saved, call, reply, waiting>>,
           p \in Told => Stage(p)'
    PROVE  BatchInv'
<1>0. Told' = Told /\ Own \subseteq Path /\ Path \subseteq Names /\ \A q \in Told : q \in Path
  BY DEF Told, Own, Temporary, Names
<1>1. BatchShape'
  BY DEF BatchInv, BatchShape
<1>2. \A q \in Path : q # p => task'[q] = task[q]
  BY DEF BatchInv, BatchShape
<1>3. ASSUME NEW q \in Told, q # p
      PROVE  disk'[q] = disk[q] /\ disk'[Tmp[q]] = disk[Tmp[q]]
  <2>1. q \in Path /\ q # Tmp[p] /\ Tmp[q] # Tmp[p] /\ Tmp[q] \in Names
    <3>1. q \in Path /\ ~\E r \in Path : Tmp[r] = q
      BY DEF Told, Own, Temporary
    <3> QED BY <1>3, <3>1, FilesAssumption DEF Names, Range
  <2>2. Tmp[q] # p
    BY DEF Told, BatchInv, WaitingInv
  <2> QED BY <1>0, <1>3, <2>1, <2>2
<1>4. ASSUME NEW q \in Told, q # p
      PROVE  Stage(q)'
  <2>1. q \in Path /\ Stage(q)
    BY <1>0 DEF BatchInv
  <2>2. /\ disk'[q] = disk[q] /\ disk'[Tmp[q]] = disk[Tmp[q]] /\ task'[q] = task[q]
        /\ text'[q] = text[q] /\ rows'[q] = rows[q]
    BY <1>2, <1>3, <1>4, <2>1
  <2>3. Batch!Patched(given[q])' = Batch!Patched(given[q])
    BY DEF Batch!Patched
  <2>4. /\ RowHolds(q)' = RowHolds(q) /\ Settled(q)' = Settled(q) /\ Underway(q)' = Underway(q)
        /\ Fresh(q)' = Fresh(q)
    BY <2>2, <2>3 DEF Settled, RowHolds, Underway, Fresh
  <2> QED BY <2>1, <2>2, <2>4 DEF Stage
<1>5. WaitingInv'
  <2>1. \A i \in 1..Len(waiting) : waiting[i] \in Path /\ waiting[i] # p
    <3>1. \A i \in 1..Len(waiting) : waiting[i] \in Path
      BY ElementOfSeq DEF BatchInv, BatchShape
    <3> QED BY <3>1 DEF BatchInv, WaitingInv
  <2>2. \A i \in 1..Len(waiting) : waiting[i] \in Told => Fresh(waiting[i])'
    BY <1>3, <2>1 DEF BatchInv, WaitingInv, Fresh
  <2>3. \A i \in 1..Len(waiting) : given[waiting[i]] # NoFile /\ task'[waiting[i]] = "gone"
    BY <1>2, <2>1 DEF BatchInv, WaitingInv
  <2>4. \A q \in Path : given[q] = NoFile => task'[q] = "gone"
    BY <1>2 DEF BatchInv, WaitingInv
  <2> QED BY <1>0, <2>2, <2>3, <2>4 DEF WaitingInv
<1>6. RunningInv'
  <2>1. Batch!Running' \subseteq Batch!Running /\ p \in Batch!Running /\ Batch!Running \subseteq Path
    BY <1>2 DEF Batch!Running
  <2>2. IsFiniteSet(Batch!Running)
    BY <2>1, PathFinite, FS_Subset
  <2>3. Cardinality(Batch!Running') <= Cardinality(Batch!Running)
        /\ Cardinality(Batch!Running) \in Nat /\ Cardinality(Batch!Running') \in Nat
    BY <2>1, <2>2, FS_Subset, FS_CardinalityType
  <2> QED BY <2>1, <2>3, FilesAssumption DEF BatchInv, RunningInv
<1> QED BY <1>0, <1>1, <1>4, <1>5, <1>6 DEF BatchInv

\* What every step of a goroutine leaves, and where it may be.
LEMMA ProcessKeeps == \A p \in Path : BatchInv /\ Batch!Process(p) => BatchInv'
<1> SUFFICES ASSUME NEW p \in Path, BatchInv, Batch!Process(p) PROVE BatchInv'
  OBVIOUS
<1> DEFINE ks == Batch!Applies(disk[p])
           failed == {k \in DOMAIN call.edits : k \notin ks}
           row == IF failed # {} /\ call.failFast THEN [applied |-> 0, failures |-> failed, skipped |-> TRUE]
                  ELSE IF ks = {} THEN Batch!NoRow
                  ELSE [applied |-> Cardinality(ks), failures |-> failed, skipped |-> FALSE]
           next == IF row.applied = 0 \/ call.dry THEN "gone" ELSE "open_tmp"
<1>1. /\ task[p] = "read" /\ rows' = [rows EXCEPT ![p] = row]
      /\ text' = [text EXCEPT ![p] = Batch!Patched(disk[p])]
      /\ task' = [task EXCEPT ![p] = next] /\ UNCHANGED disk /\ Batch!Mine
  BY BatchCount, Zenon DEF Batch!Process, Batch!Goto
<1>2. DOMAIN row = Rows /\ (row.failures = {} \/ row.failures = failed)
  BY DEF Batch!NoRow, Rows
<1>3. ks \subseteq DOMAIN call.edits /\ DOMAIN call.edits \ failed = ks
  BY DEF Batch!Applies
<1>4. \/ row.applied = 0
      \/ /\ row.applied = Cardinality(DOMAIN call.edits \ row.failures) /\ row.failures = failed
         /\ ~(failed # {} /\ call.failFast)
  <2> HIDE DEF failed, ks
  <2> QED BY <1>3 DEF Batch!NoRow
<1>5. UNCHANGED <<given, saved, call, reply, waiting, disk>>
  BY <1>1 DEF Batch!Mine
<1> HIDE DEF row, ks, failed
<1>6. /\ rows'[p] = row /\ task'[p] = next /\ text'[p] = Batch!Patched(disk[p])
      /\ DOMAIN rows' = Path /\ DOMAIN text' = Path
  BY <1>1 DEF BatchInv, BatchShape
<1>7. ASSUME p \in Told PROVE Stage(p)'
  <2>1. Fresh(p)
    BY <1>1, <1>7 DEF BatchInv, Stage
  <2>2. disk'[p] = given[p] /\ Batch!Patched(given[p])' = Batch!Patched(disk[p])
    BY <1>5, <2>1 DEF Fresh, Batch!Patched
  <2>3. CASE row.applied = 0
    BY <1>5, <1>6, <2>2, <2>3 DEF Stage, Settled
  <2>4. CASE row.applied # 0
    <3>1. RowHolds(p)'
      BY <1>4, <1>5, <1>6, <2>4 DEF RowHolds
    <3>2. CASE call.dry
      BY <1>5, <1>6, <2>2, <3>1, <3>2 DEF Stage, Settled
    <3>3. CASE ~call.dry
      BY <1>5, <1>6, <2>2, <2>4, <3>1, <3>3 DEF Stage, Underway
    <3> QED BY <3>2, <3>3
  <2> QED BY <2>3, <2>4
<1>8. DOMAIN disk' = Names /\ \A n \in Names : disk'[n] = disk[n]
  BY <1>5 DEF BatchInv, BatchShape
<1>9. \A q \in Path : q # p => text'[q] = text[q] /\ rows'[q] = rows[q]
  BY <1>1 DEF BatchInv, BatchShape
<1> QED
  <2> HIDE DEF next
  <2> QED BY <1>1, <1>2, <1>5, <1>6, <1>7, <1>8, <1>9, FileStepKeeps

\* The read of a file, and the write of its temporary one.
LEMMA GoesOnKeeps ==
    \A p \in Path : BatchInv /\ (Batch!ReadFails(p) \/ Batch!OpenTmp(p) \/ Batch!FillTmp(p)
                                 \/ Batch!RenameFails(p) \/ Batch!OpenDirect(p)) => BatchInv'
<1> SUFFICES ASSUME NEW p \in Path, BatchInv,
                    Batch!ReadFails(p) \/ Batch!OpenTmp(p) \/ Batch!FillTmp(p)
                    \/ Batch!RenameFails(p) \/ Batch!OpenDirect(p)
             PROVE  BatchInv'
  OBVIOUS
<1>1. UNCHANGED <<given, saved, call, reply, waiting, text, rows>>
  BY DEF Batch!ReadFails, Batch!OpenTmp, Batch!FillTmp, Batch!RenameFails, Batch!OpenDirect, Batch!Mine
<1>2. /\ p \in Names /\ Tmp[p] \in Names
      /\ DOMAIN disk = Names /\ DOMAIN task = Path /\ DOMAIN text' = Path /\ DOMAIN rows' = Path
      /\ DOMAIN rows'[p] = Rows
      /\ \A q \in Path : q # p => text'[q] = text[q] /\ rows'[q] = rows[q]
  BY <1>1, FilesAssumption DEF Names, Range, BatchInv, BatchShape
<1>3. ASSUME p \in Told PROVE Stage(p) /\ p # Tmp[p] /\ Batch!Patched(given[p])' = Batch!Patched(given[p])
  BY <1>1, <1>3 DEF BatchInv, Told, Own, Temporary, Batch!Patched
<1>4. CASE Batch!ReadFails(p)
  <2>1. task[p] = "read" /\ task' = [task EXCEPT ![p] = "gone"] /\ UNCHANGED disk
    BY <1>4 DEF Batch!ReadFails, Batch!Goto
  <2>2. ASSUME p \in Told PROVE Stage(p)'
    <3>1. Fresh(p) /\ task'[p] = "gone" /\ Batch!NoRow.applied = 0
      BY <1>2, <1>3, <2>1, <2>2 DEF Stage, Batch!NoRow
    <3> QED BY <1>1, <2>1, <3>1 DEF Stage, Settled, Fresh
  <2> QED BY <1>1, <1>2, <2>1, <2>2, FileStepKeeps
<1>5. CASE Batch!OpenTmp(p)
  <2>1. /\ task[p] = "open_tmp" /\ task' = [task EXCEPT ![p] = "fill_tmp"]
        /\ disk' = [disk EXCEPT ![Tmp[p]] = Batch!Torn]
    BY <1>5 DEF Batch!OpenTmp, Batch!Goto, Batch!Put
  <2>2. ASSUME p \in Told PROVE Stage(p)'
    BY <1>1, <1>2, <1>3, <2>1, <2>2 DEF Stage, Underway, RowHolds
  <2>3. DOMAIN disk' = Names /\ \A n \in Names : n \notin {p, Tmp[p]} => disk'[n] = disk[n]
    BY <1>2, <2>1
  <2> QED BY <1>1, <1>2, <2>1, <2>2, <2>3, FileStepKeeps
<1>6. CASE Batch!FillTmp(p)
  <2>1. /\ task[p] = "fill_tmp" /\ task' = [task EXCEPT ![p] = "rename"]
        /\ disk' = [disk EXCEPT ![Tmp[p]] = text[p]]
    BY <1>6 DEF Batch!FillTmp, Batch!Goto, Batch!Put
  <2>2. ASSUME p \in Told PROVE Stage(p)'
    BY <1>1, <1>2, <1>3, <2>1, <2>2 DEF Stage, Underway, RowHolds
  <2>3. DOMAIN disk' = Names /\ \A n \in Names : n \notin {p, Tmp[p]} => disk'[n] = disk[n]
    BY <1>2, <2>1
  <2> QED BY <1>1, <1>2, <2>1, <2>2, <2>3, FileStepKeeps
<1>7. CASE Batch!RenameFails(p)
  <2>1. task[p] = "rename" /\ task' = [task EXCEPT ![p] = "open"] /\ UNCHANGED disk
    BY <1>7 DEF Batch!RenameFails, Batch!Goto
  <2>2. ASSUME p \in Told PROVE Stage(p)'
    BY <1>1, <1>2, <1>3, <2>1, <2>2 DEF Stage, Underway, RowHolds
  <2> QED BY <1>1, <1>2, <2>1, <2>2, FileStepKeeps
<1>8. CASE Batch!OpenDirect(p)
  <2>1. /\ task[p] = "open" /\ task' = [task EXCEPT ![p] = "fill"]
        /\ disk' = [disk EXCEPT ![p] = Batch!Torn]
    BY <1>8 DEF Batch!OpenDirect, Batch!Goto, Batch!Put
  <2>2. ASSUME p \in Told PROVE Stage(p)'
    BY <1>1, <1>2, <1>3, <2>1, <2>2 DEF Stage, Underway, RowHolds
  <2>3. DOMAIN disk' = Names /\ \A n \in Names : n \notin {p, Tmp[p]} => disk'[n] = disk[n]
    BY <1>2, <2>1
  <2> QED BY <1>1, <1>2, <2>1, <2>2, <2>3, FileStepKeeps
<1> QED BY <1>4, <1>5, <1>6, <1>7, <1>8

\* The last step of a file's goroutine: it has its new text, or its row has a failure.
LEMMA FileEndsKeeps ==
    \A p \in Path : BatchInv /\ (Batch!RenameTmp(p) \/ Batch!FillDirect(p) \/ Batch!WriteFails(p)) => BatchInv'
<1> SUFFICES ASSUME NEW p \in Path, BatchInv,
                    Batch!RenameTmp(p) \/ Batch!FillDirect(p) \/ Batch!WriteFails(p)
             PROVE  BatchInv'
  OBVIOUS
<1>1. UNCHANGED <<given, saved, call, reply, waiting, text>>
  BY DEF Batch!RenameTmp, Batch!FillDirect, Batch!WriteFails, Batch!Mine
<1>2. /\ p \in Names /\ Tmp[p] \in Names
      /\ DOMAIN disk = Names /\ DOMAIN task = Path /\ DOMAIN text' = Path /\ DOMAIN rows = Path
      /\ DOMAIN rows[p] = Rows
  BY <1>1, FilesAssumption DEF Names, Range, BatchInv, BatchShape
<1>3. ASSUME p \in Told PROVE Stage(p) /\ p # Tmp[p] /\ Batch!Patched(given[p])' = Batch!Patched(given[p])
  BY <1>1, <1>3 DEF BatchInv, Told, Own, Temporary, Batch!Patched
<1>4. CASE Batch!RenameTmp(p)
  <2>1. /\ task[p] = "rename" /\ task' = [task EXCEPT ![p] = "gone"] /\ UNCHANGED rows
        /\ disk' = [disk EXCEPT ![p] = disk[Tmp[p]], ![Tmp[p]] = Batch!NoFile]
    BY <1>4 DEF Batch!RenameTmp, Batch!Goto
  <2>2. ASSUME p \in Told PROVE Stage(p)'
    <3>1. Underway(p) /\ task'[p] = "gone" /\ disk'[p] = Batch!Patched(given[p])
      BY <1>2, <1>3, <2>1, <2>2 DEF Stage, Underway
    <3> QED BY <1>1, <1>3, <2>1, <2>2, <3>1 DEF Stage, Underway, Settled, RowHolds
  <2>3. DOMAIN disk' = Names /\ \A n \in Names : n \notin {p, Tmp[p]} => disk'[n] = disk[n]
    BY <1>2, <2>1
  <2> QED BY <1>1, <1>2, <2>1, <2>2, <2>3, FileStepKeeps
<1>5. CASE Batch!FillDirect(p)
  <2>1. /\ task[p] = "fill" /\ task' = [task EXCEPT ![p] = "gone"] /\ UNCHANGED rows
        /\ disk' = [disk EXCEPT ![p] = text[p]]
    BY <1>5 DEF Batch!FillDirect, Batch!Goto, Batch!Put
  <2>2. ASSUME p \in Told PROVE Stage(p)'
    <3>1. Underway(p) /\ task'[p] = "gone" /\ disk'[p] = Batch!Patched(given[p])
      BY <1>2, <1>3, <2>1, <2>2 DEF Stage, Underway
    <3> QED BY <1>1, <1>3, <2>1, <2>2, <3>1 DEF Stage, Underway, Settled, RowHolds
  <2>3. DOMAIN disk' = Names /\ \A n \in Names : n \notin {p, Tmp[p]} => disk'[n] = disk[n]
    BY <1>2, <2>1
  <2> QED BY <1>1, <1>2, <2>1, <2>2, <2>3, FileStepKeeps
<1>6. CASE Batch!WriteFails(p)
  <2>1. /\ task[p] # "gone" /\ task' = [task EXCEPT ![p] = "gone"] /\ UNCHANGED disk
        /\ rows' = [rows EXCEPT ![p] = Batch!Noted(rows[p])]
    BY <1>6 DEF Batch!WriteFails, Batch!Goto
  <2>2. /\ rows'[p] = Batch!Noted(rows[p]) /\ DOMAIN rows' = Path
        /\ \A q \in Path : q # p => text'[q] = text[q] /\ rows'[q] = rows[q]
    BY <1>1, <1>2, <2>1
  <2>3. DOMAIN rows'[p] = Rows /\ 0 \in rows'[p].failures
    BY <1>2, <2>2 DEF Batch!Noted, Rows
  <2>4. ASSUME p \in Told PROVE Stage(p)'
    BY <1>2, <2>1, <2>3 DEF Stage, Settled
  <2> QED BY <1>1, <1>2, <2>1, <2>2, <2>3, <2>4, FileStepKeeps
<1> QED BY <1>4, <1>5, <1>6

\* The next goroutine starts: the semaphore has room, and its file still waits.
LEMMA StartKeeps == BatchInv /\ Batch!Start => BatchInv'
<1> SUFFICES ASSUME BatchInv, Batch!Start PROVE BatchInv'
  OBVIOUS
<1> DEFINE p == Head(waiting)
<1>1. /\ waiting # <<>> /\ Batch!Cardinality(Batch!Running) < NumCPU
      /\ waiting' = Tail(waiting) /\ task' = [task EXCEPT ![p] = "read"]
      /\ UNCHANGED <<disk, given, saved, call, pc, reply, text, rows>>
  BY DEF Batch!Start, Batch!Goto, Batch!diskVars
<1>2. waiting \in Seq(Path) /\ \A i, j \in 1..Len(waiting) : i < j => waiting[i] # waiting[j]
  BY DEF BatchInv, BatchShape
<1>3. /\ p = waiting[1] /\ p \in Path /\ Tail(waiting) \in Seq(Path)
      /\ Len(waiting) \in Nat /\ Len(waiting) > 0 /\ Len(Tail(waiting)) = Len(waiting) - 1
      /\ \A i \in 1..Len(Tail(waiting)) : Tail(waiting)[i] = waiting[i + 1]
  <2>1. Head(waiting) = waiting[1] /\ Len(waiting) \in Nat /\ Len(waiting) > 0
    BY <1>1, <1>2, EmptySeq, LenProperties
  <2> QED BY <1>1, <1>2, <2>1, HeadTailProperties
<1> HIDE DEF p
<1>4. \A i \in 1..Len(waiting') : /\ waiting'[i] = waiting[i + 1] /\ i + 1 \in 1..Len(waiting)
                                  /\ waiting'[i] # p /\ waiting'[i] \in Path
  <2> SUFFICES ASSUME NEW i \in 1..Len(waiting')
               PROVE  /\ waiting'[i] = waiting[i + 1] /\ i + 1 \in 1..Len(waiting)
                      /\ waiting'[i] # p /\ waiting'[i] \in Path
    OBVIOUS
  <2>1. waiting'[i] = waiting[i + 1] /\ i + 1 \in 1..Len(waiting) /\ 1 \in 1..Len(waiting) /\ 1 < i + 1
    BY <1>1, <1>3
  <2>2. waiting[i + 1] # waiting[1] /\ waiting[i + 1] \in Path
    BY <1>2, <2>1, ElementOfSeq
  <2> QED BY <1>3, <2>1, <2>2
<1>5. /\ given[p] # NoFile /\ task[p] = "gone"
      /\ p \in Told => Fresh(p)
      /\ \A q \in Path : task'[q] = IF q = p THEN "read" ELSE task[q]
      /\ DOMAIN task' = Path
  <2>1. 1 \in 1..Len(waiting)
    BY <1>3
  <2> QED BY <1>1, <1>3, <2>1 DEF BatchInv, WaitingInv, BatchShape
<1>6. BatchShape'
  <2>1. ASSUME NEW i \in 1..Len(waiting'), NEW j \in 1..Len(waiting'), i < j
        PROVE  waiting'[i] # waiting'[j]
    <3>1. i + 1 < j + 1
      BY <1>1, <1>3, <2>1
    <3> QED BY <1>2, <1>4, <3>1
  <2> QED BY <1>1, <1>3, <1>5, <2>1 DEF BatchInv, BatchShape
<1>7. Told' = Told /\ \A q \in Told : Fresh(q)' = Fresh(q) /\ q \in Path
  BY <1>1 DEF Told, Own, Fresh, Temporary
<1>8. WaitingInv'
  <2>1. \A i \in 1..Len(waiting') : /\ given[waiting'[i]] # NoFile /\ task'[waiting'[i]] = "gone"
                                    /\ waiting'[i] \in Told => Fresh(waiting'[i])
    BY <1>4, <1>5 DEF BatchInv, WaitingInv
  <2> QED BY <1>1, <1>5, <1>7, <2>1 DEF BatchInv, WaitingInv, Fresh
<1>9. RunningInv'
  <2>1. Batch!Running' = Batch!Running \cup {p} /\ p \notin Batch!Running /\ Batch!Running \subseteq Path
    BY <1>3, <1>5 DEF Batch!Running
  <2>2. IsFiniteSet(Batch!Running)
    BY <2>1, PathFinite, FS_Subset
  <2>3. Cardinality(Batch!Running') = Cardinality(Batch!Running) + 1 /\ Cardinality(Batch!Running) \in Nat
    BY <2>1, <2>2, FS_AddElement, FS_CardinalityType
  <2>4. Cardinality(Batch!Running) < NumCPU
    BY <1>1, BatchCount
  <2>5. reply # "done"
    BY <1>1 DEF BatchInv, RunningInv
  <2>6. Cardinality(Batch!Running') <= NumCPU
    BY <2>3, <2>4, FilesAssumption
  <2> QED BY <1>1, <2>5, <2>6 DEF RunningInv
<1>10. ASSUME NEW q \in Told PROVE Stage(q)'
  <2>1. q \in Path /\ Stage(q) /\ UNCHANGED Batch!Patched(given[q])
    BY <1>1, <1>7 DEF BatchInv, Batch!Patched
  <2>2. CASE q = p
    BY <1>1, <1>5, <2>1, <2>2 DEF Stage, Fresh
  <2>3. CASE q # p
    <3>1. task'[q] = task[q]
      BY <1>5, <2>1, <2>3
    <3>2. UNCHANGED <<Settled(q), Fresh(q), Underway(q)>>
      BY <1>1, <2>1, <3>1 DEF Settled, Fresh, Underway, RowHolds
    <3> QED BY <2>1, <3>1, <3>2 DEF Stage
  <2> QED BY <2>2, <2>3
<1> QED BY <1>6, <1>7, <1>8, <1>9, <1>10 DEF BatchInv

\* What the owner saves is no file that the summary speaks of any more.
LEMMA BatchSaveKeeps == BatchInv /\ OwnerSaves => BatchInv'
<1> SUFFICES ASSUME BatchInv, OwnerSaves PROVE BatchInv'
  OBVIOUS
<1>1. PICK p \in Path : Save(p)
  BY DEF OwnerSaves
<1>2. PICK v \in Versions : disk' = [disk EXCEPT ![p] = v]
  BY <1>1 DEF Save, Put
<1>3. /\ UNCHANGED <<given, call, pc, reply, waiting, task, text, rows>> /\ saved' = saved \cup {p}
  BY <1>1 DEF Save, OwnerSaves, toolVars, batchVars
<1>4. \A q \in Told' : q \in Told /\ disk'[q] = disk[q] /\ disk'[Tmp[q]] = disk[Tmp[q]]
  <2> SUFFICES ASSUME NEW q \in Told'
               PROVE  q \in Told /\ disk'[q] = disk[q] /\ disk'[Tmp[q]] = disk[Tmp[q]]
    OBVIOUS
  <2>1. q \in Path /\ q \in Told /\ q # p /\ Tmp[q] # p
    BY <1>3 DEF Told, Own, Temporary
  <2>2. q \in Names /\ Tmp[q] \in Names /\ DOMAIN disk = Names
    BY <2>1, FilesAssumption DEF Names, Range, BatchInv, BatchShape
  <2> QED BY <1>2, <2>1, <2>2
<1>5. \A q \in Told' : Stage(q)'
  <2> SUFFICES ASSUME NEW q \in Told' PROVE Stage(q)'
    OBVIOUS
  <2>1. q \in Told /\ disk'[q] = disk[q] /\ disk'[Tmp[q]] = disk[Tmp[q]] /\ Stage(q)
    BY <1>4 DEF BatchInv
  <2>2. UNCHANGED <<Batch!Patched(given[q])>>
    BY <1>3 DEF Batch!Patched
  <2>3. UNCHANGED <<Settled(q), Fresh(q), Underway(q)>>
    BY <1>3, <2>1, <2>2 DEF Settled, Fresh, Underway, RowHolds
  <2> QED BY <1>3, <2>1, <2>3 DEF Stage
<1>6. BatchShape'
  BY <1>2, <1>3 DEF BatchInv, BatchShape
<1>7. WaitingInv'
  BY <1>3, <1>4 DEF BatchInv, WaitingInv, Fresh
<1>8. RunningInv'
  <2>1. UNCHANGED Batch!Running
    BY <1>3 DEF Batch!Running
  <2> QED BY <1>3, <2>1 DEF BatchInv, RunningInv
<1> QED BY <1>5, <1>6, <1>7, <1>8 DEF BatchInv

LEMMA BatchKeeps == BatchInv /\ tool = "batch" /\ [DiskNext]_allVars => BatchInv'
<1> SUFFICES ASSUME BatchInv, tool = "batch", [DiskNext]_allVars PROVE BatchInv'
  OBVIOUS
<1>1. CASE Batch!BatchNext
  <2>1. ASSUME NEW p \in Path, Batch!BatchFile(p) PROVE BatchInv'
    BY <2>1, ProcessKeeps, GoesOnKeeps, FileEndsKeeps DEF Batch!BatchFile
  <2>2. CASE Batch!Summary
    <3>1. /\ Batch!Running = {} /\ waiting = <<>>
          /\ UNCHANGED <<disk, given, saved, call, waiting, task, text, rows>>
      BY <2>2 DEF Batch!Summary, Batch!batchVars
    <3>2. UNCHANGED <<BatchShape, Told, Batch!Running>>
      BY <3>1 DEF BatchShape, Told, Own, Temporary, Batch!Running
    <3>3. ASSUME NEW q \in Told PROVE Stage(q)'
      <4>1. UNCHANGED Batch!Patched(given[q])
        BY <3>1 DEF Batch!Patched
      <4>2. UNCHANGED <<Settled(q), Fresh(q), Underway(q)>>
        BY <3>1, <4>1 DEF Settled, Fresh, Underway, RowHolds
      <4> QED BY <3>1, <4>2 DEF Stage, BatchInv
    <3>4. WaitingInv'
      BY <3>1, <3>2 DEF WaitingInv, Fresh, BatchInv
    <3>5. RunningInv'
      BY <3>1, <3>2 DEF RunningInv, BatchInv
    <3> QED BY <3>2, <3>3, <3>4, <3>5 DEF BatchInv
  <2> QED BY <1>1, <2>1, <2>2, StartKeeps DEF Batch!BatchNext
<1>2. CASE OwnerSaves
  BY <1>2, BatchSaveKeeps
<1>3. CASE UNCHANGED allVars
  <2>1. UNCHANGED <<disk, given, saved, call, reply, waiting, task, text, rows>>
    BY <1>3 DEF allVars, diskVars, toolVars, batchVars
  <2>2. UNCHANGED <<BatchShape, Told, Batch!Running>>
    BY <2>1 DEF BatchShape, Told, Own, Temporary, Batch!Running
  <2>3. ASSUME NEW q \in Told PROVE Stage(q)'
    <3>1. UNCHANGED Batch!Patched(given[q])
      BY <2>1 DEF Batch!Patched
    <3>2. UNCHANGED <<Settled(q), Fresh(q), Underway(q)>>
      BY <2>1, <3>1 DEF Settled, Fresh, Underway, RowHolds
    <3> QED BY <2>1, <3>2 DEF Stage, BatchInv
  <2>4. WaitingInv'
    BY <2>1, <2>2 DEF WaitingInv, Fresh, BatchInv
  <2>5. RunningInv'
    BY <2>1, <2>2 DEF RunningInv, BatchInv
  <2> QED BY <2>2, <2>3, <2>4, <2>5 DEF BatchInv
<1> QED BY <1>1, <1>2, <1>3 DEF DiskNext, DirectStep, TreeStep, BatchStep, GitStep, CacheStep, BookStep

\* Once the summary is there, it is true of every file nobody else wrote, in whatever order the
\* goroutines ran and whichever of their steps failed; and there are never more than NumCPU.
THEOREM SummaryIsTrue == DiskSpec => []SummaryTrue
<1>1. DiskInit => (tool = "batch" => BatchInv)
  BY BatchStarts
<1>2. (tool = "batch" => BatchInv) /\ [DiskNext]_allVars => (tool = "batch" => BatchInv)'
  <2>1. [DiskNext]_allVars => tool' = tool
    BY DEF DiskNext, DirectStep, TreeStep, BatchStep, GitStep, OwnerSaves, CacheStep, BookStep, allVars
  <2> QED BY <2>1, BatchKeeps
<1>3. (tool = "batch" => BatchInv) => SummaryTrue
  <2> SUFFICES ASSUME BatchInv PROVE Batch!SummaryTrue
    BY DEF SummaryTrue
  <2>1. Batch!Cardinality(Batch!Running) <= NumCPU
    BY BatchCount DEF BatchInv, RunningInv
  <2>2. ASSUME reply = "done", NEW p \in Batch!Own, given[Tmp[p]] = NoFile
        PROVE  \/ 0 \in rows[p].failures
               \/ rows[p].applied = 0 /\ disk[p] = given[p]
               \/ /\ disk[p] = IF call.dry THEN given[p] ELSE Batch!Patched(given[p])
                  /\ rows[p].applied = Batch!Cardinality(DOMAIN call.edits \ rows[p].failures)
                  /\ call.failFast => rows[p].failures = {}
    <3>1. p \in Told /\ p \in Path
      BY <2>2 DEF Told, Batch!Own, Own, Batch!Temporary, Temporary
    <3>2. task[p] = "gone"
      BY <2>2, <3>1 DEF BatchInv, RunningInv, Batch!Running
    <3> QED BY <3>1, <3>2, BatchCount DEF BatchInv, Stage, Settled, RowHolds
  <2>3. Batch!NoFile = NoFile
    BY DEF Batch!NoFile, NoFile
  <2> QED BY <2>1, <2>2, <2>3 DEF Batch!SummaryTrue
<1> QED BY <1>1, <1>2, <1>3, PTL DEF DiskSpec

-----------------------------------------------------------------------------
(* rename_symbol and grep_replace *)

LEMMA TreeThose == \A s, S : Tree!Those(s, S) = Those(s, S)
BY DEF Tree!Those, Tree!Gathered, Tree!Gather, Those, Gathered, Gather

LEMMA TreeMembers == \A s : Tree!ToSet(s) = ToSet(s)
BY DEF Tree!ToSet, ToSet

\* The files the walk meets.
Given == {p \in Path : given[p] # NoFile}

\* The files of the walk up to the k-th, but for one place, are as they were or, with a match,
\* rewritten; those after it are as they were.
AsWalked(k, but) ==
    \A i \in 1..Len(Order) : (Order[i] \in Own /\ i # but) =>
        disk[Order[i]] = IF i <= k /\ Tree!Hit(Order[i]) /\ ~call.dry
                         THEN Tree!Rewritten(given[Order[i]], call.what) ELSE given[Order[i]]

\* Those up to the k-th with a match are listed, and no others.
Listed(k, but) ==
    \A i \in 1..Len(Order) : (Order[i] \in Own /\ i # but) =>
        (Order[i] \in ToSet(changes) <=> i <= k /\ Tree!Hit(Order[i]))

\* The file at the k-th place is being rewritten.
Rewriting(k) ==
    /\ k \in 1..Len(Order) /\ at = Order[k] /\ ~call.dry
    /\ call.op = "rename" => at \in ToSet(changes)
    /\ at \in Own => /\ Tree!Hit(at) /\ newLines = Tree!Rewritten(given[at], call.what)
                     /\ pc = "rename" => disk[Tmp[at]] = newLines

\* The walk stands behind the k-th place.
Walked(k) ==
    /\ Places(Order, todo, Given, k, Len(Order))
    /\ AsWalked(k, k) /\ Listed(k, k)
    /\ call.dry => AsWalked(k, 0)
    /\ IF pc \in {"walk", "end"} THEN /\ pc = "walk" \/ reply = "done" => AsWalked(k, 0) /\ Listed(k, 0)
                                      /\ reply = "done" => todo = <<>> \/ Tree!Enough
       ELSE Rewriting(k)

TreeShape ==
    /\ DOMAIN disk = Names /\ changes \in Seq(Path) /\ todo \in Seq(Path)
    /\ call.op \in {"rename", "replace"}
    /\ pc # "end" => reply = None

TreeInv == TreeShape /\ \E k \in 0..Len(Order) : Walked(k)

LEMMA OrderOnce ==
    /\ Len(Order) \in Nat
    /\ \A i \in 1..Len(Order) : Order[i] \in Path
    /\ \A i, j \in 1..Len(Order) : i # j => Order[i] # Order[j]
    /\ \A p \in Path : \E i \in 1..Len(Order) : Order[i] = p
<1>1. DOMAIN Order = 1..Len(Order) /\ Len(Order) \in Nat /\ ToSet(Order) = Path
  BY FilesAssumption
<1> QED BY <1>1, FilesAssumption DEF ToSet

LEMMA TreeStarts == DiskInit => (tool = "tree" => TreeInv)
<1> SUFFICES ASSUME DiskInit, tool = "tree" PROVE TreeInv
  OBVIOUS
<1>1. /\ disk \in Disks["tree"] /\ given = disk /\ reply = None /\ Tree!TreeInit
  BY DEF DiskInit, Writers
<1>2. Tree!NoFile = NoFile
  BY DEF Tree!NoFile, NoFile
<1>3. todo = Tree!Those(Order, Given) /\ changes = <<>> /\ pc = "walk" /\ call \in TreeCall
  BY <1>1, <1>2 DEF Tree!TreeInit, Given
<1>4. todo = Those(Order, Given) /\ Order \in Seq(Path)
  BY <1>3, TreeThose, FilesAssumption
<1>5. todo \in Seq(Path) /\ Places(Order, todo, Given, 0, Len(Order))
  BY <1>4, ThoseTyped, ThosePlaces
<1>6. DOMAIN disk = Names /\ call.op \in {"rename", "replace"}
  BY <1>1, <1>3, FilesAssumption
<1>7. AsWalked(0, 0)
  BY <1>1, OrderOnce DEF AsWalked
<1>8. Listed(0, 0)
  <2>1. ToSet(changes) = {}
    BY <1>3 DEF ToSet
  <2> QED BY <2>1, OrderOnce DEF Listed
<1>9. 0 \in 0..Len(Order) /\ Walked(0)
  BY <1>1, <1>3, <1>5, <1>7, <1>8, OrderOnce DEF Walked, None
<1>10. TreeShape
  <2>1. changes \in Seq(Path)
    BY <1>3
  <2> QED BY <1>1, <1>3, <1>5, <1>6, <2>1 DEF TreeShape
<1> QED BY <1>9, <1>10 DEF TreeInv

\* The next file of the walk: it is the one at a place o, and the walk meets none before it.
LEMMA NextFile ==
    ASSUME TreeInv, pc = "walk", todo # <<>>
    PROVE  \E o \in 1..Len(Order) :
              /\ Order[o] = Head(todo) /\ Tail(todo) \in Seq(Path)
              /\ Places(Order, Tail(todo), Given, o, Len(Order))
              /\ AsWalked(o, o) /\ Listed(o, o)
              /\ Order[o] \in Own => disk[Order[o]] = given[Order[o]] /\ Order[o] \notin ToSet(changes)
<1>1. PICK k \in 0..Len(Order) : Walked(k)
  BY DEF TreeInv
<1>2. /\ Places(Order, todo, Given, k, Len(Order)) /\ AsWalked(k, 0) /\ Listed(k, 0) /\ todo \in Seq(Path)
  BY <1>1 DEF Walked, TreeInv, TreeShape
<1>3. PICK o \in (k + 1)..Len(Order) :
          /\ Order[o] = Head(todo) /\ Places(Order, Tail(todo), Given, o, Len(Order))
          /\ \A j \in (k + 1)..(o - 1) : Order[j] \notin Given
  <2>1. k \in Nat /\ Len(Order) \in Nat /\ todo \in Seq(Path) /\ todo # <<>>
    BY <1>2, OrderOnce
  <2> DEFINE n == Len(Order)
  <2>2. n \in Nat /\ Places(Order, todo, Given, k, n)
    BY <1>2, <2>1
  <2> HIDE DEF n
  <2>3. FirstPlace(Order, todo, Given, k, n)
    BY <2>1, <2>2, PlacesHead
  <2> QED BY <2>3 DEF n, FirstPlace
<1>4. o \in 1..Len(Order) /\ k < o /\ Tail(todo) \in Seq(Path)
  BY <1>2, <1>3, OrderOnce, HeadTailProperties
<1>5. \A i \in 1..Len(Order) : i \in Nat /\ Order[i] \in Path
  BY OrderOnce
<1>6. Tree!NoFile = NoFile
  BY DEF Tree!NoFile, NoFile
<1>7. ASSUME NEW i \in 1..Len(Order), i # o, i <= o, ~(i <= k) PROVE ~Tree!Hit(Order[i])
  <2>1. i \in (k + 1)..(o - 1)
    BY <1>4, <1>7
  <2> QED BY <1>3, <1>5, <1>6, <2>1 DEF Given, Tree!Hit
<1>8. \A i \in 1..Len(Order) : i # o => (i <= o /\ Tree!Hit(Order[i]) <=> i <= k /\ Tree!Hit(Order[i]))
  BY <1>4, <1>5, <1>7
<1>9. AsWalked(o, o) /\ Listed(o, o)
  <2>1. \A i \in 1..Len(Order) : i # 0
    OBVIOUS
  <2> QED BY <1>2, <1>8, <2>1 DEF AsWalked, Listed
<1>10. ASSUME Order[o] \in Own PROVE disk[Order[o]] = given[Order[o]] /\ Order[o] \notin ToSet(changes)
  <2>1. ~(o <= k) /\ o # 0
    BY <1>4
  <2> QED BY <1>2, <1>4, <1>10, <2>1 DEF AsWalked, Listed
<1> QED BY <1>3, <1>4, <1>9, <1>10

\* What a call works on does not change under it.
LEMMA TreeFrame ==
    ASSUME UNCHANGED <<given, call, saved>>
    PROVE  /\ UNCHANGED <<Own, Given>>
           /\ \A p : UNCHANGED <<Tree!Hit(p), Tree!Rewritten(given[p], call.what)>>
BY DEF Own, Temporary, Given, Tree!Hit, Tree!Matches, Tree!Rewritten, Tree!ToSet, Tree!Range

LEMMA ListGrows == \A s \in Seq(Path), p \in Path : Append(s, p) \in Seq(Path) /\ ToSet(Append(s, p)) = ToSet(s) \cup {p}
<1> SUFFICES ASSUME NEW s \in Seq(Path), NEW p \in Path
             PROVE  Append(s, p) \in Seq(Path) /\ ToSet(Append(s, p)) = ToSet(s) \cup {p}
  OBVIOUS
<1> DEFINE u == Append(s, p)
<1>1. /\ u \in Seq(Path) /\ DOMAIN u = 1..Len(u) /\ DOMAIN s = 1..Len(s) /\ Len(u) = Len(s) + 1
      /\ Len(s) \in Nat /\ u[Len(s) + 1] = p /\ \A i \in 1..Len(s) : u[i] = s[i]
  BY AppendProperties
<1> HIDE DEF u
<1>2. 1..Len(u) = 1..Len(s) \cup {Len(s) + 1}
  BY <1>1
<1> QED BY <1>1, <1>2 DEF ToSet, u

\* The walk goes on: a file is passed by, or taken, or the walk is over.
LEMMA WalkKeeps == TreeInv /\ (Tree!PassBy \/ Tree!TakeFile \/ Tree!WalkFails \/ Tree!WalkEnds) => TreeInv'
<1> SUFFICES ASSUME TreeInv, Tree!PassBy \/ Tree!TakeFile \/ Tree!WalkFails \/ Tree!WalkEnds PROVE TreeInv'
  OBVIOUS
<1>1. pc = "walk" /\ UNCHANGED <<disk, given, saved, call>> /\ TreeShape
  BY DEF Tree!PassBy, Tree!TakeFile, Tree!WalkFails, Tree!WalkEnds, Tree!Goes, TreeInv
<1>2. /\ UNCHANGED <<Own, Given>>
      /\ \A p : UNCHANGED <<Tree!Hit(p), Tree!Rewritten(given[p], call.what)>>
  BY <1>1, TreeFrame
<1>3. CASE Tree!WalkFails \/ Tree!WalkEnds
  <2>1. /\ UNCHANGED <<todo, changes, at, newLines>> /\ pc' = "end"
        /\ reply' = "done" => todo = <<>> \/ Tree!Enough
    BY <1>3 DEF Tree!WalkFails, Tree!WalkEnds, Tree!Reply, Tree!treeVars
  <2>2. PICK k \in 0..Len(Order) : Walked(k)
    BY DEF TreeInv
  <2>3. \A b : UNCHANGED <<AsWalked(k, b), Listed(k, b)>>
    BY <1>1, <1>2, <2>1 DEF AsWalked, Listed
  <2>4. UNCHANGED Tree!Enough
    BY <1>1, <2>1 DEF Tree!Enough
  <2>5. Walked(k)'
    BY <1>1, <1>2, <2>1, <2>2, <2>3, <2>4 DEF Walked
  <2>6. TreeShape'
    BY <1>1, <2>1 DEF TreeShape
  <2> QED BY <2>5, <2>6 DEF TreeInv
<1>4. CASE Tree!PassBy \/ Tree!TakeFile
  <2>1. todo # <<>> /\ todo' = Tail(todo) /\ UNCHANGED reply
    BY <1>4 DEF Tree!PassBy, Tree!TakeFile, Tree!Goes
  <2>2. PICK o \in 1..Len(Order) :
              /\ Order[o] = Head(todo) /\ Tail(todo) \in Seq(Path)
              /\ Places(Order, Tail(todo), Given, o, Len(Order))
              /\ AsWalked(o, o) /\ Listed(o, o)
              /\ Order[o] \in Own => disk[Order[o]] = given[Order[o]] /\ Order[o] \notin ToSet(changes)
    BY <1>1, <2>1, NextFile
  <2> DEFINE p == Order[o]
  <2>3. /\ p \in Path /\ o \in 0..Len(Order) /\ o \in Nat /\ changes \in Seq(Path)
        /\ \A i \in 1..Len(Order) : i # 0 /\ (i # o => Order[i] # p)
        /\ reply # "done"
    BY <1>1, OrderOnce DEF TreeShape, None
  <2>4. AsWalked(o, o)' /\ Places(Order, todo', Given', o, Len(Order))
    BY <1>1, <1>2, <2>1, <2>2 DEF AsWalked
  <2>5. ASSUME changes' = changes \/ changes' = Append(changes, p)
        PROVE  Listed(o, o)' /\ changes' \in Seq(Path)
    <3>1. changes' \in Seq(Path) /\ ToSet(changes') \in {ToSet(changes), ToSet(changes) \cup {p}}
      BY <2>3, <2>5, ListGrows
    <3>2. \A i \in 1..Len(Order) : i # o => (Order[i] \in ToSet(changes') <=> Order[i] \in ToSet(changes))
      BY <2>3, <3>1
    <3>3. ToSet(changes)' = ToSet(changes')
      BY DEF ToSet
    <3> HIDE DEF p
    <3> QED BY <1>2, <2>2, <3>1, <3>2, <3>3 DEF Listed
  <2>6. CASE Tree!PassBy
    <3>1. /\ UNCHANGED <<pc, changes, at, newLines>>
          /\ p \in call.skip \/ ~Tree!Matches(disk[p], call.what)
      BY <2>2, <2>6 DEF Tree!PassBy, Tree!Goes
    <3>2. ASSUME p \in Own PROVE ~Tree!Hit(p)
      BY <2>2, <3>1, <3>2 DEF Tree!Hit
    <3>3. AsWalked(o, 0)'
      BY <1>1, <1>2, <2>2, <2>4, <3>2 DEF AsWalked
    <3>4. Listed(o, 0)'
      <4>1. ToSet(changes)' = ToSet(changes)
        BY <3>1 DEF ToSet
      <4> QED BY <1>1, <1>2, <2>2, <2>5, <3>1, <3>2, <4>1 DEF Listed
    <3>5. Walked(o)'
      BY <1>1, <2>1, <2>3, <2>4, <2>5, <3>1, <3>3, <3>4 DEF Walked
    <3>6. TreeShape'
      BY <1>1, <2>1, <2>2, <2>3, <3>1 DEF TreeShape
    <3> QED BY <2>3, <3>5, <3>6 DEF TreeInv
  <2>7. CASE Tree!TakeFile
    <3>1. /\ p \notin call.skip /\ Tree!Matches(disk[p], call.what)
          /\ changes' = IF call.dry \/ call.op = "rename" THEN Append(changes, p) ELSE changes
          /\ IF call.dry THEN UNCHANGED <<pc, at, newLines>>
             ELSE at' = p /\ newLines' = Tree!Rewritten(disk[p], call.what) /\ pc' = "open_tmp"
      BY <2>2, <2>7 DEF Tree!TakeFile, Tree!Goes
    <3>2. changes' \in Seq(Path) /\ Listed(o, o)'
      BY <2>5, <3>1
    <3>3. ASSUME p \in Own PROVE Tree!Hit(p) /\ disk'[p] = given[p]
      <4>1. PICK place \in [1..Len(todo) -> 1..Len(Order)] : \A i \in 1..Len(todo) : todo[i] \in Given
        <5>1. PICK k \in 0..Len(Order) : Walked(k)
          BY DEF TreeInv
        <5>2. Places(Order, todo, Given, k, Len(Order))
          BY <5>1 DEF Walked
        <5>3. (k + 1)..Len(Order) \subseteq 1..Len(Order)
          BY OrderOnce
        <5> QED BY <5>2, <5>3 DEF Places
      <4>2. Head(todo) = todo[1] /\ 1 \in 1..Len(todo)
        BY <1>1, <2>1, EmptySeq, LenProperties DEF TreeShape
      <4>3. p \in Given
        BY <2>2, <4>1, <4>2
      <4>4. Tree!NoFile = NoFile
        BY DEF Tree!NoFile, NoFile
      <4> QED BY <1>1, <2>2, <3>1, <3>3, <4>3, <4>4 DEF Given, Tree!Hit
    <3>4. CASE call.dry
      <4>1. pc' = "walk" /\ ToSet(changes') = ToSet(changes) \cup {p} /\ ToSet(changes)' = ToSet(changes')
        BY <1>1, <2>3, <3>1, <3>4, ListGrows DEF ToSet
      <4>2. AsWalked(o, 0)'
        BY <1>1, <1>2, <2>2, <2>4, <3>4 DEF AsWalked
      <4>3. Listed(o, 0)'
        BY <1>2, <2>3, <3>2, <3>3, <4>1 DEF Listed
      <4>4. Walked(o)'
        BY <1>1, <2>1, <2>3, <2>4, <3>2, <4>1, <4>2, <4>3 DEF Walked
      <4>5. TreeShape'
        BY <1>1, <2>1, <2>2, <3>2, <4>1 DEF TreeShape
      <4> QED BY <2>3, <4>4, <4>5 DEF TreeInv
    <3>5. CASE ~call.dry
      <4>1. pc' = "open_tmp" /\ at' = p /\ newLines' = Tree!Rewritten(disk[p], call.what)
        BY <3>1, <3>5
      <4>2. call.op = "rename" => p \in ToSet(changes)'
        <5>1. ToSet(changes)' = ToSet(changes')
          BY DEF ToSet
        <5> QED BY <2>3, <3>1, <5>1, ListGrows
      <4>3. p \in Own => newLines' = Tree!Rewritten(given[p], call.what)
        BY <2>2, <4>1
      <4>4. Rewriting(o)'
        BY <1>1, <1>2, <3>3, <3>5, <4>1, <4>2, <4>3 DEF Rewriting
      <4>5. Walked(o)'
        BY <1>1, <2>1, <2>4, <3>2, <3>5, <4>1, <4>4 DEF Walked
      <4>6. TreeShape'
        BY <1>1, <2>1, <2>2, <3>2, <4>1 DEF TreeShape
      <4> QED BY <2>3, <4>5, <4>6 DEF TreeInv
    <3> QED BY <3>4, <3>5
  <2> QED BY <1>4, <2>6, <2>7
<1> QED BY <1>3, <1>4

\* The steps that write one file write that file and its temporary one.
LEMMA TreeFileKeeps ==
    TreeInv /\ (Tree!OpenTmp \/ Tree!FillTmp \/ Tree!TmpFails \/ Tree!RenameTmp \/ Tree!RenameFails
                \/ Tree!OpenDirect \/ Tree!FillDirect \/ Tree!DirectFails) => TreeInv'
<1> SUFFICES ASSUME TreeInv, Tree!OpenTmp \/ Tree!FillTmp \/ Tree!TmpFails \/ Tree!RenameTmp \/ Tree!RenameFails
                             \/ Tree!OpenDirect \/ Tree!FillDirect \/ Tree!DirectFails
             PROVE  TreeInv'
  OBVIOUS
<1>1. pc \notin {"walk", "end"} /\ UNCHANGED <<given, saved, call, todo>> /\ TreeShape
  BY DEF Tree!OpenTmp, Tree!FillTmp, Tree!TmpFails, Tree!RenameTmp, Tree!RenameFails,
         Tree!OpenDirect, Tree!FillDirect, Tree!DirectFails, Tree!Moves, Tree!FileDone, Tree!treeVars, TreeInv
<1>2. PICK k \in 0..Len(Order) : Walked(k)
  BY DEF TreeInv
<1>3. Rewriting(k) /\ AsWalked(k, k) /\ Listed(k, k) /\ Places(Order, todo, Given, k, Len(Order))
  BY <1>1, <1>2 DEF Walked
<1>4. /\ UNCHANGED <<Own, Given>>
      /\ \A p : UNCHANGED <<Tree!Hit(p), Tree!Rewritten(given[p], call.what)>>
  BY <1>1, TreeFrame
<1>5. /\ k \in 1..Len(Order) /\ at = Order[k] /\ at \in Path /\ at \in Names /\ Tmp[at] \in Names
      /\ \A i \in 1..Len(Order) : i # k => Order[i] # at
      /\ ~call.dry
  BY <1>3, OrderOnce, FilesAssumption DEF Rewriting, Names, Range
<1>6. DOMAIN disk = Names /\ changes \in Seq(Path) /\ todo \in Seq(Path) /\ reply = None /\ None # "done"
  BY <1>1 DEF TreeShape, None
<1>7. at \in Own => Tmp[at] # at
  BY DEF Own, Temporary
<1>8. Places(Order, todo', Given', k, Len(Order))
  BY <1>1, <1>3, <1>4
<1>9. ASSUME DOMAIN disk' = Names, \A n \in Names : n \notin {at, Tmp[at]} => disk'[n] = disk[n]
      PROVE  AsWalked(k, k)'
  <2> SUFFICES ASSUME NEW i \in 1..Len(Order), Order[i] \in Own, i # k PROVE disk'[Order[i]] = disk[Order[i]]
    BY <1>1, <1>3, <1>4 DEF AsWalked
  <2>1. Order[i] \in Names /\ Order[i] # at
    BY <1>5, OrderOnce DEF Names
  <2>2. Order[i] # Tmp[at]
    BY <1>5 DEF Own, Temporary
  <2> QED BY <1>9, <2>1, <2>2
<1>10. ASSUME changes' = changes \/ changes' = Append(changes, at)
       PROVE  Listed(k, k)' /\ changes' \in Seq(Path)
  <2>1. changes' \in Seq(Path) /\ ToSet(changes') \in {ToSet(changes), ToSet(changes) \cup {at}}
    BY <1>5, <1>6, <1>10, ListGrows
  <2>2. \A i \in 1..Len(Order) : i # k => (Order[i] \in ToSet(changes') <=> Order[i] \in ToSet(changes))
    BY <1>5, <2>1
  <2>3. ToSet(changes)' = ToSet(changes')
    BY DEF ToSet
  <2> QED BY <1>1, <1>3, <1>4, <2>1, <2>2, <2>3 DEF Listed
\* While the file is not done, or when the call gives up.
<1>11. ASSUME AsWalked(k, k)', UNCHANGED <<changes, at, newLines>>, DOMAIN disk' = Names,
              \/ pc' = "end" /\ reply' # "done"
              \/ /\ pc' \notin {"walk", "end"} /\ UNCHANGED reply
                 /\ (at \in Own /\ pc' = "rename") => disk'[Tmp[at]] = newLines
       PROVE  TreeInv'
  <2>1. Listed(k, k)' /\ ToSet(changes)' = ToSet(changes)
    BY <1>10, <1>11 DEF ToSet
  <2>2. Rewriting(k)' \/ pc' = "end"
    BY <1>1, <1>3, <1>4, <1>11, <2>1 DEF Rewriting
  <2>3. Walked(k)'
    BY <1>1, <1>5, <1>6, <1>8, <1>11, <2>1, <2>2 DEF Walked
  <2>4. TreeShape'
    BY <1>1, <1>6, <1>11 DEF TreeShape
  <2> QED BY <1>2, <2>3, <2>4 DEF TreeInv
\* When it is done.
<1>12. ASSUME AsWalked(k, k)', DOMAIN disk' = Names, pc' = "walk", UNCHANGED reply,
              changes' = IF call.op = "replace" THEN Append(changes, at) ELSE changes,
              at \in Own => disk'[at] = newLines
       PROVE  TreeInv'
  <2>1. Listed(k, k)' /\ changes' \in Seq(Path) /\ ToSet(changes)' = ToSet(changes')
    BY <1>10, <1>12 DEF ToSet
  <2>2. at \in ToSet(changes)'
    <3>1. call.op = "rename" => at \in ToSet(changes)
      BY <1>3 DEF Rewriting
    <3> QED BY <1>1, <1>5, <1>6, <1>12, <2>1, <3>1, ListGrows DEF TreeShape
  <2>3. k <= k /\ k # 0
    BY <1>5
  <2>4. AsWalked(k, 0)'
    <3>1. at \in Own => Tree!Hit(at) /\ disk'[at] = Tree!Rewritten(given[at], call.what)
      BY <1>3, <1>12 DEF Rewriting
    <3> QED BY <1>1, <1>4, <1>5, <1>12, <2>3, <3>1 DEF AsWalked
  <2>5. Listed(k, 0)'
    <3>1. at \in Own => Tree!Hit(at)
      BY <1>3 DEF Rewriting
    <3> QED BY <1>1, <1>4, <1>5, <2>1, <2>2, <2>3, <3>1 DEF Listed
  <2>6. Walked(k)'
    BY <1>1, <1>5, <1>6, <1>8, <1>12, <2>1, <2>4, <2>5 DEF Walked
  <2>7. TreeShape'
    BY <1>1, <1>6, <1>12, <2>1 DEF TreeShape
  <2> QED BY <1>2, <2>6, <2>7 DEF TreeInv
<1>13. CASE Tree!OpenTmp \/ Tree!FillTmp
  <2>1. PICK put : disk' = [disk EXCEPT ![Tmp[at]] = put] /\ (Tree!FillTmp => put = newLines)
    BY <1>13 DEF Tree!OpenTmp, Tree!FillTmp, Tree!Put
  <2>2. /\ UNCHANGED <<changes, at, newLines, reply>>
        /\ \/ pc' = "fill_tmp"
           \/ pc' = "rename" /\ put = newLines
    BY <1>13, <2>1 DEF Tree!OpenTmp, Tree!FillTmp, Tree!Moves, Tree!treeVars
  <2>3. DOMAIN disk' = Names /\ disk'[Tmp[at]] = put /\ \A n \in Names : n \notin {at, Tmp[at]} => disk'[n] = disk[n]
    BY <1>5, <1>6, <2>1
  <2> QED BY <1>9, <1>11, <2>2, <2>3
<1>14. CASE Tree!TmpFails
  <2>1. UNCHANGED <<disk, changes, at, newLines>> /\ (\/ pc' = "end" /\ reply' = "error"
                                                      \/ pc' = "open" /\ UNCHANGED reply)
    BY <1>14 DEF Tree!TmpFails, Tree!WithoutTmp, Tree!Reply, Tree!treeVars
  <2>2. AsWalked(k, k)'
    BY <1>6, <1>9, <2>1
  <2> QED BY <1>6, <1>11, <2>1, <2>2
<1>15. CASE Tree!RenameTmp
  <2>1. /\ pc = "rename" /\ disk' = [disk EXCEPT ![at] = disk[Tmp[at]], ![Tmp[at]] = Tree!NoFile]
        /\ changes' = IF call.op = "replace" THEN Append(changes, at) ELSE changes
        /\ pc' = "walk" /\ UNCHANGED reply
    BY <1>15 DEF Tree!RenameTmp, Tree!FileDone
  <2>2. DOMAIN disk' = Names /\ \A n \in Names : n \notin {at, Tmp[at]} => disk'[n] = disk[n]
    BY <1>5, <1>6, <2>1
  <2>3. at \in Own => disk'[at] = newLines
    <3>1. at \in Own => disk'[at] = disk[Tmp[at]]
      BY <1>5, <1>6, <1>7, <2>1
    <3> QED BY <1>3, <2>1, <3>1 DEF Rewriting
  <2> QED BY <1>9, <1>12, <2>1, <2>2, <2>3
<1>16. CASE Tree!RenameFails
  <2>1. /\ disk' = disk \/ disk' = [disk EXCEPT ![Tmp[at]] = Tree!NoFile]
        /\ UNCHANGED <<changes, at, newLines, reply>> /\ pc' = "open"
    BY <1>16 DEF Tree!RenameFails, Tree!Put, Tree!Moves, Tree!treeVars
  <2>2. DOMAIN disk' = Names /\ \A n \in Names : n \notin {at, Tmp[at]} => disk'[n] = disk[n]
    BY <1>5, <1>6, <2>1
  <2> QED BY <1>9, <1>11, <2>1, <2>2
<1>17. CASE Tree!OpenDirect
  <2>1. /\ disk' = [disk EXCEPT ![at] = Tree!Torn]
        /\ UNCHANGED <<changes, at, newLines, reply>> /\ pc' = "fill"
    BY <1>17 DEF Tree!OpenDirect, Tree!Put, Tree!Moves, Tree!treeVars
  <2>2. DOMAIN disk' = Names /\ \A n \in Names : n \notin {at, Tmp[at]} => disk'[n] = disk[n]
    BY <1>5, <1>6, <2>1
  <2> QED BY <1>9, <1>11, <2>1, <2>2
<1>18. CASE Tree!FillDirect
  <2>1. disk' = [disk EXCEPT ![at] = newLines]
    BY <1>18 DEF Tree!FillDirect, Tree!Put
  <2>2. /\ DOMAIN disk' = Names /\ disk'[at] = newLines
        /\ \A n \in Names : n \notin {at, Tmp[at]} => disk'[n] = disk[n]
    BY <1>5, <1>6, <2>1
  <2>3. CASE call.op = "rename"
    <3>1. UNCHANGED <<changes, at, newLines>> /\ pc' = "end" /\ reply' = "error"
      BY <1>18, <2>3 DEF Tree!FillDirect, Tree!Reply, Tree!treeVars
    <3> QED BY <1>9, <1>11, <2>2, <3>1
  <2>4. CASE call.op # "rename"
    <3>1. changes' = Append(changes, at) /\ pc' = "walk" /\ UNCHANGED reply /\ call.op = "replace"
      BY <1>1, <1>18, <2>4 DEF Tree!FillDirect, Tree!FileDone, TreeShape
    <3> QED BY <1>9, <1>12, <2>2, <3>1
  <2> QED BY <2>3, <2>4
<1>19. CASE Tree!DirectFails
  <2>1. UNCHANGED <<disk, changes, at, newLines>> /\ pc' = "end" /\ reply' = "error"
    BY <1>19 DEF Tree!DirectFails, Tree!Reply, Tree!treeVars
  <2>2. AsWalked(k, k)'
    BY <1>6, <1>9, <2>1
  <2> QED BY <1>6, <1>11, <2>1, <2>2
<1> QED BY <1>13, <1>14, <1>15, <1>16, <1>17, <1>18, <1>19

\* A file that the owner saves is none the walk answers for any more.
LEMMA TreeSaveKeeps == TreeInv /\ OwnerSaves => TreeInv'
<1> SUFFICES ASSUME TreeInv, OwnerSaves PROVE TreeInv'
  OBVIOUS
<1>1. PICK p \in Path : Save(p)
  BY DEF OwnerSaves
<1>2. PICK v \in Versions : disk' = [disk EXCEPT ![p] = v]
  BY <1>1 DEF Save, Put
<1>3. /\ UNCHANGED <<given, call, pc, reply, todo, at, newLines, changes>> /\ pc # "end"
      /\ saved' = saved \cup {p}
  BY <1>1 DEF Save, OwnerSaves, toolVars, treeVars
<1>4. PICK k \in 0..Len(Order) : Walked(k)
  BY DEF TreeInv
<1>5. TreeShape /\ p \in Names
  BY DEF TreeInv, Names
<1>6. \A q \in Own' : q \in Own /\ q \in Path /\ disk'[q] = disk[q] /\ disk'[Tmp[q]] = disk[Tmp[q]]
  <2> SUFFICES ASSUME NEW q \in Own'
               PROVE  q \in Own /\ q \in Path /\ disk'[q] = disk[q] /\ disk'[Tmp[q]] = disk[Tmp[q]]
    OBVIOUS
  <2>1. q \in Path /\ q \in Own /\ q # p /\ Tmp[q] # p
    BY <1>3 DEF Own, Temporary
  <2>2. q \in Names /\ Tmp[q] \in Names /\ DOMAIN disk = Names
    BY <1>5, <2>1, FilesAssumption DEF Names, Range, TreeShape
  <2> QED BY <1>2, <2>1, <2>2
<1>7. /\ UNCHANGED <<Given, Tree!Enough>> /\ ToSet(changes)' = ToSet(changes)
      /\ \A q : UNCHANGED <<Tree!Hit(q), Tree!Rewritten(given[q], call.what)>>
  BY <1>3 DEF Given, Tree!Enough, Tree!Hit, Tree!Matches, Tree!Rewritten, ToSet
<1>8. \A b : (AsWalked(k, b) => AsWalked(k, b)') /\ (Listed(k, b) => Listed(k, b)')
  BY <1>3, <1>6, <1>7 DEF AsWalked, Listed
<1>9. Rewriting(k) => Rewriting(k)'
  BY <1>3, <1>6, <1>7 DEF Rewriting
<1>10. Walked(k)'
  BY <1>3, <1>4, <1>7, <1>8, <1>9 DEF Walked
<1>11. TreeShape'
  BY <1>2, <1>3, <1>5 DEF TreeShape
<1> QED BY <1>4, <1>10, <1>11 DEF TreeInv

LEMMA TreeKeeps == TreeInv /\ tool = "tree" /\ [DiskNext]_allVars => TreeInv'
<1> SUFFICES ASSUME TreeInv, tool = "tree", [DiskNext]_allVars PROVE TreeInv'
  OBVIOUS
<1>1. CASE Tree!TreeNext
  BY <1>1, WalkKeeps, TreeFileKeeps DEF Tree!TreeNext
<1>2. CASE OwnerSaves
  BY <1>2, TreeSaveKeeps
<1>3. CASE UNCHANGED allVars
  <2>1. UNCHANGED <<disk, given, saved, call, pc, reply, todo, at, newLines, changes>>
    BY <1>3 DEF allVars, diskVars, toolVars, treeVars
  <2>2. /\ UNCHANGED <<Own, Given, Tree!Enough>> /\ ToSet(changes)' = ToSet(changes)
        /\ \A q : UNCHANGED <<Tree!Hit(q), Tree!Rewritten(given[q], call.what)>>
    BY <2>1, TreeFrame DEF Tree!Enough, ToSet
  <2>3. \A k, b : UNCHANGED <<AsWalked(k, b), Listed(k, b), Rewriting(k)>>
    BY <2>1, <2>2 DEF AsWalked, Listed, Rewriting
  <2>4. PICK k \in 0..Len(Order) : Walked(k)
    BY DEF TreeInv
  <2>5. Walked(k)'
    BY <2>1, <2>2, <2>3, <2>4 DEF Walked
  <2>6. TreeShape'
    BY <2>1 DEF TreeInv, TreeShape
  <2> QED BY <2>4, <2>5, <2>6 DEF TreeInv
<1> QED BY <1>1, <1>2, <1>3 DEF DiskNext, DirectStep, TreeStep, BatchStep, GitStep, CacheStep, BookStep

\* Wherever rename_symbol and grep_replace end, done, failed or killed between two writes, the files
\* they changed are all those with a match up to a place of the walk, each changed completely; and
\* an answer lists those and only those.
THEOREM RewritesInOrder == DiskSpec => []RewrittenInOrder
<1>1. DiskInit => (tool = "tree" => TreeInv)
  BY TreeStarts
<1>2. (tool = "tree" => TreeInv) /\ [DiskNext]_allVars => (tool = "tree" => TreeInv)'
  <2>1. [DiskNext]_allVars => tool' = tool
    BY DEF DiskNext, DirectStep, TreeStep, BatchStep, GitStep, OwnerSaves, CacheStep, BookStep, allVars
  <2> QED BY <2>1, TreeKeeps
<1>3. (tool = "tree" => TreeInv) => RewrittenInOrder
  <2> SUFFICES ASSUME TreeInv PROVE Tree!RewrittenInOrder
    BY DEF RewrittenInOrder
  <2> DEFINE Place(k) ==
              \A i \in 1..Len(Order) :
                  (Order[i] \in Tree!Own /\ i # k) =>
                      disk[Order[i]] = IF i < k /\ Tree!Hit(Order[i]) THEN Tree!Rewritten(given[Order[i]], call.what)
                                       ELSE given[Order[i]]
  <2>1. PICK k \in 0..Len(Order) : Walked(k)
    BY DEF TreeInv
  <2>2. Tree!Own = Own /\ Len(Order) \in Nat
    BY OrderOnce DEF Tree!Own, Own, Tree!Temporary, Temporary
  <2>3. call.dry => Place(0)
    <3>1. call.dry => AsWalked(k, 0)
      BY <2>1 DEF Walked
    <3>2. \A i \in 1..Len(Order) : ~(i < 0)
      OBVIOUS
    <3> QED BY <2>2, <3>1, <3>2 DEF AsWalked
  <2>4. ~call.dry => \E j \in 0..(Len(Order) + 1) : Place(j)
    <3>1. AsWalked(k, k) /\ k \in 0..(Len(Order) + 1)
      BY <2>1, <2>2 DEF Walked
    <3>2. \A i \in 1..Len(Order) : i # k => (i <= k <=> i < k)
      BY <2>2
    <3>3. ~call.dry => Place(k)
      BY <2>2, <3>1, <3>2 DEF AsWalked
    <3> QED BY <3>1, <3>3
  <2>5. ASSUME reply = "done", NEW p \in Own
        PROVE  IF p \in ToSet(changes)
               THEN Tree!Hit(p) /\ disk[p] = IF call.dry THEN given[p] ELSE Tree!Rewritten(given[p], call.what)
               ELSE disk[p] = given[p] /\ (Tree!Hit(p) => Tree!Enough)
    <3>1. PICK i \in 1..Len(Order) : Order[i] = p
      BY OrderOnce DEF Own
    <3>2. pc = "end"
      BY <2>5 DEF TreeInv, TreeShape, None
    <3>3. AsWalked(k, 0) /\ Listed(k, 0) /\ (todo = <<>> \/ Tree!Enough) /\ i # 0
      BY <2>1, <2>5, <3>2 DEF Walked
    <3>4. CASE p \in ToSet(changes)
      BY <3>1, <3>3, <3>4 DEF AsWalked, Listed
    <3>5. CASE p \notin ToSet(changes)
      <4>1. ~(i <= k /\ Tree!Hit(p))
        BY <3>1, <3>3, <3>5 DEF Listed
      <4>2. disk[p] = given[p]
        BY <3>1, <3>3, <4>1 DEF AsWalked
      <4>3. ASSUME Tree!Hit(p), todo = <<>> PROVE FALSE
        <5>1. i \in (k + 1)..Len(Order)
          BY <2>2, <4>1, <4>3
        <5>2. Places(Order, <<>>, Given, k, Len(Order)) /\ k \in Nat
          BY <2>1, <2>2, <4>3 DEF Walked
        <5>3. p \notin Given
          BY <2>2, <3>1, <5>1, <5>2, PlacesNone
        <5>4. Tree!NoFile = NoFile
          BY DEF Tree!NoFile, NoFile
        <5> QED BY <4>3, <5>3, <5>4 DEF Tree!Hit, Given, Own
      <4> QED BY <3>3, <3>5, <4>2, <4>3
    <3> QED BY <3>4, <3>5
  <2>6. Tree!ToSet(changes) = ToSet(changes)
    BY TreeMembers
  <2> QED
    <3> HIDE DEF Place
    <3>1. IF call.dry THEN Place(0) ELSE \E j \in 0..(Len(Order) + 1) : Place(j)
      BY <2>3, <2>4
    <3> USE DEF Place
    <3> QED BY <2>2, <2>5, <2>6, <3>1, Zenon DEF Tree!RewrittenInOrder
<1> QED BY <1>1, <1>2, <1>3, PTL DEF DiskSpec

-----------------------------------------------------------------------------
(* move_symbol, delete_symbol and write_file *)

LEMMA DirectThose == \A s, S : Direct!Those(s, S) = Those(s, S)
BY DEF Direct!Those, Direct!Gathered, Direct!Gather, Those, Gathered, Gather

LEMMA LeastIs ==
    ASSUME NEW S \in SUBSET Int, NEW m \in S, \A k \in S : m <= k
    PROVE  Direct!Min(S) = m
<1>1. \A x \in S : (\A y \in S : x <= y) => x = m
  OBVIOUS
<1> QED BY <1>1 DEF Direct!Min

\* What a line is.
Line == STRING \cup {Direct!Empty}
LEMMA LinesAre == Direct!Empty \in Line /\ STRING \in SUBSET Line
BY DEF Line

LEMMA TextsAre == \A a \in Seq(STRING) : a \in Seq(Line)
BY LinesAre, SeqMonotonic

\* What is not blank in a text, and in two texts one behind the other.
LEMMA InkOfParts ==
    \A a, b \in Seq(Line) : /\ a \o b \in Seq(Line) /\ Direct!Ink(a) \in Seq(Line)
                            /\ Direct!Ink(a \o b) = Direct!Ink(a) \o Direct!Ink(b)
<1> SUFFICES ASSUME NEW a \in Seq(Line), NEW b \in Seq(Line)
             PROVE  /\ a \o b \in Seq(Line) /\ Direct!Ink(a) \in Seq(Line)
                    /\ Direct!Ink(a \o b) = Direct!Ink(a) \o Direct!Ink(b)
  OBVIOUS
<1> DEFINE S == STRING \ {Direct!Empty}
<1>1. \A x : Direct!Ink(x) = Those(x, S)
  BY DirectThose DEF Direct!Ink
<1> HIDE DEF S
<1>2. a \o b \in Seq(Line)
  BY ConcatProperties
<1>3. Those(a, S) \in Seq(Line)
  BY ThoseTyped
<1>4. Those(a \o b, S) = Those(a, S) \o Those(b, S)
  BY ThoseConcat
<1> QED BY <1>1, <1>2, <1>3, <1>4

\* The line that a write adds has none.
LEMMA InkOfWritten ==
    \A a \in Seq(Line) : Direct!Written(a) \in Seq(Line) /\ Direct!Ink(Direct!Written(a)) = Direct!Ink(a)
<1> SUFFICES ASSUME NEW a \in Seq(Line)
             PROVE  Direct!Written(a) \in Seq(Line) /\ Direct!Ink(Direct!Written(a)) = Direct!Ink(a)
  OBVIOUS
<1> DEFINE e == Direct!Empty
           S == STRING \ {e}
<1>1. e \in Line /\ e \notin S
  BY LinesAre
<1> HIDE DEF e, S
<1>2. Append(a, e) \in Seq(Line) /\ Append(a, e) = a \o <<e>> /\ <<e>> \in Seq(Line)
  BY <1>1, AppendProperties, AppendIsConcat
<1>3. Direct!Ink(<<e>>) = <<>>
  <2>1. Direct!Ink(<<e>>) = Those(<<e>>, S)
    BY DirectThose DEF Direct!Ink, S, e
  <2>2. Those(<<e>>, S) = <<>>
    BY <1>1, ThoseFew
  <2> QED BY <2>1, <2>2
<1>4. Direct!Ink(Append(a, e)) = Direct!Ink(a) /\ Direct!Ink(a) \in Seq(Line)
  <2>1. Direct!Ink(a) \in Seq(Line) /\ Direct!Ink(a \o <<e>>) = Direct!Ink(a) \o Direct!Ink(<<e>>)
    BY <1>2, InkOfParts
  <2> QED BY <1>2, <1>3, <2>1, ConcatEmptySeq
<1>5. Direct!Written(a) = IF a = <<>> THEN <<>> ELSE Append(a, e)
  BY DEF Direct!Written, e
<1> QED BY <1>2, <1>4, <1>5

LEMMA InsertedBetween ==
    \A a, b, c \in Seq(Line) : Direct!Inserted(a \o c, (a \o b) \o c, b)
<1> SUFFICES ASSUME NEW a \in Seq(Line), NEW b \in Seq(Line), NEW c \in Seq(Line)
             PROVE  Direct!Inserted(a \o c, (a \o b) \o c, b)
  OBVIOUS
<1> DEFINE s == a \o c
           i == Len(a)
           n == Len(s)
<1>1. /\ s \in Seq(Line) /\ i \in Nat /\ Len(c) \in Nat /\ n = i + Len(c)
      /\ \A j \in 1..(i + Len(c)) : s[j] = IF j <= i THEN a[j] ELSE c[j - i]
  BY ConcatProperties, LenProperties
<1>2. SubSeq(s, 1, i) = a
  <2>1. \A j \in 1..i : s[j] \in Line /\ s[j] = a[j]
    <3>1. \A j \in 1..i : s[j] = a[j]
      <4> HIDE DEF s
      <4> QED BY <1>1
    <3> QED BY <3>1, ElementOfSeq
  <2> HIDE DEF s
  <2>2. /\ SubSeq(s, 1, i) \in Seq(Line) /\ Len(SubSeq(s, 1, i)) = i
        /\ \A j \in 1..i : SubSeq(s, 1, i)[j] = s[j]
    <3> HIDE DEF i
    <3>1. /\ SubSeq(s, 1, i) \in Seq(Line) /\ Len(SubSeq(s, 1, i)) = IF 1 <= i THEN i - 1 + 1 ELSE 0
          /\ \A j \in 1..(i - 1 + 1) : SubSeq(s, 1, i)[j] = s[1 + j - 1]
      BY <1>1, <2>1, SubSeqProperties
    <3> QED BY <1>1, <3>1
  <2> QED BY <2>1, <2>2, SeqEqual
<1>3. SubSeq(s, i + 1, n) = c
  <2>1. \A j \in (i + 1)..n : s[j] \in Line
    <3> HIDE DEF s, n
    <3>1. \A j \in 1..Len(s) : s[j] \in Line
      BY <1>1, ElementOfSeq
    <3> QED BY <1>1, <3>1 DEF n
  <2>2. \A j \in 1..Len(c) : s[i + j] = c[j]
    <3> HIDE DEF s, n, i
    <3> QED BY <1>1
  <2> HIDE DEF s, n, i
  <2>3. /\ SubSeq(s, i + 1, n) \in Seq(Line) /\ Len(SubSeq(s, i + 1, n)) = IF i + 1 <= n THEN n - (i + 1) + 1 ELSE 0
        /\ \A j \in 1..(n - (i + 1) + 1) : SubSeq(s, i + 1, n)[j] = s[(i + 1) + j - 1]
    <3> DEFINE k == i + 1
    <3>1. k \in Int /\ n \in Int /\ \A j \in k..n : s[j] \in Line
      BY <1>1, <2>1
    <3> HIDE DEF k
    <3>2. /\ SubSeq(s, k, n) \in Seq(Line) /\ Len(SubSeq(s, k, n)) = IF k <= n THEN n - k + 1 ELSE 0
          /\ \A j \in 1..(n - k + 1) : SubSeq(s, k, n)[j] = s[k + j - 1]
      BY <3>1, SubSeqProperties
    <3> QED BY <3>2 DEF k
  <2>4. Len(SubSeq(s, i + 1, n)) = Len(c)
    BY <1>1, <2>3
  <2>5. ASSUME NEW j \in 1..Len(c) PROVE SubSeq(s, i + 1, n)[j] = c[j]
    <3>1. (i + 1) + j - 1 = i + j /\ j \in 1..(n - (i + 1) + 1)
      BY <1>1
    <3> QED BY <2>2, <2>3, <3>1
  <2> QED BY <2>3, <2>4, <2>5, SeqEqual
<1>4. i \in 0..n
  <2> HIDE DEF s, n, i
  <2> QED BY <1>1
<1> HIDE DEF s, i, n
<1>5. (a \o b) \o c = SubSeq(s, 1, i) \o b \o SubSeq(s, i + 1, n)
  BY <1>2, <1>3
<1> QED BY <1>4, <1>5 DEF Direct!Inserted, s, n

\* A text in three parts, cut behind the lines i and j.
LEMMA PartsOfText ==
    ASSUME NEW s \in Seq(Line), NEW i \in 0..Len(s), NEW j \in i..Len(s)
    PROVE  /\ SubSeq(s, 1, i) \in Seq(Line) /\ SubSeq(s, i + 1, j) \in Seq(Line) /\ SubSeq(s, j + 1, Len(s)) \in Seq(Line)
           /\ (SubSeq(s, 1, i) \o SubSeq(s, i + 1, j)) \o SubSeq(s, j + 1, Len(s)) = s
<1>1. Len(s) \in Nat /\ i \in Nat /\ j \in Nat /\ i <= j /\ j <= Len(s)
  BY LenProperties
<1>2. \A k \in 1..Len(s) : s[k] \in Line
  BY ElementOfSeq
<1>3. SubSeq(s, 1, i) \in Seq(Line) /\ SubSeq(s, i + 1, j) \in Seq(Line) /\ SubSeq(s, j + 1, Len(s)) \in Seq(Line)
  <2> DEFINE n == Len(s)
  <2> HIDE DEF n
  <2>1. n \in Nat /\ i <= n /\ j <= n /\ i \in Nat /\ j \in Nat /\ \A k \in 1..n : s[k] \in Line
    BY <1>1, <1>2 DEF n
  <2>2. /\ \A k \in 1..i : s[k] \in Line
        /\ \A k \in (i + 1)..j : s[k] \in Line
        /\ \A k \in (j + 1)..n : s[k] \in Line
    BY <2>1
  <2>3. SubSeq(s, 1, i) \in Seq(Line)
    BY <2>1, <2>2, SubSeqProperties
  <2>4. SubSeq(s, i + 1, j) \in Seq(Line)
    BY <2>1, <2>2, SubSeqProperties
  <2>5. SubSeq(s, j + 1, n) \in Seq(Line)
    BY <2>1, <2>2, SubSeqProperties
  <2> QED BY <2>3, <2>4, <2>5 DEF n
<1>4. SubSeq(s, 1, i) \o SubSeq(s, i + 1, j) = SubSeq(s, 1, j)
  BY <1>1, ConcatAdjacentSubSeq
<1>5. SubSeq(s, 1, j) \o SubSeq(s, j + 1, Len(s)) = SubSeq(s, 1, Len(s))
  <2> DEFINE n == Len(s)
  <2>1. 1 \in 1..(n + 1) /\ j \in (1 - 1)..n /\ n \in j..n
    <3> HIDE DEF n
    <3>1. n \in Nat /\ j <= n
      BY <1>1 DEF n
    <3> QED BY <1>1, <3>1
  <2>2. SubSeq(s, 1, j) \o SubSeq(s, j + 1, n) = SubSeq(s, 1, n)
    BY <2>1, ConcatAdjacentSubSeq
  <2> QED BY <2>2
<1> QED BY <1>3, <1>4, <1>5, SubSeqFull

\* A text without a part of it, and the text: what is not blank in the part is all there is between.
LEMMA InkBetween ==
    ASSUME NEW a \in Seq(Line), NEW b \in Seq(Line), NEW c \in Seq(Line)
    PROVE  Direct!Inserted(Direct!Ink(a \o c), Direct!Ink((a \o b) \o c), Direct!Ink(b))
<1>1. /\ Direct!Ink(a) \in Seq(Line) /\ Direct!Ink(b) \in Seq(Line) /\ Direct!Ink(c) \in Seq(Line)
      /\ a \o b \in Seq(Line) /\ Direct!Ink(a \o b) = Direct!Ink(a) \o Direct!Ink(b)
  BY InkOfParts
<1>2. Direct!Ink(a \o c) = Direct!Ink(a) \o Direct!Ink(c)
  BY <1>1, InkOfParts
<1>3. Direct!Ink((a \o b) \o c) = Direct!Ink(a \o b) \o Direct!Ink(c)
  BY <1>1, InkOfParts
<1>4. Direct!Inserted(Direct!Ink(a) \o Direct!Ink(c), (Direct!Ink(a) \o Direct!Ink(b)) \o Direct!Ink(c), Direct!Ink(b))
  BY <1>1, InsertedBetween
<1> QED BY <1>1, <1>2, <1>3, <1>4

\* What a removal leaves, and where it took the lines from.
LEMMA CutIs ==
    ASSUME NEW s \in Seq(Line), NEW first \in 1..Len(s), NEW last \in first..Len(s)
    PROVE  Direct!Inserted(Direct!Ink(Direct!RemoveLines(s, first, last)), Direct!Ink(s), Direct!Ink(SubSeq(s, first, last)))
<1> DEFINE a == SubSeq(s, 1, first - 1)
           b == SubSeq(s, first, last)
           c == SubSeq(s, last + 1, Len(s))
<1>1. a \in Seq(Line) /\ b \in Seq(Line) /\ c \in Seq(Line) /\ (a \o b) \o c = s
  <2>1. Len(s) \in Nat
    BY LenProperties
  <2>2. first - 1 \in 0..Len(s) /\ last \in (first - 1)..Len(s) /\ (first - 1) + 1 = first
    BY <2>1
  <2> HIDE DEF a, b, c
  <2>3. /\ SubSeq(s, 1, first - 1) \in Seq(Line) /\ SubSeq(s, (first - 1) + 1, last) \in Seq(Line)
        /\ SubSeq(s, last + 1, Len(s)) \in Seq(Line)
        /\ (SubSeq(s, 1, first - 1) \o SubSeq(s, (first - 1) + 1, last)) \o SubSeq(s, last + 1, Len(s)) = s
    BY <2>2, PartsOfText
  <2> QED BY <2>2, <2>3 DEF a, b, c
<1>2. Direct!RemoveLines(s, first, last) = Direct!Written(a \o c)
  BY DEF Direct!RemoveLines
<1> HIDE DEF a, b, c
<1>3. Direct!Ink(Direct!Written(a \o c)) = Direct!Ink(a \o c)
  BY <1>1, InkOfParts, InkOfWritten
<1>4. Direct!Inserted(Direct!Ink(a \o c), Direct!Ink(s), Direct!Ink(b))
  BY <1>1, InkBetween
<1> QED BY <1>2, <1>3, <1>4 DEF b

\* What an insertion before a line there is, or behind the last, makes of a text.
LEMMA PutIs ==
    ASSUME NEW s \in Seq(Line), NEW body \in Seq(Line), NEW line \in 1..(Len(s) + 1)
    PROVE  Direct!Inserted(Direct!Ink(s), Direct!Ink(Direct!InsertLines(s, body, line)), Direct!Ink(body))
<1> DEFINE a == SubSeq(s, 1, line - 1)
           c == SubSeq(s, line, Len(s))
<1>0. Len(s) \in Nat
  BY LenProperties
<1>1. a \in Seq(Line) /\ c \in Seq(Line) /\ a \o c = s
  <2>1. line - 1 \in 0..Len(s) /\ line - 1 \in (line - 1)..Len(s) /\ (line - 1) + 1 = line
    BY <1>0
  <2> HIDE DEF a, c
  <2>2. SubSeq(s, 1, line - 1) \in Seq(Line) /\ SubSeq(s, (line - 1) + 1, Len(s)) \in Seq(Line)
    BY <2>1, PartsOfText
  <2>3. SubSeq(s, 1, line - 1) \o SubSeq(s, (line - 1) + 1, Len(s)) = SubSeq(s, 1, Len(s))
    <3> DEFINE n == Len(s)
               i == line - 1
    <3>1. 1 \in 1..(n + 1) /\ i \in (1 - 1)..n /\ n \in i..n
      <4> HIDE DEF n, i
      <4>1. n \in Nat /\ i \in 0..n
        BY <1>0, <2>1 DEF n, i
      <4> QED BY <4>1
    <3> HIDE DEF i
    <3>2. SubSeq(s, 1, i) \o SubSeq(s, i + 1, n) = SubSeq(s, 1, n)
      BY <3>1, ConcatAdjacentSubSeq
    <3> QED BY <3>2 DEF i
  <2>4. SubSeq(s, 1, Len(s)) = s
    BY SubSeqFull
  <2> QED BY <2>1, <2>2, <2>3, <2>4 DEF a, c
<1>2. Direct!InsertLines(s, body, line) = Direct!Written((a \o body) \o c)
  <2> DEFINE n == Len(s)
  <2> HIDE DEF n
  <2>1. n \in Nat /\ line \in 1..(n + 1)
    BY <1>0 DEF n
  <2>2. Direct!Min({line - 1, n}) = line - 1
    <3>1. {line - 1, n} \in SUBSET Int /\ line - 1 \in {line - 1, n} /\ \A k \in {line - 1, n} : line - 1 <= k
      BY <2>1
    <3> QED BY <3>1, LeastIs
  <2>3. line <= n + 1
    BY <2>1
  <2> QED BY <2>2, <2>3 DEF Direct!InsertLines, n
<1> HIDE DEF a, c
<1>3. (a \o body) \o c \in Seq(Line)
  BY <1>1, InkOfParts
<1>4. Direct!Ink(Direct!Written((a \o body) \o c)) = Direct!Ink((a \o body) \o c)
  BY <1>3, InkOfWritten
<1>5. Direct!Inserted(Direct!Ink(a \o c), Direct!Ink((a \o body) \o c), Direct!Ink(body))
  BY <1>1, InkBetween
<1> QED BY <1>1, <1>2, <1>4, <1>5

\* The symbol that a text has: its lines are there, and it begins and ends as symbols do.
LEMMA FindIs ==
    ASSUME NEW s \in Seq(Line), Direct!Symbols(s) # {},
           \A i \in 1..Len(s) : s[i] = "sig" => \E j \in i..Len(s) : s[j] = "end"
    PROVE  LET f == Direct!FindSymbol(s) IN
              /\ f.first \in 1..Len(s) /\ f.last \in f.first..Len(s) /\ f.body = SubSeq(s, f.first, f.last)
              /\ f.body \in Seq(Line) /\ Head(f.body) = "sig" /\ Direct!Last(f.body) = "end"
<1> DEFINE n == Len(s)
           S == Direct!Symbols(s)
           E(m) == {j \in m..n : s[j] = "end"}
<1>1. n \in Nat /\ \A k \in 1..n : s[k] \in Line
  BY LenProperties, ElementOfSeq
<1>2. S = {i \in 1..n : s[i] = "sig"}
  BY DEF Direct!Symbols
<1> HIDE DEF n, S
<1>3. PICK first \in S : \A k \in S : first <= k
  <2>1. S \in SUBSET Int /\ S # {} /\ 1 \in Int /\ \A k \in S : 1 <= k
    BY <1>1, <1>2 DEF S
  <2> QED BY <2>1, LeastExists
<1>4. first \in 1..n /\ s[first] = "sig" /\ Direct!Min(S) = first
  <2>1. S \in SUBSET Int
    BY <1>1, <1>2
  <2> QED BY <1>2, <1>3, <2>1, LeastIs
<1>5. PICK last \in E(first) : \A k \in E(first) : last <= k
  <2>1. E(first) # {}
    BY <1>4 DEF n
  <2>2. E(first) \in SUBSET Int /\ first \in Int /\ \A k \in E(first) : first <= k
    BY <1>1, <1>4
  <2> HIDE DEF E
  <2> QED BY <2>1, <2>2, LeastExists
<1>6. last \in first..n /\ s[last] = "end" /\ Direct!Min(E(first)) = last
  <2>1. E(first) \in SUBSET Int
    BY <1>1, <1>4
  <2>2. Direct!Min(E(first)) = last
    <3> HIDE DEF E
    <3> QED BY <1>5, <2>1, LeastIs
  <2> QED BY <1>5, <2>2
<1> DEFINE body == SubSeq(s, first, last)
<1>7. Direct!FindSymbol(s) = [first |-> first, last |-> last, body |-> body]
  BY <1>4, <1>6 DEF Direct!FindSymbol, S, n
<1>8. /\ body \in Seq(Line) /\ Len(body) = last - first + 1 /\ Head(body) = s[first]
      /\ body[last - first + 1] = s[last]
  <2>1. /\ first \in Int /\ last \in Int /\ first <= last /\ 1 <= first /\ last <= n
        /\ \A k \in first..last : s[k] \in Line
    BY <1>1, <1>4, <1>6
  <2>2. /\ body \in Seq(Line) /\ Len(body) = last - first + 1
        /\ \A k \in 1..(last - first + 1) : body[k] = s[first + k - 1]
    BY <2>1, SubSeqProperties
  <2>3. last - first + 1 \in 1..(last - first + 1) /\ first + (last - first + 1) - 1 = last
    BY <2>1
  <2>4. Head(body) = s[first]
    <3>1. first \in 1..Len(s) /\ last \in first..Len(s)
      BY <1>4, <1>6 DEF n
    <3> QED BY <3>1, HeadTailOfSubSeq
  <2> HIDE DEF body
  <2> QED BY <2>2, <2>3, <2>4
<1> HIDE DEF body
<1>9. Direct!Last(body) = "end"
  BY <1>6, <1>8 DEF Direct!Last
<1> QED BY <1>4, <1>6, <1>7, <1>8, <1>9 DEF n, body

\* What the call means to write, once it has read it: lines of the files as they were given.
Prepared ==
    LET s == given[call.src]
        d == Direct!Before(call.dst)
    IN
    /\ (call.op # "write" /\ pc # "start" /\ reply # "refused") =>
          Direct!Symbols(s) # {} /\ found = Direct!FindSymbol(s)
    /\ (call.op # "write" /\ (pc \in {"read_dst", "open_src", "fill_src", "open_dst", "fill_dst"} \/ reply = "done")) =>
          newSrc = Direct!RemoveLines(s, found.first, found.last)
    /\ (call.op = "move" /\ (pc \in {"open_src", "fill_src", "open_dst", "fill_dst"} \/ reply = "done")) =>
          newDst = Direct!InsertLines(d, found.body, Direct!ResolveInsertLine(d, call.line))

\* What is in the files when it has been written: the text is taken out before it is put back.
InPlace ==
    /\ (call.op = "move" /\ call.src # call.dst /\ (pc \in {"open_dst", "fill_dst"} \/ reply = "done")) =>
          disk[call.src] = newSrc
    /\ (call.op = "delete" /\ reply = "done") => disk[call.src] = newSrc
    /\ (call.op = "move" /\ reply = "done") => disk[call.dst] = newDst

DirectShape ==
    /\ DOMAIN disk = Names /\ call \in DirectCall /\ given \in Disks["direct"]
    /\ pc # "end" => reply = None
    /\ pc \in {"read_src", "open_src", "fill_src"} => call.op # "write"
    /\ pc = "read_dst" => call.op = "move"
    /\ pc \in {"open_dst", "fill_dst"} => call.op # "delete"
    /\ pc \in {"open_src", "fill_src", "open_dst", "fill_dst"} => ~call.dry
    /\ (call.dry \/ reply = "refused" \/ pc \in {"start", "read_src", "read_dst", "open_src"}) =>
          \A p \in Names : Untouched(p)

DirectInv == DirectShape /\ (saved = {} => Prepared /\ InPlace)

LEMMA DirectStarts == DiskInit => (tool = "direct" => DirectInv)
<1> SUFFICES ASSUME DiskInit, tool = "direct" PROVE DirectInv
  OBVIOUS
<1>1. disk \in Disks["direct"] /\ given = disk /\ reply = None /\ pc = "start" /\ call \in DirectCall
  BY DEF DiskInit, Writers, Direct!DirectInit
<1>2. DOMAIN disk = Names
  BY <1>1, FilesAssumption
<1>3. DirectShape
  BY <1>1, <1>2 DEF DirectShape, Untouched, None
<1>4. Prepared /\ InPlace
  BY <1>1 DEF Prepared, InPlace, None
<1> QED BY <1>3, <1>4 DEF DirectInv

\* A step of the call reads what nobody else has written, or writes what it means to write.
LEMMA DirectStepKeeps == DirectInv /\ Direct!DirectNext => DirectInv'
<1> SUFFICES ASSUME DirectInv, Direct!DirectNext PROVE DirectInv'
  OBVIOUS
<1>0. /\ call.op \in {"move", "delete", "write"} /\ call.dry \in BOOLEAN
      /\ call.src \in Names /\ call.dst \in Names /\ (call.op = "write" => ~call.dry)
  BY SymbolsAssumption DEF DirectInv, DirectShape, Names
<1>1. given' = given /\ saved' = saved /\ call' = call
  BY DEF Direct!DirectNext, Direct!TakeText, Direct!Find, Direct!ReadSrc, Direct!ReadDst, Direct!Refuse, Direct!OpenSrc,
     Direct!FillSrc, Direct!OpenDst, Direct!FillDst, Direct!WriteFails
<1>2. Direct!LinesAt(call.dst) = Direct!Before(call.dst) \/ disk[call.dst] # given[call.dst]
  BY DEF Direct!LinesAt, Direct!Before
<1>3. Direct!Before(call.dst)' = Direct!Before(call.dst)
  BY <1>1 DEF Direct!Before
<1>4. \A p \in Names : (disk' = disk => Untouched(p)' = Untouched(p))
  BY <1>1 DEF Untouched
<1>5. saved = {} /\ (\A p \in Names : Untouched(p)) => disk[call.src] = given[call.src] /\ disk[call.dst] = given[call.dst]
  BY <1>0 DEF Untouched
<1> USE DEF DirectInv, DirectShape
<1>6. CASE Direct!TakeText
  <2>1. DirectShape'
    BY <1>0, <1>1, <1>6 DEF Direct!TakeText, None
  <2>2. call.op = "write"
    BY <1>6 DEF Direct!TakeText
  <2>3. (Prepared /\ InPlace)'
    BY <1>1, <2>2 DEF Prepared, InPlace
  <2> QED BY <2>1, <2>3
<1>7. CASE Direct!Find
  <2> USE <1>7 DEF Direct!Find
  <2>1. DirectShape'
    BY <1>0, <1>1, <1>4 DEF None
  <2>2. ASSUME saved' = {} PROVE (Prepared /\ InPlace)'
    <3>1. Direct!Symbols(Direct!LinesAt(call.src)) # {} /\ disk[call.src] = given[call.src]
      BY <1>1, <1>5, <2>2
    <3>2. Direct!LinesAt(call.src) = given[call.src]
      <4>1. Direct!Symbols(<<>>) = {}
        BY DEF Direct!Symbols
      <4> QED BY <3>1, <4>1 DEF Direct!LinesAt
    <3>3. pc' = "read_src" /\ reply' = None /\ found' = Direct!FindSymbol(given[call.src])
      BY <3>2
    <3> QED BY <1>1, <3>1, <3>2, <3>3 DEF Prepared, InPlace, None
  <2> QED BY <2>1, <2>2
<1>8. CASE Direct!ReadSrc
  <2> USE <1>8 DEF Direct!ReadSrc, Direct!Proceed, Direct!Reply
  <2>1. DirectShape'
    BY <1>0, <1>1, <1>4 DEF None
  <2>2. ASSUME saved' = {} PROVE (Prepared /\ InPlace)'
    <3>1. disk[call.src] = given[call.src] /\ Prepared
      BY <1>1, <1>5, <2>2
    <3>2. /\ newSrc' = Direct!RemoveLines(given[call.src], found.first, found.last) /\ found' = found
          /\ reply' \in {None, "dry"} /\ (pc' = "open_src" => call.op # "move")
          /\ pc' \in {"read_dst", "open_src", "end"}
      BY <3>1
    <3>3. Direct!Symbols(given[call.src]) # {} /\ found = Direct!FindSymbol(given[call.src])
      BY <1>1, <3>1 DEF Prepared, None
    <3> QED BY <1>1, <3>2, <3>3 DEF Prepared, InPlace, None
  <2> QED BY <2>1, <2>2
<1>9. CASE Direct!ReadDst
  <2> USE <1>9 DEF Direct!ReadDst, Direct!Proceed, Direct!Reply
  <2>1. DirectShape'
    BY <1>0, <1>1, <1>4 DEF None
  <2>2. ASSUME saved' = {} PROVE (Prepared /\ InPlace)'
    <3>1. disk[call.dst] = given[call.dst] /\ Prepared
      BY <1>1, <1>5, <2>2
    <3> DEFINE d == Direct!Before(call.dst)
    <3>2. /\ newDst' = Direct!InsertLines(d, found.body, Direct!ResolveInsertLine(d, call.line))
          /\ found' = found /\ newSrc' = newSrc /\ reply' \in {None, "dry"} /\ pc' \in {"open_src", "end"}
      BY <1>2, <3>1
    <3>3. /\ Direct!Symbols(given[call.src]) # {} /\ found = Direct!FindSymbol(given[call.src])
          /\ newSrc = Direct!RemoveLines(given[call.src], found.first, found.last)
      BY <1>1, <3>1 DEF Prepared, None
    <3> QED BY <1>1, <1>3, <3>2, <3>3 DEF Prepared, InPlace, None
  <2> QED BY <2>1, <2>2
<1>10. CASE Direct!Refuse
  <2> USE <1>10 DEF Direct!Refuse, Direct!Reply, Direct!directVars
  <2>1. DirectShape'
    BY <1>0, <1>1, <1>4
  <2>2. (Prepared /\ InPlace)'
    BY DEF Prepared, InPlace
  <2> QED BY <2>1, <2>2
<1>11. CASE Direct!OpenSrc
  <2> USE <1>11 DEF Direct!OpenSrc, Direct!Put, Direct!directVars
  <2>1. DirectShape'
    BY <1>0, <1>1 DEF None
  <2>2. saved' = {} => (Prepared /\ InPlace)'
    BY <1>1, <1>3 DEF Prepared, InPlace, None
  <2> QED BY <2>1, <2>2
<1>12. CASE Direct!FillSrc
  <2> USE <1>12 DEF Direct!FillSrc, Direct!Put, Direct!Reply, Direct!directVars
  <2>1. DirectShape'
    BY <1>0, <1>1 DEF None
  <2>2. disk'[call.src] = newSrc
    BY <1>0
  <2>3. saved' = {} => (Prepared /\ InPlace)'
    BY <1>0, <1>1, <1>3, <2>2 DEF Prepared, InPlace, None
  <2> QED BY <2>1, <2>3
<1>13. CASE Direct!OpenDst
  <2> USE <1>13 DEF Direct!OpenDst, Direct!Put, Direct!directVars
  <2>1. DirectShape'
    BY <1>0, <1>1 DEF None
  <2>2. call.src # call.dst => disk'[call.src] = disk[call.src]
    BY <1>0
  <2>3. saved' = {} => (Prepared /\ InPlace)'
    BY <1>1, <1>3, <2>2 DEF Prepared, InPlace, None
  <2> QED BY <2>1, <2>3
<1>14. CASE Direct!FillDst
  <2> USE <1>14 DEF Direct!FillDst, Direct!Put, Direct!Reply, Direct!directVars
  <2>1. DirectShape'
    BY <1>0, <1>1 DEF None
  <2>2. disk'[call.dst] = newDst /\ (call.src # call.dst => disk'[call.src] = disk[call.src])
    BY <1>0
  <2>3. saved' = {} => (Prepared /\ InPlace)'
    BY <1>1, <1>3, <2>2 DEF Prepared, InPlace, None
  <2> QED BY <2>1, <2>3
<1>15. CASE Direct!WriteFails
  <2> USE <1>15 DEF Direct!WriteFails, Direct!Reply, Direct!directVars
  <2>1. DirectShape'
    BY <1>0, <1>1, <1>4
  <2>2. saved' = {} => (Prepared /\ InPlace)'
    BY <1>1, <1>3 DEF Prepared, InPlace, None
  <2> QED BY <2>1, <2>2
<1> QED BY <1>6, <1>7, <1>8, <1>9, <1>10, <1>11, <1>12, <1>13, <1>14, <1>15 DEF Direct!DirectNext

\* After a save of the owner a call promises only what a dry or a refused one does.
LEMMA DirectSaveKeeps == DirectInv /\ OwnerSaves => DirectInv'
<1> SUFFICES ASSUME DirectInv, OwnerSaves PROVE DirectInv'
  OBVIOUS
<1>1. PICK p \in Path : Save(p) /\ UNCHANGED <<tool, toolVars>>
  BY DEF OwnerSaves
<1>2. PICK v \in Versions : disk' = [disk EXCEPT ![p] = v]
  BY <1>1 DEF Save, Put
<1>3. saved' = saved \cup {p} /\ UNCHANGED <<given, call, pc, reply>> /\ saved' # {}
  BY <1>1 DEF Save
<1>4. DOMAIN disk' = DOMAIN disk
  BY <1>2
<1>5. \A q \in DOMAIN disk : Untouched(q) => Untouched(q)'
  BY <1>2, <1>3 DEF Untouched
<1> QED BY <1>3, <1>4, <1>5 DEF DirectInv, DirectShape

LEMMA DirectKeeps == DirectInv /\ tool = "direct" /\ [DiskNext]_allVars => DirectInv'
<1> SUFFICES ASSUME DirectInv, tool = "direct", [DiskNext]_allVars PROVE DirectInv'
  OBVIOUS
<1>1. CASE Direct!DirectNext
  BY <1>1, DirectStepKeeps
<1>2. CASE OwnerSaves
  BY <1>2, DirectSaveKeeps
<1>3. CASE UNCHANGED <<diskVars, directVars>>
  <2>1. UNCHANGED <<disk, given, saved, call, pc, reply, found, newSrc, newDst>>
    BY <1>3 DEF diskVars, directVars
  <2>2. DirectShape'
    BY <2>1 DEF DirectInv, DirectShape, Untouched
  <2>3. Direct!Before(call.dst)' = Direct!Before(call.dst)
    BY <2>1 DEF Direct!Before
  <2>4. saved = {} => (Prepared /\ InPlace)'
    BY <2>1, <2>3 DEF DirectInv, Prepared, InPlace
  <2> QED BY <2>1, <2>2, <2>4 DEF DirectInv
<1> QED BY <1>1, <1>2, <1>3
      DEF DiskNext, DirectStep, TreeStep, BatchStep, GitStep, CacheStep, BookStep, allVars, toolVars

\* While nobody saves a file, a call of delete_symbol that says it is done took out the symbol and
\* no other line, and so did one of move_symbol between two files, to a line the target has, which
\* put the symbol whole at one place of the target and lost nothing there; a dry or a refused call
\* changed nothing, also while files are saved (movesymbol/tool.go, deletesymbol/tool.go).  Within
\* one file, or beyond the end of the target, the symbol is doubled or lost.
THEOREM SymbolIsMovedWhole == DiskSpec => []SymbolMovedWhole
<1>1. DiskInit => (tool = "direct" => DirectInv)
  BY DirectStarts
<1>2. (tool = "direct" => DirectInv) /\ [DiskNext]_allVars => (tool = "direct" => DirectInv)'
  <2>1. [DiskNext]_allVars => tool' = tool
    BY DEF DiskNext, DirectStep, TreeStep, BatchStep, GitStep, OwnerSaves, CacheStep, BookStep, allVars
  <2> QED BY <2>1, DirectKeeps
<1>3. (tool = "direct" => DirectInv) => SymbolMovedWhole
  <2> SUFFICES ASSUME DirectInv PROVE Direct!MovedWhole
    BY DEF SymbolMovedWhole
  <2>1. call.dry \/ reply = "refused" => \A p \in Direct!Names : Direct!Untouched(p)
    BY DEF DirectInv, DirectShape, Direct!Names, Names, Direct!Range, Range, Direct!Untouched, Untouched
  <2> DEFINE s == given[call.src]
             d == Direct!Before(call.dst)
  <2>2. /\ call \in DirectCall /\ given \in Disks["direct"]
        /\ call.op \in {"move", "delete", "write"} /\ call.line \in Int /\ call.src \in Names /\ call.dst \in Names
    BY SymbolsAssumption DEF DirectInv, DirectShape, Names
  <2>3. /\ s \in Seq(Line) /\ d \in Seq(Line)
        /\ \A i \in 1..Len(s) : s[i] = "sig" => \E j \in i..Len(s) : s[j] = "end"
    <3>1. s \in Seq(STRING) /\ given[call.dst] \in Seq(STRING)
      BY <2>2, SymbolsAssumption
    <3>2. d \in Seq(Line)
      BY <3>1, TextsAre DEF Direct!Before
    <3> QED BY <2>2, <3>1, <3>2, TextsAre, SymbolsAssumption
  <2> HIDE DEF s, d
  <2>4. ASSUME reply = "done", saved = {}, call.op # "write"
        PROVE  /\ Head(found.body) = "sig" /\ Direct!Last(found.body) = "end"
               /\ (call.op = "delete" \/ Direct!Proper) =>
                     Direct!Inserted(Direct!Ink(disk[call.src]), Direct!Ink(given[call.src]), Direct!Ink(found.body))
               /\ Direct!Proper => Direct!Inserted(Direct!Ink(d), Direct!Ink(disk[call.dst]), Direct!Ink(found.body))
    <3>1. pc = "end" /\ Prepared /\ InPlace
      BY <2>4 DEF DirectInv, DirectShape, None
    <3>2. /\ Direct!Symbols(s) # {} /\ found = Direct!FindSymbol(s)
          /\ newSrc = Direct!RemoveLines(s, found.first, found.last)
          /\ call.op = "move" => newDst = Direct!InsertLines(d, found.body, Direct!ResolveInsertLine(d, call.line))
      BY <2>4, <3>1 DEF Prepared, s, d
    <3>3. /\ found.first \in 1..Len(s) /\ found.last \in found.first..Len(s) /\ found.body = SubSeq(s, found.first, found.last)
          /\ found.body \in Seq(Line) /\ Head(found.body) = "sig" /\ Direct!Last(found.body) = "end"
      BY <2>3, <3>2, FindIs
    <3>4. Direct!Inserted(Direct!Ink(newSrc), Direct!Ink(s), Direct!Ink(found.body))
      BY <2>3, <3>2, <3>3, CutIs
    <3>5. (call.op = "delete" \/ Direct!Proper) => disk[call.src] = newSrc
      BY <2>4, <3>1 DEF InPlace, Direct!Proper
    <3>6. ASSUME Direct!Proper
          PROVE  Direct!Inserted(Direct!Ink(d), Direct!Ink(disk[call.dst]), Direct!Ink(found.body))
      <4> DEFINE n == Len(d)
                 line == Direct!ResolveInsertLine(d, call.line)
      <4>1. call.op = "move" /\ call.line <= n + 1
        BY <3>6 DEF Direct!Proper, d
      <4>2. disk[call.dst] = Direct!InsertLines(d, found.body, line)
        BY <2>4, <3>1, <3>2, <4>1 DEF InPlace
      <4>3. line = IF call.line <= 0 THEN n + 1 ELSE call.line
        BY DEF Direct!ResolveInsertLine
      <4>4. n \in Nat
        BY <2>3, LenProperties
      <4>5. line \in 1..(Len(d) + 1)
        <5> HIDE DEF line, n
        <5>1. line \in 1..(n + 1)
          BY <2>2, <4>1, <4>3, <4>4
        <5> QED BY <5>1 DEF n
      <4> HIDE DEF line, n
      <4> QED BY <2>3, <3>3, <4>2, <4>5, PutIs
    <3> QED BY <3>3, <3>4, <3>5, <3>6 DEF s
  <2>5. Direct!Proper => call.op # "write"
    BY DEF Direct!Proper
  <2> QED BY <2>1, <2>4, <2>5 DEF Direct!MovedWhole, d
<1> QED BY <1>1, <1>2, <1>3, PTL DEF DiskSpec

-----------------------------------------------------------------------------
(* The budget of the cache *)

\* What may be cached.
Entries == [path : Cached, size : Int, mod : Int, data : [version : Int, length : Int]]

LEMMA LengthsAre ==
    ASSUME NEW q \in Seq(Entries)
    PROVE  /\ Cache!Lengths(q)[0] = 0
           /\ \A k \in 1..Len(q) : Cache!Lengths(q)[k] = Cache!Lengths(q)[k - 1] + q[k].data.length
           /\ \A k \in 0..Len(q) : Cache!Lengths(q)[k] \in Int
<1> DEFINE L == Len(q)
           len == [n \in 1..L |-> q[n].data.length]
           step == [n \in 1..L |-> [b \in Int |-> b + len[n]]]
           body(g) == [k \in 0..L |-> IF k = 0 THEN 0 ELSE g[k - 1] + q[k].data.length]
<1>1. L \in Nat /\ \A n \in 1..L : len[n] \in Int /\ len[n] = q[n].data.length
  <2>1. L \in Nat /\ \A n \in 1..L : q[n] \in Entries
    BY LenProperties, ElementOfSeq
  <2> HIDE DEF L
  <2> QED BY <2>1 DEF Entries
<1> HIDE DEF L, len
<1>2. step \in [1..L -> [Int -> Int]]
  BY <1>1
<1>3. PICK g \in [0..L -> Int] : g[0] = 0 /\ \A n \in 1..L : g[n] = step[n][g[n - 1]]
  <2> DEFINE Q == Int
             none == 0
  <2>1. L \in Nat /\ none \in Q /\ step \in [1..L -> [Q -> Q]]
    BY <1>1, <1>2
  <2> HIDE DEF step, Q, none
  <2>2. Recursion(Q, L, none, step)
    BY <2>1, RecursionExists
  <2> QED BY <2>2 DEF Recursion, Q, none
<1>4. \A n \in 1..L : g[n] = g[n - 1] + q[n].data.length
  <2> TAKE n \in 1..L
  <2>1. n - 1 \in 0..L
    BY <1>1
  <2>2. g[n - 1] \in Int
    BY <1>3, <2>1
  <2> QED BY <1>1, <1>3, <2>2
<1>5. g = body(g)
  <2> DEFINE h == body(g)
  <2>1. \A k \in 0..L : g[k] = h[k]
    <3> TAKE k \in 0..L
    <3>1. CASE k = 0
      BY <1>3, <3>1
    <3>2. CASE k # 0
      <4>1. k \in 1..L
        BY <1>1, <3>2
      <4> QED BY <1>4, <3>2, <4>1
    <3> QED BY <3>1, <3>2
  <2>2. h = [k \in 0..L |-> h[k]] /\ g = [k \in 0..L |-> g[k]]
    BY <1>3
  <2> HIDE DEF h
  <2>3. g = h
    BY <2>1, <2>2
  <2> QED BY <2>3 DEF h
<1>6. Cache!Lengths(q) = CHOOSE f : f = body(f)
  BY DEF Cache!Lengths, L
<1>7. Cache!Lengths(q) = body(Cache!Lengths(q))
  <2> HIDE DEF body
  <2> QED BY <1>5, <1>6
<1> DEFINE w == Cache!Lengths(q)
<1>8. w[0] = 0 /\ \A k \in 1..L : w[k] = w[k - 1] + q[k].data.length
  <2> HIDE DEF w
  <2>1. w = body(w)
    BY <1>7 DEF w
  <2>2. 0 \in 0..L /\ \A k \in 1..L : k \in 0..L /\ k # 0
    BY <1>1
  <2> QED BY <2>1, <2>2
<1> DEFINE T == {k \in 0..L : w[k] \in Int}
<1>9. \A k \in 0..L : k \in T
  <2> HIDE DEF w
  <2>1. 0 \in T
    BY <1>1, <1>8
  <2>2. ASSUME NEW k \in 0..(L - 1), k \in T PROVE k + 1 \in T
    <3>1. k + 1 \in 1..L /\ (k + 1) - 1 = k /\ k + 1 \in 0..L
      <4>1. L \in Nat
        BY <1>1
      <4> QED BY <4>1
    <3>2. w[k + 1] = w[k] + len[k + 1] /\ len[k + 1] \in Int /\ w[k] \in Int
      BY <1>1, <1>8, <2>2, <3>1
    <3>3. w[k + 1] \in Int
      BY <3>2
    <3> QED BY <3>1, <3>3
  <2> HIDE DEF T
  <2> QED BY <1>1, <2>1, <2>2, Upward
<1> QED BY <1>8, <1>9 DEF w, L

\* Queues whose entries are the same, from a place of each on, have the same lengths there.
LEMMA LengthsShift ==
    ASSUME NEW q \in Seq(Entries), NEW t \in Seq(Entries), NEW k \in 0..Len(q), NEW n \in 0..Len(t),
           k + n <= Len(q), \A j \in 1..n : t[j] = q[k + j]
    PROVE  \A j \in 0..n : Cache!Lengths(t)[j] = Cache!Lengths(q)[k + j] - Cache!Lengths(q)[k]
<1> DEFINE v == Cache!Lengths(q)
           w == Cache!Lengths(t)
           T == {j \in 0..n : w[j] = v[k + j] - v[k]}
<1>1. /\ Len(q) \in Nat /\ Len(t) \in Nat /\ k \in Nat /\ n \in Nat /\ n <= Len(t)
  BY LenProperties
<1> DEFINE M == Len(q)
<1>2. /\ w[0] = 0 /\ \A j \in 1..n : w[j] = w[j - 1] + t[j].data.length /\ t[j].data.length \in Int
      /\ \A j \in 0..n : w[j] \in Int
  <2>1. \A j \in 1..n : t[j] \in Entries /\ j \in 1..Len(t)
    BY <1>1, ElementOfSeq
  <2>2. \A j \in 0..n : j \in 0..Len(t)
    BY <1>1
  <2> QED BY <2>1, <2>2, LengthsAre DEF Entries
<1>3. /\ \A j \in 1..M : v[j] = v[j - 1] + q[j].data.length
      /\ \A j \in 0..M : v[j] \in Int
  BY LengthsAre
<1>4. M \in Nat /\ k + n <= M /\ \A j \in 1..n : t[j] = q[k + j]
  BY <1>1
<1> HIDE DEF v, w, M
<1>5. 0 \in T
  BY <1>1, <1>2, <1>3, <1>4
<1>6. ASSUME NEW j \in 0..(n - 1), j \in T PROVE j + 1 \in T
  <2>1. j + 1 \in 1..n /\ (j + 1) - 1 = j /\ k + (j + 1) \in 1..M /\ (k + (j + 1)) - 1 = k + j /\ k + j \in 0..M /\ k \in 0..M
    BY <1>1, <1>4
  <2>2. w[j + 1] = w[j] + t[j + 1].data.length /\ t[j + 1].data.length \in Int
    BY <1>2, <2>1
  <2>3. v[k + (j + 1)] = v[k + j] + q[k + (j + 1)].data.length
    BY <1>3, <2>1
  <2>4. t[j + 1] = q[k + (j + 1)] /\ w[j] = v[k + j] - v[k] /\ v[k + j] \in Int /\ v[k] \in Int
    BY <1>3, <1>4, <1>6, <2>1
  <2>5. w[j + 1] = v[k + (j + 1)] - v[k]
    BY <2>2, <2>3, <2>4
  <2> QED BY <2>1, <2>5
<1>7. \A j \in 0..n : j \in T
  <2> HIDE DEF T
  <2> QED BY <1>1, <1>5, <1>6, Upward
<1> QED BY <1>7 DEF v, w

\* A queue to which an entry is appended.
LEMMA LengthsAppend ==
    ASSUME NEW q \in Seq(Entries), NEW e \in Entries
    PROVE  /\ Append(q, e) \in Seq(Entries) /\ Len(Append(q, e)) = Len(q) + 1
           /\ \A j \in 1..Len(q) : Append(q, e)[j] = q[j]
           /\ Append(q, e)[Len(q) + 1] = e
           /\ \A i \in 0..Len(q) : Cache!Length(Append(q, e), i, Len(q) + 1) = Cache!Length(q, i, Len(q)) + e.data.length
<1> DEFINE t == Append(q, e)
           n == Len(q)
           v == Cache!Lengths(q)
           w == Cache!Lengths(t)
<1>1. t \in Seq(Entries) /\ Len(t) = n + 1 /\ n \in Nat /\ (\A j \in 1..n : t[j] = q[j]) /\ t[n + 1] = e
  BY AppendProperties, LenProperties
<1>2. /\ \A k \in 0..n : v[k] \in Int
      /\ v[0] = 0
      /\ \A k \in 0..(n + 1) : w[k] \in Int
      /\ w[n + 1] = w[n] + e.data.length
  <2>1. n + 1 \in 1..(n + 1) /\ (n + 1) - 1 = n
    BY <1>1
  <2> HIDE DEF t
  <2> QED BY <1>1, <2>1, LengthsAre
<1>3. \A j \in 0..n : w[j] = v[j]
  <2> HIDE DEF t
  <2>1. 0 \in 0..Len(q) /\ n \in 0..Len(t) /\ 0 + n <= Len(q) /\ \A j \in 1..n : t[j] = q[0 + j]
    BY <1>1
  <2>2. \A j \in 0..n : w[j] = v[0 + j] - v[0]
    BY <1>1, <2>1, LengthsShift
  <2> HIDE DEF v, w
  <2> QED BY <1>1, <1>2, <2>2
<1>4. \A i \in 0..n : Cache!Length(t, i, n + 1) = Cache!Length(q, i, n) + e.data.length
  <2> TAKE i \in 0..n
  <2>1. w[i] = v[i] /\ w[n] = v[n] /\ v[i] \in Int /\ v[n] \in Int /\ e.data.length \in Int /\ w[n + 1] = v[n] + e.data.length
    BY <1>1, <1>2, <1>3 DEF Entries
  <2>2. Cache!Length(t, i, n + 1) = w[n + 1] - w[i] /\ Cache!Length(q, i, n) = v[n] - v[i]
    BY DEF Cache!Length
  <2> HIDE DEF v, w, t, n
  <2> QED BY <2>1, <2>2
<1> QED BY <1>1, <1>4

\* A queue from which the first k entries are taken away.
LEMMA LengthsRest ==
    ASSUME NEW q \in Seq(Entries), NEW k \in 0..Len(q)
    PROVE  LET t == SubSeq(q, k + 1, Len(q)) IN
              /\ t \in Seq(Entries) /\ Len(t) = Len(q) - k
              /\ \A j \in 1..(Len(q) - k) : t[j] = q[k + j]
              /\ Cache!Length(t, 0, Len(t)) = Cache!Length(q, k, Len(q))
<1> DEFINE n == Len(q)
           t == SubSeq(q, k + 1, n)
           v == Cache!Lengths(q)
           w == Cache!Lengths(t)
<1>1. n \in Nat /\ k \in 0..n /\ \A j \in 1..n : q[j] \in Entries
  BY LenProperties, ElementOfSeq
<1>2. t \in Seq(Entries) /\ Len(t) = n - k /\ \A j \in 1..(n - k) : t[j] = q[k + j]
  <2> HIDE DEF n
  <2>1. k + 1 \in Int /\ n \in Int /\ \A j \in (k + 1)..n : q[j] \in Entries
    BY <1>1
  <2>2. /\ t \in Seq(Entries) /\ Len(t) = IF k + 1 <= n THEN n - (k + 1) + 1 ELSE 0
        /\ \A j \in 1..(n - (k + 1) + 1) : t[j] = q[(k + 1) + j - 1]
    BY <2>1, SubSeqProperties
  <2>3. (IF k + 1 <= n THEN n - (k + 1) + 1 ELSE 0) = n - k /\ n - (k + 1) + 1 = n - k
    BY <1>1
  <2>4. \A j \in 1..(n - k) : (k + 1) + j - 1 = k + j
    BY <1>1
  <2> HIDE DEF t
  <2> QED BY <2>2, <2>3, <2>4
<1>3. w[n - k] = v[n] - v[k]
  <2>1. n - k \in 0..Len(t) /\ k + (n - k) <= Len(q) /\ k + (n - k) = n /\ n - k \in 0..(n - k)
    BY <1>1, <1>2
  <2>2. \A j \in 0..(n - k) : w[j] = v[k + j] - v[k]
    <3> HIDE DEF t
    <3> QED BY <1>2, <2>1, LengthsShift
  <2> HIDE DEF w, v, n, t
  <2> QED BY <2>1, <2>2
<1>4. w[0] = 0 /\ v[n] \in Int /\ v[k] \in Int
  <2> HIDE DEF t
  <2>1. n \in 0..Len(q)
    BY <1>1
  <2> QED BY <1>1, <1>2, <2>1, LengthsAre
<1>5. Cache!Length(t, 0, n - k) = w[n - k] - w[0] /\ Cache!Length(q, k, n) = v[n] - v[k]
  BY DEF Cache!Length
<1>6. Cache!Length(t, 0, n - k) = Cache!Length(q, k, n)
  <2> HIDE DEF w, v, n, t
  <2> QED BY <1>3, <1>4, <1>5
<1> HIDE DEF t
<1> QED BY <1>2, <1>6 DEF t

LEMMA CacheMinIs ==
    ASSUME NEW S \in SUBSET Int, S # {}, NEW b \in Int, \A k \in S : b <= k
    PROVE  Cache!Min(S) \in S
<1>1. \E m \in S : \A k \in S : m <= k
  BY LeastExists
<1> QED BY <1>1 DEF Cache!Min

\* An eviction from an exact count ends within the budget, and with an exact count.
LEMMA EvictIs ==
    ASSUME NEW q \in Seq(Entries), NEW n \in 0..Len(q)
    PROVE  LET left == Cache!Evict(q, n, Cache!Length(q, n, Len(q))) IN
              /\ left.evicted \in n..Len(q)
              /\ left.bytes = Cache!Length(q, left.evicted, Len(q)) /\ left.bytes <= CacheMaxBytes
<1> DEFINE M == Len(q)
           v == Cache!Lengths(q)
           b == v[M] - v[n]
           S == {i \in n..M : b - (v[i] - v[n]) <= CacheMaxBytes}
           k == Cache!Min(S)
<1>1. M \in Nat /\ n \in 0..M /\ \A i \in 0..M : v[i] \in Int
  BY LenProperties, LengthsAre
<1>2. \A i, j : Cache!Length(q, i, j) = v[j] - v[i]
  BY DEF Cache!Length
<1>3. CacheMaxBytes \in Nat
  BY ClockAssumption
<1> HIDE DEF M, v
<1>4. v[M] \in Int /\ v[n] \in Int /\ M \in n..M
  BY <1>1
<1>5. M \in S
  BY <1>3, <1>4
<1>6. k \in S
  <2>1. S \in SUBSET Int /\ n \in Int /\ \A i \in S : n <= i
    BY <1>1
  <2> HIDE DEF S
  <2> QED BY <1>5, <2>1, CacheMinIs
<1> HIDE DEF k
<1>7. k \in n..M /\ v[k] \in Int /\ b - (v[k] - v[n]) = v[M] - v[k] /\ v[M] - v[k] <= CacheMaxBytes
  <2>1. k \in n..M /\ b - (v[k] - v[n]) <= CacheMaxBytes
    BY <1>6
  <2>2. v[k] \in Int
    BY <1>1, <2>1
  <2> QED BY <1>4, <2>1, <2>2
<1>8. Cache!Evict(q, n, Cache!Length(q, n, Len(q))) = [evicted |-> k, bytes |-> b - (v[k] - v[n])]
  BY <1>2 DEF Cache!Evict, M, k
<1> HIDE DEF b
<1>9. LET left == [evicted |-> k, bytes |-> b - (v[k] - v[n])] IN
         /\ left.evicted \in n..M
         /\ left.bytes = v[M] - v[left.evicted] /\ left.bytes <= CacheMaxBytes
  BY <1>7
<1> QED BY <1>2, <1>8, <1>9 DEF M

\* The types of what the searches hold.
HeldInv ==
    /\ now \in Int /\ file \in [Cached -> [version : Int, size : Int, mod : Int]]
    /\ DOMAIN where = Reader /\ DOMAIN stat = Reader
    /\ data \in [Reader -> [version : Int, length : Int]]
    /\ \A r \in Reader : /\ stat[r].size \in Int /\ stat[r].mod \in Int
                         /\ where[r] # "idle" => stat[r].path \in Cached

\* The queue: its entries that are not consumed are those of the cache, and of each path one.
QueueIs(q, n) ==
    /\ q \in Seq(Entries) /\ n \in 0..Len(q)
    /\ \A i, j \in (n + 1)..Len(q) : q[i].path = q[j].path => i = j

QueueInv ==
    /\ QueueIs(order, evicted)
    /\ entries = {order[i] : i \in (evicted + 1)..Len(order)}
    /\ bytes = Cache!Length(order, evicted, Len(order)) /\ bytes <= CacheMaxBytes

BudgetInv == HeldInv /\ QueueInv

LEMMA NoStatIs == Cache!NoStat.size = 0 /\ Cache!NoStat.mod = 0
BY Zenon DEF Cache!NoStat

LEMMA BudgetStarts == DiskInit => (tool = "cache" => BudgetInv)
<1> SUFFICES ASSUME DiskInit, tool = "cache" PROVE BudgetInv
  OBVIOUS
<1>1. Cache!CacheIdle
  BY DEF DiskInit, Cache!CacheInit
<1>2. Cache!Min(Sizes) \in Int
  <2>1. Sizes \in SUBSET Int /\ Sizes # {} /\ 0 \in Int /\ \A k \in Sizes : 0 <= k
    BY ClockAssumption
  <2> QED BY <2>1, CacheMinIs
<1>3. HeldInv
  BY <1>1, <1>2, NoStatIs DEF HeldInv, Cache!CacheIdle, Cache!NoData
<1>4. order = <<>> /\ evicted = 0 /\ bytes = 0 /\ entries = {} /\ order \in Seq(Entries) /\ Len(order) = 0
  BY <1>1 DEF Cache!CacheIdle
<1>5. Cache!Length(order, 0, 0) = 0
  <2>1. Cache!Lengths(order)[0] = 0
    BY <1>4, LengthsAre
  <2> QED BY <2>1 DEF Cache!Length
<1>6. CacheMaxBytes \in Nat
  BY ClockAssumption
<1>7. QueueIs(order, evicted)
  BY <1>4 DEF QueueIs
<1>8. entries = {order[i] : i \in (evicted + 1)..Len(order)}
  BY <1>4
<1> QED BY <1>3, <1>4, <1>5, <1>6, <1>7, <1>8 DEF BudgetInv, QueueInv

\* What a search or a writer does but for a store leaves the cache alone.
LEMMA HeldKeeps ==
    ASSUME BudgetInv, NEW r, NEW p,
           \/ Cache!Tick
           \/ p \in Cached /\ Cache!Rewrite(p)
           \/ r \in Reader /\ p \in Cached /\ Cache!Stat(r, p)
           \/ r \in Reader /\ (Cache!Lookup(r) \/ Cache!ReadFile(r) \/ Cache!Leaves(r))
    PROVE  BudgetInv'
<1>1. UNCHANGED <<entries, order, evicted, bytes>>
  BY DEF Cache!Tick, Cache!Rewrite, Cache!Stat, Cache!Lookup, Cache!ReadFile, Cache!Leaves, Cache!storeVars
<1>2. QueueInv'
  BY <1>1 DEF BudgetInv, QueueInv, QueueIs
<1>3. HeldInv
  BY DEF BudgetInv
<1> SUFFICES HeldInv'
  BY <1>2 DEF BudgetInv
<1> USE DEF HeldInv
<1>4. CASE Cache!Tick
  BY <1>3, <1>4 DEF Cache!Tick, Cache!readerVars
<1>5. CASE p \in Cached /\ Cache!Rewrite(p)
  <2>1. UNCHANGED <<now, where, stat, data>>
    BY <1>5 DEF Cache!Rewrite, Cache!readerVars
  <2>2. PICK n \in Sizes :
          file' = [file EXCEPT ![p] = [version |-> file[p].version + 1, size |-> n, mod |-> now]]
    BY <1>5 DEF Cache!Rewrite
  <2>3. n \in Int /\ file[p].version + 1 \in Int
    BY <1>3, <1>5, ClockAssumption
  <2> QED BY <1>3, <1>5, <2>1, <2>2, <2>3
<1>6. CASE r \in Reader /\ p \in Cached /\ Cache!Stat(r, p)
  BY <1>3, <1>6 DEF Cache!Stat, Cache!Goes
<1>7. CASE r \in Reader /\ Cache!Lookup(r)
  <2> DEFINE hits == {e \in entries : Cache!Hit(e, stat[r])}
             e == CHOOSE e \in hits : TRUE
  <2>1. entries \in SUBSET Entries
    <3>1. order \in Seq(Entries) /\ evicted \in 0..Len(order)
      BY DEF BudgetInv, QueueInv, QueueIs
    <3>2. \A i \in (evicted + 1)..Len(order) : order[i] \in Entries
      BY <3>1
    <3> QED BY <3>2 DEF BudgetInv, QueueInv
  <2>2. UNCHANGED <<now, file, stat>> /\ where[r] = "lookup"
    BY <1>7 DEF Cache!Lookup
  <2>3. \/ /\ where' = [where EXCEPT ![r] = "read"] /\ data' = data
        \/ /\ hits # {} /\ where' = [where EXCEPT ![r] = "has"] /\ data' = [data EXCEPT ![r] = e.data]
    BY <1>7 DEF Cache!Lookup, Cache!Goes
  <2>4. hits # {} => e.data \in [version : Int, length : Int]
    <3>1. hits # {} => e \in entries
      OBVIOUS
    <3> HIDE DEF e, hits
    <3> QED BY <2>1, <3>1 DEF Entries
  <2> HIDE DEF e, hits
  <2> QED BY <1>3, <2>2, <2>3, <2>4
<1>8. CASE r \in Reader /\ Cache!ReadFile(r)
  <2>1. /\ UNCHANGED <<now, file, stat>> /\ where[r] = "read"
        /\ where' = [where EXCEPT ![r] = "store"]
        /\ data' = [data EXCEPT ![r] = [version |-> file[stat[r].path].version, length |-> file[stat[r].path].size]]
    BY <1>8 DEF Cache!ReadFile, Cache!Goes
  <2>2. file[stat[r].path] \in [version : Int, size : Int, mod : Int]
    BY <1>3, <1>8, <2>1
  <2> QED BY <1>3, <1>8, <2>1, <2>2
<1>9. CASE r \in Reader /\ Cache!Leaves(r)
  BY <1>3, <1>9, NoStatIs DEF Cache!Leaves, Cache!Goes, Cache!NoData
<1> QED BY <1>4, <1>5, <1>6, <1>7, <1>8, <1>9

\* A store of an entry whose path has none: what is evicted is a beginning of the queue.
LEMMA BudgetStoreKeeps == \A r \in Reader : BudgetInv /\ Cache!Store(r) => BudgetInv'
<1> SUFFICES ASSUME NEW r \in Reader, BudgetInv, Cache!Store(r) PROVE BudgetInv'
  OBVIOUS
<1>1. HeldInv'
  BY DEF BudgetInv, HeldInv, Cache!Store, Cache!Goes
<1>2. CASE ~Cache!Stores(stat[r])
  BY <1>1, <1>2 DEF BudgetInv, QueueInv, QueueIs, Cache!Store, Cache!storeVars
<1>3. CASE Cache!Stores(stat[r])
  <2> DEFINE e == [path |-> stat[r].path, size |-> stat[r].size, mod |-> stat[r].mod, data |-> data[r]]
             q == Append(order, e)
             n == evicted
             N == Len(q)
             left == Cache!Evict(q, n, bytes + data[r].length)
             k == left.evicted
             gone == {q[i] : i \in (n + 1)..k}
  <2>1. /\ entries' = (entries \cup {e}) \ gone /\ bytes' = left.bytes
        /\ \/ order' = q /\ evicted' = k
           \/ order' = SubSeq(q, k + 1, N) /\ evicted' = 0
    BY <1>3 DEF Cache!Store
  <2>2. e \in Entries /\ e.path = stat[r].path /\ e.data.length = data[r].length
    <3>1. where[r] # "idle"
      BY DEF Cache!Store
    <3> QED BY <3>1 DEF BudgetInv, HeldInv, Entries
  <2> HIDE DEF e
  <2>3. order \in Seq(Entries) /\ n \in 0..Len(order) /\ bytes = Cache!Length(order, n, Len(order))
    BY DEF BudgetInv, QueueInv, QueueIs
  <2>4. /\ q \in Seq(Entries) /\ N = Len(order) + 1 /\ q[N] = e
        /\ \A j \in 1..Len(order) : q[j] = order[j]
        /\ Cache!Length(q, n, N) = bytes + data[r].length
    BY <2>2, <2>3, LengthsAppend
  <2>5. Len(order) \in Nat
    BY <2>3, LenProperties
  <2> DEFINE m == Len(order)
  <2>6. /\ q \in Seq(Entries) /\ n \in 0..m /\ m \in Nat /\ N = m + 1
        /\ \A j \in 1..m : q[j] = order[j]
        /\ q[m + 1] = e
    BY <2>3, <2>4, <2>5
  <2>7. /\ entries = {order[i] : i \in (n + 1)..m}
        /\ \A i, j \in (n + 1)..m : order[i].path = order[j].path => i = j
    BY DEF BudgetInv, QueueInv, QueueIs
  <2>8. k \in n..N /\ left.bytes = Cache!Length(q, k, N) /\ left.bytes <= CacheMaxBytes
    <3>1. n \in 0..Len(q)
      BY <2>6
    <3> HIDE DEF q, N
    <3> USE DEF N
    <3> QED BY <2>4, <2>6, <3>1, EvictIs
  <2> HIDE DEF q, N, m, left, k
  <2>9. \A i \in (n + 1)..m : order[i].path # e.path
    BY <1>3, <2>2, <2>7 DEF Cache!Stores, Cache!Entry
  <2>10. \A i, j \in (n + 1)..N : q[i].path = q[j].path => i = j
    <3> SUFFICES ASSUME NEW i \in (n + 1)..N, NEW j \in (n + 1)..N, q[i].path = q[j].path PROVE i = j
      OBVIOUS
    <3>1. (i = N /\ q[i] = e) \/ (i \in (n + 1)..m /\ q[i] = order[i])
      BY <2>6
    <3>2. (j = N /\ q[j] = e) \/ (j \in (n + 1)..m /\ q[j] = order[j])
      BY <2>6
    <3> QED BY <2>7, <2>9, <3>1, <3>2
  <2>11. (entries \cup {e}) \ gone = {q[i] : i \in (k + 1)..N}
    <3>1. entries \cup {e} = {q[i] : i \in (n + 1)..N}
      <4>1. \A i \in (n + 1)..m : i \in (n + 1)..N /\ q[i] = order[i]
        BY <2>6
      <4>2. N \in (n + 1)..N /\ q[N] = e
        BY <2>6
      <4>3. \A i \in (n + 1)..N : i = N \/ (i \in (n + 1)..m /\ q[i] = order[i])
        BY <2>6
      <4> QED BY <2>7, <4>1, <4>2, <4>3
    <3>2. \A i \in (n + 1)..N : q[i] \in gone <=> i <= k
      <4> SUFFICES ASSUME NEW i \in (n + 1)..N PROVE q[i] \in gone <=> i <= k
        OBVIOUS
      <4>1. i <= k => i \in (n + 1)..k
        BY <2>6, <2>8
      <4>2. \A j \in (n + 1)..k : j \in (n + 1)..N /\ (q[j] = q[i] => j = i)
        BY <2>6, <2>8, <2>10
      <4>3. \A j \in (n + 1)..k : j <= k
        BY <2>6, <2>8
      <4> QED BY <4>1, <4>2, <4>3
    <3>3. \A i \in (k + 1)..N : i \in (n + 1)..N /\ ~(i <= k)
      BY <2>6, <2>8
    <3>4. \A i \in (n + 1)..N : ~(i <= k) => i \in (k + 1)..N
      BY <2>6, <2>8
    <3> HIDE DEF gone
    <3> QED BY <3>1, <3>2, <3>3, <3>4
  <2>12. k \in 0..N
    BY <2>6, <2>8
  <2>13. CASE order' = q /\ evicted' = k
    <3>1. QueueIs(q, k)
      <4>1. \A i \in (k + 1)..N : i \in (n + 1)..N
        BY <2>6, <2>8
      <4> QED BY <2>4, <2>10, <2>12, <4>1 DEF QueueIs, N
    <3> HIDE DEF gone
    <3> QED BY <1>1, <2>1, <2>8, <2>11, <2>13, <3>1 DEF BudgetInv, QueueInv, QueueIs, N
  <2>14. CASE order' = SubSeq(q, k + 1, N) /\ evicted' = 0
    <3> DEFINE t == SubSeq(q, k + 1, N)
               d == N - k
    <3>1. /\ t \in Seq(Entries) /\ Len(t) = d
          /\ \A j \in 1..d : t[j] = q[k + j]
          /\ Cache!Length(t, 0, Len(t)) = Cache!Length(q, k, N)
      BY <2>4, <2>12, LengthsRest DEF N
    <3> HIDE DEF t
    <3>2. /\ d \in Nat /\ \A j \in 1..d : k + j \in (k + 1)..N /\ k + j \in (n + 1)..N
          /\ \A i \in (k + 1)..N : i - k \in 1..d /\ k + (i - k) = i
      BY <2>6, <2>8
    <3>3. \A i, j \in 1..d : k + i = k + j => i = j
      BY <2>12, <3>2
    <3> HIDE DEF d
    <3>4. QueueIs(t, 0)
      <4>1. \A i, j \in 1..d : t[i].path = t[j].path => i = j
        BY <2>10, <3>1, <3>2, <3>3
      <4> QED BY <3>1, <3>2, <4>1 DEF QueueIs
    <3>5. {q[i] : i \in (k + 1)..N} = {t[j] : j \in 1..d}
      <4>1. \A j \in 1..d : t[j] = q[k + j] /\ k + j \in (k + 1)..N
        BY <3>1, <3>2
      <4>2. \A i \in (k + 1)..N : i - k \in 1..d /\ t[i - k] = q[i]
        BY <3>1, <3>2
      <4> QED BY <4>1, <4>2
    <3>6. entries' = {t[j] : j \in (0 + 1)..Len(t)} /\ bytes' = Cache!Length(t, 0, Len(t)) /\ bytes' <= CacheMaxBytes
      <4>1. (0 + 1)..Len(t) = 1..d
        BY <3>1
      <4>2. entries' = {t[j] : j \in 1..d}
        <5> HIDE DEF gone
        <5> QED BY <2>1, <2>11, <3>5
      <4>3. bytes' = Cache!Length(q, k, N) /\ bytes' <= CacheMaxBytes
        BY <2>1, <2>8
      <4> QED BY <3>1, <4>1, <4>2, <4>3
    <3>7. order' = t /\ evicted' = 0
      BY <2>14 DEF t
    <3> QED BY <1>1, <3>4, <3>6, <3>7 DEF BudgetInv, QueueInv, QueueIs
  <2> QED BY <2>1, <2>13, <2>14 DEF k, q, N, left
<1> QED BY <1>2, <1>3

LEMMA BudgetKeeps == BudgetInv /\ tool = "cache" /\ [DiskNext]_allVars => BudgetInv'
<1> SUFFICES ASSUME BudgetInv, tool = "cache", [DiskNext]_allVars PROVE BudgetInv'
  OBVIOUS
<1>1. CASE CacheStep
  <2>1. Cache!CacheNext
    BY <1>1 DEF CacheStep
  <2>2. \A r \in Reader : Cache!ReadFails(r) \/ Cache!Return(r) => Cache!Leaves(r)
    BY DEF Cache!ReadFails, Cache!Return
  <2> QED BY <2>1, <2>2, HeldKeeps, BudgetStoreKeeps DEF Cache!CacheNext
<1>2. CASE UNCHANGED cacheVars
  BY <1>2 DEF cacheVars, BudgetInv, HeldInv, QueueInv, QueueIs
<1> QED BY <1>1, <1>2
        DEF DiskNext, DirectStep, TreeStep, BatchStep, GitStep, OwnerSaves, BookStep, allVars, toolVars

(* The count of retained bytes is exact and within the budget, a path has one entry, and the      *)
(* entries are the part of the queue that is not consumed, whoever stores at once (filecache.go).  *)
THEOREM BudgetIsKept == DiskSpec => []BytesCounted
<1>1. DiskInit => (tool = "cache" => BudgetInv)
  BY BudgetStarts
<1>2. (tool = "cache" => BudgetInv) /\ [DiskNext]_allVars => (tool = "cache" => BudgetInv)'
  <2>1. [DiskNext]_allVars => tool' = tool
    BY DEF DiskNext, DirectStep, TreeStep, BatchStep, GitStep, OwnerSaves, CacheStep, BookStep, allVars
  <2> QED BY <2>1, BudgetKeeps
<1>3. (tool = "cache" => BudgetInv) => BytesCounted
  <2> SUFFICES ASSUME BudgetInv PROVE Cache!BytesCounted
    BY DEF BytesCounted
  <2> DEFINE n == evicted
             N == Len(order)
             d == N - n
             f == [j \in 1..d |-> order[n + j]]
  <2>1. /\ order \in Seq(Entries) /\ n \in 0..N /\ entries = {order[i] : i \in (n + 1)..N}
        /\ \A i, j \in (n + 1)..N : order[i].path = order[j].path => i = j
        /\ bytes = Cache!Length(order, n, N) /\ bytes <= CacheMaxBytes
    BY DEF BudgetInv, QueueInv, QueueIs
  <2>2. N \in Nat
    BY <2>1, LenProperties
  <2> HIDE DEF n, N
  <2>3. /\ d \in Nat /\ \A j \in 1..d : n + j \in (n + 1)..N
        /\ \A i \in (n + 1)..N : i - n \in 1..d /\ n + (i - n) = i
        /\ \A i, j \in 1..d : n + i = n + j => i = j
    BY <2>1, <2>2
  <2> HIDE DEF d
  <2>4. Cardinality(entries) = d
    <3>1. f \in [1..d -> entries]
      BY <2>1, <2>3
    <3>2. \A i, j \in 1..d : f[i] = f[j] => i = j
      BY <2>1, <2>3
    <3>3. \A e \in entries : \E j \in 1..d : f[j] = e
      <4> TAKE e \in entries
      <4>1. PICK i \in (n + 1)..N : e = order[i]
        BY <2>1
      <4>2. f[i - n] = e /\ i - n \in 1..d
        BY <2>3, <4>1
      <4> QED BY <4>2
    <3> HIDE DEF f
    <3>4. f \in Bijection(1..d, entries)
      BY <3>1, <3>2, <3>3, Zenon DEF Bijection, Injection, Surjection, IsInjective
    <3>5. ExistsBijection(1..d, entries)
      BY <3>4 DEF ExistsBijection
    <3> QED BY <2>3, <3>5, FS_CountingElements
  <2>5. \A p \in Cached : Cardinality(Cache!Entry(p)) <= 1
    <3> SUFFICES ASSUME NEW p \in Cached PROVE Cardinality(Cache!Entry(p)) <= 1
      OBVIOUS
    <3>1. \A e, g \in Cache!Entry(p) : e = g
      BY <2>1 DEF Cache!Entry
    <3>2. CASE Cache!Entry(p) = {}
      BY <3>2, FS_EmptySet
    <3>3. CASE Cache!Entry(p) # {}
      <4>1. PICK e \in Cache!Entry(p) : TRUE
        BY <3>3
      <4>2. Cache!Entry(p) = {e}
        BY <3>1, <4>1
      <4> QED BY <4>2, FS_Singleton
    <3> QED BY <3>2, <3>3
  <2>6. \A S : Cache!Cardinality(S) = Cardinality(S)
    BY DEF Cache!Cardinality, Cardinality
  <2>7. evicted <= Len(order)
    BY <2>1, <2>2 DEF n, N
  <2> QED BY <2>1, <2>4, <2>5, <2>6, <2>7 DEF Cache!BytesCounted, n, N, d
<1> QED BY <1>1, <1>2, <1>3, PTL DEF DiskSpec
=============================================================================
