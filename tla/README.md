# Verification of grepfunc

grepfunc is an MCP server in Go: it reads JSON-RPC messages on stdin and offers a
coding agent tools that search a source tree and edit files in it.  This directory
holds TLA+ models of the parts whose correctness depends on interleavings, partial
failure and order, the TLC runs that check them, and theorems proved with TLAPS.

## The system

`main.go` registers the tools and calls `Server.Run`.  One goroutine, *Run*, reads a
message at a time and runs its handler to the end.  Concurrency comes from four
places: goroutines the server starts for its own requests to the client and for
writing the resolved root to disk; the worker pool of a tree search; the goroutines
of `batch_patch` and `multi_read`; and everything outside the process that changes
the same files (the user's editor, a kill, a second server).

| component | state | operations | interacts with | hard behaviour |
|---|---|---|---|---|
| tree search (`tools/grepfunc/scanner.go`, `walk.go`) | jobs, results, error and stop channels, atomic match budget | walk, search a file, collect, cut to a page | file cache, every search tool | pool shutdown, full channels, errors on every path, a budget read and written in two steps |
| grep_func reply (`tools/grepfunc/tool.go`) | none | fetch, filter, page, mark as cut | tree search | the mark is computed after the filters |
| file cache (`filecache.go`) | path to stamp and bytes, eviction queue | read, store, evict | workers of all searches | a file rewritten between stat and read |
| patch_file (`tools/patchedit/edit.go`) | the file, `path.tmp` | match, reject overlaps, splice, write, reply | the file system | offsets against old content, partial success, a kill or a failure while writing |
| matchers (`match.go`) | none | exact, whitespace, line and substring match | patch_file, batch_patch | occurrences that overlap themselves |
| batch_patch (`batch.go`) | many files | one patch per file, in parallel | patch_file | some files written, some not |
| project root (`server/server.go`, `tools/memory/tool.go`) | `ProjectRoot`, the lock, `pendingRoot`, pending requests | handshake, roots/list, cwd, absolute path, apply | client, every tool | answers out of order, timeouts, a queue cleared while it is filled |
| memory store (`tools/memory/tool.go`, `persistProjectRoot`) | `.llm/memory.json` | save, merge, delete, persist the root | project root | two read-modify-write cycles on one file |
| multi_read (`tools/multiread/tool.go`) | one slot per entry | expand, flatten, show lines | the file system | goroutines that end in any order, caps on entries and files |
| bookmark (`tools/bookmark/tool.go`) | `.llm/bookmark.json` | set, read with repair and eviction, clear | documents and a repository that change | a stored anchor that has moved or is ambiguous |
| move, delete, rename, replace, write (`tools/*symbol`, `grepreplace`, `writefile`) | files | rewrite one, two or many files | the file system | the second write fails after the first |
| git restore (`tools/gitcontext`) | working tree | report, restore | git | state shown is not the state discarded |
| read-only reports, unregistered tools, statistics, rendering | none or a log | scan and print | tree search | none |

What makes each correct: a search ends, hides no failure and says when it is cut; an
edit that is reported applied is in the file, at its place, and nothing else is
touched; a file is never seen half written; the root the client names wins over what
tools are told, and is eventually used; a store keeps every acknowledged entry.

## Modules

| module | models | run |
|---|---|---|
| `Search` | the concurrent tree search | `search_*` |
| `LineScan`, `BlockScan`, `IndentBlocks`, `Signatures`, `Glob` | what the search finds in a file, and which files | `text_scan` |
| `GrepPage`, `Excerpts`, `MultiRead`, `Matchers` | what is answered from it; where an edit lands | `text_scan` |
| `PatchFile` | one edit of one file | `patch_*` |
| `Disk`, `DirectWrites`, `TreeRewrite`, `BatchPatch`, `GitRestore` | the other tools that write files | `disk_calls` |
| `FileCache`, `Bookmark` | state that outlives a call and a file that changes under it | `disk_calls` |
| `ProjectRoot` | how the root is settled | `root_*` |
| `Memory`, `MemoryStore` | what the store promises, and the store | `memory_*` |

`TextTools` and `DiskTools` compose the modules of their row: the first is a choice of
an algorithm and of a text that is typed piece by piece, the second a choice of a tool
that runs while others save the files it works on.  The modules whose names begin with
`MC` give the constants their values; those that end in `Proof` hold the theorems, over
the lemmas of `Counting`.  `Sublists` is a helper of several: the members of a sequence
that are in a set, in the order of the sequence.

### Search (`MCSearch`, `SearchProof`)

One tree search.  `walker`/`next` is the walker goroutine, `pc[w]`, `job[w]` and
`found[w]` a worker's program counter and locals, `budget` the atomic counter,
`jobs`, `results`/`closed`, `errs` and `stop` the channels, `main`, `out`, `count`
and `page` the caller.  One action per statement another goroutine can observe:
`Recv`/`RecvClosed` (range over jobs), `GiveUp`, `SearchOk` and `SearchFails` (the
load of the budget and the search of a file under it), `AddBudget`, `SendResults`,
`SendError`; `WalkSend` and `WalkStop` are the two cases of the walker's select.  The
load of the budget and the search are one step: the search touches no state the
other goroutines write.  What a search of a file returns is abstracted to the blocks
its hits fall in, in text order; `BlocksHit` cuts the *hits* to the limit and then
reduces them to blocks, as `braceBlocks` does.  Files the glob, the extension, the
size or the NUL test rejects are files without matches.  A worker's `pc` for a file
without matches goes back to `recv`.

| run | instance | shows |
|---|---|---|
| `search_safety` | 2 workers, 4 entries of 7 shapes (2401 trees), page 2, channels of 2 | `TypeOK`, `ErrorRoom`, `BudgetExact`, `NoSilentFailure`, `NothingRunsOn`, `ShortPageComplete`, `FetchBound` |
| `search_ends` | 2 workers, 6 entries (128 trees of full pages, failures, single matches) | `Terminates` |
| `search_hang` | 5 entries, the rest as above | violation, see *Findings* |

Bounds.  The source's pool has up to 4 workers (`searchWorkerCap`) with channels of 4 and 2 slots per
worker; the factors are constants, set to 1 so that both channels fill with four
entries.  Two workers are needed for a race on the budget; six entries exceed what two workers take
and two slots hold, so that the walker would block for ever were the stop channel not
closed.  The last path sorts first, so that walk order and page order
differ.  Workers are symmetric; symmetry is used in the runs without liveness.
`CHECK_DEADLOCK FALSE`: a search stops when it has returned.

Fairness: weak fairness of every goroutine.  The Go scheduler runs whatever can run,
and file operations on a local tree return.  `SearchReturns` is violated under the
same fairness, by goroutines that wait for each other for ever.

### PatchFile (`MCPatchFile`, `PatchFileProof`)

One `patch_file` call.  The text is abstracted to positions: the byte at position `i`
is the number `i`, the text of the `k`-th result the piece `Text(k)`, so a content
says where each of its pieces came from.  An edit is the set of offsets at which the
matchers find it, their length, and whether they are exact: every combination that
`match.go` can produce for two edits of a short file.  `ComputeResults`,
`DetectOverlaps`, `SelectReplacements` and `ApplyReplacements` carry the names of the
code; the loop of `edit.go` over the sorted replacements is `InOrder` (the sort), `Take`
(the test against the end of the one before) and `Splice`, recursive functions.  Inserts precede edits in the results, as the sort by index minus 10000 does;
the sort is by the automatic index, callers that set indices themselves are left out.
`Read` .. `Fill` are the file operations of `readOriginal` and `atomicWrite`, each of
which may fail; `Crash` is a kill between any two of them, `Save` the owner saving
another version.

`patch_call` checks every call of up to two edits of eleven shapes and up to two
inserts on seven patterns, with every flag, on a file of four bytes in two lines:
`TypeOK`, `AppliedAsReported`, `AcceptedApart`, `RestUntouched`, `FileWhole`,
`OnlyAsAnnounced`.  Two regions meet, nest, touch or coincide on four bytes in every
way two intervals can, and a region may belong to an edit with two occurrences, or to
one whose occurrences overlap.  `AppliedAsReported` compares the splice with
`Intended`, a byte-by-byte reading of what the accepted results ask for; it is
restricted to calls in which no insert lands where an edit begins, and
`patch_boundary` shows what happens in the others.  `CHECK_DEADLOCK FALSE`: a call
ends.

### ProjectRoot (`MCProjectRoot`, `ProjectRootProof`)

How the server settles on a root.  `pc`, `msg` and `queued` are the Run goroutine,
`root`, `locked`, `clientRoots` and `pendingRoot` the variables of `server.go`,
`req[i]` and `answer[i]` the goroutine of the `i`-th `requestRoots`.  The client
(`workspace`, `hasRoots`, `asked`, ...) is external and modelled from what the server
expects of it.  `TakeMessage` loads the queue and `ApplyPendingRoot` clears and
applies it: two steps, as in `applyPendingRootIfAny` and `applyPendingRoot`, because
request goroutines store to the queue between them.  `CwdCall`, `PathCall` and
`MemoryCall` are the three ways a tool argument reaches the root.  A directory is an
atom; a path argument stands for the directory it belongs to, symbolic links are
resolved.

| run | instance | shows |
|---|---|---|
| `root_settle` | 2 directories, `PROJECT_ROOT` set or not, 3 requests, calls of any kind; a patient client with 2 changes of the workspace and 2 calls, one that is not with 1 and 1 | `TypeOK`, `LockHasRoot`, `RootFollowsWorkspace`, `RequestsEnd` |
| `root_moved` | as `root_settle`, 2 requests, an impatient client with 1 change and 1 call | violation, see *Findings* |
| `root_lost` | 3 directories, 3 requests, an impatient client with 2 changes and no calls | violation, see *Findings* |

`Clients` is the set of clients of an instance, each with its number of changes and calls.
One that is patient changes its workspace only when no negotiation is under way
(`Settled`) and answers every request in time and with a root; `RootFollowsWorkspace` is
stated of it, because two requests under way at once queue their answers in any order and
because of what `root_lost` shows.  The others may answer late, with no root, or never.
`RootFollowsWorkspace` is checked with all three kinds of calls and with `PROJECT_ROOT`, and
names its two other exceptions: a `PROJECT_ROOT` that was locked
because the handshake named nothing, until the workspace changes (`README.md:149-154`),
and a memory call that no roots/list request follows (`MemoryFollowed`; the run fails
without either exception).  Two directories are enough to tell the client's root from
another; `root_lost` uses three.  `MaxRequests` exceeds the changes of every client,
because every notification starts one request, and so does the handshake.

Fairness: Run, the request goroutines (the timer included) and the client's
handshake; the client goes on sending requests, because a queued root is applied with
the next message and never by itself.  `Spec` adds that a patient client answers roots/list
(`WF_vars(client.patient /\ ClientAnswer(i))`); of the others nothing is assumed, so that
`RequestsEnd` holds because of the timer alone.

### MemoryStore (`Memory`, `MCMemoryStore`, `MemoryStoreProof`)

`.llm/memory.json` and its two writers: the memory tool on the Run goroutine (`Handle`,
`Save`, `SaveFill`) and `persistProjectRoot` on goroutines of its own (`Persist`,
`PersistWrite`, `PersistFill`).  Each loads the store, changes it and writes the whole
file with `os.WriteFile`, which empties the file and then fills it, in two steps a kill,
a failure or the other writer may come between.  `RemoveKey`, `Upsert` and `MergeEntry`
carry the names of the code; `Changed` is what a call does to a loaded store, `WithRoot`
what the goroutine does.  A value is the list of the parts merged into it; two values are
equal when the code's case-insensitive comparison of parts says so.  A file that two
writers have filled without emptying it in between may be `Garbage`, which loads as an
empty store.  Items the tool skips (no key, no value) are left out of a call.

`Memory` is what the store promises: a map in which a save changes the keys it names, at
the cost of others only for lack of room.  `MemoryStore` maps to it by `Known`, the map
the file stands for, or, while a writer is filling the file, the map before it.
`Kept` names for every step the operation of `Memory` it must be.

| run | instance | shows |
|---|---|---|
| `memory_keep` | 3 keys, 2 values, 2 calls of up to 2 items, 1 goroutine, capacity 2 | `TypeOK`, `KeysUnique` however the writers overlap; `KeepsPromise` when they do not |
| `memory_race` | 2 keys, the rest the same | violation, see *Findings* |

`serial` is chosen at the start: the client leaves the server time to settle, or does
not.  Three keys and the root's exceed the capacity of two, so that eviction happens in
the middle of a batch and on a store the root has already overfilled; two values make a
merge that adds a part and one that does not.

### Text (`TextTools`, `MCText`, `TextProof`, `PassagesProof`)

The sequential algorithms the tools are made of, each translated as an operator or a
small machine and compared with a definition that says what it is for.  `TypeText`
appends a piece to the text of the chosen tool, so that every text up to a length is
reached, and the properties are invariants over all of them.

- `LineScan`: the brace counter, with the jump scan (`ScanLine`) that long lines take
  and the walk over every character (`ScanLineDense`).  `ScansAlwaysAgree`: both give
  the same braces and the same lexical state, from every state a line can begin in.
- `BlockScan`: `mapBlockBoundaries` as a machine, one line a step (`ScanNext`), the end
  of the file last (`CloseUnterminated`).  `InnermostBlock` relates its two tables, which
  different tools read.  `BodiesMatched` compares its blocks with brace depths counted
  over the whole file; `Plain` names the files on which it may be expected to succeed,
  and what happens on others is listed under *Effects*.
- `Signatures`: which lines look like a function or a type in the brace languages; the
  lines of `MCText` get their marks from it.
- `IndentBlocks`: `extractBlocksIndent`, with its strings of many lines.  `IndentTree`:
  blocks nest, and the limit cuts the list and not the blocks.
- `Glob`: brace sets, the compiled matcher with its backtracking star, and the splitting
  matcher.  `GlobsAgree`: they agree on every pattern whose alternatives are names (`Named`) and
  the path of any file (`Relative`); of a nested brace set every alternative is tried, up to the cap.
  `FilepathMatch` is Go's `filepath.Match`, external, restricted to the literals, `*`, `?`
  and character classes the queries have.
- `Matchers`: the four readings of `match.go`.  `RegionsTrue`: the region an edit
  replaces reads like the text that was asked for, in the sense of the reading that found
  it, and no closer reading was overlooked.  A text is its bytes: `L` begins a character of
  two bytes that `x` or `y` continues, so two characters may share their first byte, and `ff`
  is a blank that `TrimSpace` trims and `isWhitespace` does not fold.  A white space match
  ends one byte behind the start of its last character, and is shifted when trimming took
  something from the front: `RegionsTrue` reads it up to the end of that character
  (`ToCharEnd`) and is stated of contents that are `Unshifted`.
- `Excerpts`: tails, ranges, entries, windows around hits, summaries of bodies and the
  output budget.  `ShownExact` compares each with the set of lines it stands for; of the
  budget, which may cut inside a line (`server.go:870-871`), it says that a beginning of at
  most that length is left.
- `MultiRead`: a machine of goroutines that expand entries in any order.  `ReadsInOrder`:
  the answer has the files in the order of the call and leaves none out below the cap.
- `GrepPage`: which places a search may collect, filters, the page and the mark.  A match
  carries how many hits of its file come before its own, so that a search may leave out
  matches behind hits that repeat a block or fall in none (`Collectable`), as the limit of
  `scanner.go:727` makes it; which of several files are cut is open.  `PagesTrue`: an answer
  without the mark that is not filtered is complete when every hit is in a match of its own
  (`HitsApart`); following the offsets shows every function once, when the workers collect in
  the order of the walk.

`text_scan` checks all of them in one run: lines of 5 of 9 characters, files of 4 of 12
lines, indented files of 4 lines, patterns of 3 of 7 pieces (2 of 10) on paths of 3 characters,
texts of 4 characters (7 bytes) against queries of up to 5 bytes, answers from 5 files of one
or two matches, calls of 4 entries.
The constants of the code that only scale (samples, caps, page sizes) are reduced so that
each of them is met and exceeded: five alternatives of a brace set, two lines of a head,
a page of one, a fetch of four.  Four lines hold a block in a block with something
before and behind; three path characters hold two components.  `CHECK_DEADLOCK FALSE`: a
text is complete when it has its length.

### Disk (`Disk`, `DirectWrites`, `TreeRewrite`, `BatchPatch`, `GitRestore`, `DiskToolsProof`)

A file is the sequence of its lines as `strings.Split` gives them.  One system call is
one step; a kill is a behaviour that goes no further, so an invariant holds after a kill
as well.  `Torn` is a file opened for writing and not filled.  `Save` is the owner who
saves another version during the call; `given` is the disk at the call's start, and
`Own` the files that are the call's to answer for: those nobody saved and whose name is not
the temporary name of another.  The attempts to remove a temporary file after a failure
(`edit.go:928`, `renamesymbol/tool.go:223`) are left out: what they leave is read by no property.

- `DirectWrites`: `move_symbol`, `delete_symbol` and `write_file` read, compute, and write
  in place, source first.  `SymbolMovedWhole`: a call that says it is done took a whole
  symbol out of one file and put it whole into another, losing no other line; a refused
  call and a dry run change nothing.  For the destination it is restricted to two different
  files and a line the destination has (`Proper`), and to calls nobody saves during.
- `TreeRewrite`: `rename_symbol` and `grep_replace` walk the tree and replace files by
  `path.tmp`, with each tool's own way out when the rename fails.  `RewrittenInOrder`:
  wherever the walk ends, the tree is rewritten up to a place and untouched behind it;
  only the file at that place may be anything, and the report lists the changed files.
- `BatchPatch`: a goroutine per file under a semaphore.  `SummaryTrue`: what the summary
  says of a file is true of it, whichever goroutine fails; it excepts a file whose
  temporary name another file of the glob has.
- `GitRestore`: status, diff, restore, with HEAD and the index as external state; the file
  may be missing in either, or in the working tree.  What is shown is the patch from HEAD, cut
  to `RestoreDiffMaxLines` with a count of the rest (`CapLines`); lines that stay are not told
  from those that go.  `RestoredAsShown`: only a confirmed call restores, and it shows what it
  discards as far as the cap allows, of a file the index knows and that nobody saved between
  the diff and the restore; an answer that there is nothing to restore is true.

### FileCache

`Stat`, `Lookup`, `ReadFile`, `Store` and `Return` are the steps of
`ReadCachedFile` with the walker's stat in front; `Rewrite` and `Tick` are other processes
and the clock that stamps files, whose resolution is one step.  `NeverStale`: who reads
through the cache gets the file as it was at the stat or later, however often it is
rewritten within one stamp.  `BytesCounted`: the retained bytes are exact and within the
budget, one entry per path, and the queue is the cache.  Both hold for two workers that
miss, read and store the same paths at once.  The bytes are the sum of the lengths in the part of
the queue that has not been consumed (`evict`).  `MaxLag < Window` is an assumption about the
machine: a worker that is stopped for the whole stability window between its read and its
store keeps a version that may be rewritten under the same stamp (`filecache.go:10-13`
measures the window at the store).

### Bookmark

`set`, `read` and `clear`, each with the read of the document and the store of the result
as two steps, between which the owner edits (`Rewrite`, `MoveSection`, `DropSection`) and the
repository moves (`Changes`, which deletes and adds files as well, `Commit`, `Amend`,
`Checkout`).  Any git command may fail in any call (`Outages`): `Snapshot` and `Report` have
the empty answers the code makes of it.  A file counts as mentioned when it is there
(`Mention`, `git.gone`), up to `PathScanCap` files (`InScope`).  `FindHeadings`, `SectionMark`,
`IsAncestor` and `ParsePorcelain` carry the names of the code, `RefNow` is the loop of `read`; `home` remembers which section
a reference was last found at, `verified` the document then: both are history, read by the
properties only.  `VerdictTrue`: IDLE means that nothing changed since the last verification
(the document) and since the bookmark was set (the repository), and a changed file that
the shown sections mention is progress, both as far as git answered (`Heard`), and the second
for sections that mention no more files than are looked for.  It excepts an edit that lands inside the verifying
call (`raced`) and the first path of `git status`, whose first column is lost by a trim
(`cut`).  `RefsFollow`: a reference follows its section while the owner moves, renames or
edits it, as long as its heading, or the first line under it, tells it from all others; and
another section is shown only when the heading was renamed or removed, or was one of
several and lost its first line.

`disk_calls` runs all of these modules: every call of `MCDisk` on every initial disk, three
files of which one has the temporary name of another, one save of the owner, two
goroutines; for the cache two workers, two paths, two versions of each, a window of two
of three clock steps, a budget that one large or two small entries fill, and a queue that is compacted at
once (`CompactFrom` 0 for 1024); for the bookmark two documents (a heading twice, a
section in a section, with a file that is there and one that is not at first), two sets of
references, two events, and a git that fails not at all or in three commands of a call.  Left
out are the caps on the changed files (200), the commits (40) and the keywords (12) a read
compares, and the endings of paths it accepts as a mention (`matchesDocPath`).  Two workers are what a
race on an entry needs; a walk of three files has one before and one behind any place
it stops at; two events put an edit and a change of the repository, or an edit inside the
call and one after it, into one behaviour.  The call of a writing tool ends, hence
`CHECK_DEADLOCK FALSE`; the
properties are about what is done, so no fairness is assumed.

## Proofs

All of these hold for every value of the constants that satisfies the assumptions named
in the modules, which say what the code or its callers guarantee: pools and files are
finite and a page holds a match (`WorkersAssumption`, `SizesAssumption`,
`TreesAssumption`); edits are what the matchers return (`EditsAssumption`,
`InsertsAssumption`, `SizeAssumption`); a line is made of the characters the scan tells
apart (`LinesAssumption`); caps are natural numbers (`ReadsAssumption`,
`CapacityAssumption`, `BoundsAssumption`); the root's key is none of the caller's and a
garbled file no store (`KeysAssumption`, `GarbageAssumption`); a walk meets every file
once and two files have two temporary names (`FilesAssumption`); a symbol has an end, because the
scan finds no other, and `write_file` has no dry run (`SymbolsAssumption`); a read is stored
within the stability window, the budget of the cache is a number and so is the size of a file
(`ClockAssumption`); a line of a document has the name of a section if and only if it is a
heading (`DocsAssumption`); a piece of an indented file is made of lines in which a signature is
code and a piece of a text or a query for the matchers is UTF-8 (`TextAssumption`, `WellFormed`;
`IsIndentedLine`, after `scanner.go:1404`, `1497`), which
`IndentedBlocksNest` assumes of the file itself; the cap on the alternatives of a glob and
the cap of an entry are numbers (`GlobAssumption`, `ExcerptsAssumption`), a shared run must have
a positive length (`MatchersAssumption`); and a page is positive and
not longer than what is fetched, a match has hits before it in its file, a call counts its offset from zero (`PagesAssumption`,
`Calls`; what a negative one does is listed under *Effects*).

| theorem | property | argument |
|---|---|---|
| `SearchProof!TypeCorrect` | `TypeOK` | inductive as `TypeInv`, which adds the finiteness of what a worker holds |
| `SearchProof!ErrorsNeverBlock` | `ErrorRoom` | `EndInv`: the errors sent and not yet read are those of workers that are gone by an error, one each, and the channel has one slot per worker |
| `SearchProof!FailuresAreReported` | `NoSilentFailure` | `EndInv`: errors stay in the channel until the caller reads it, which it does only after all workers are gone |
| `SearchProof!NothingLeftRunning` | `NothingRunsOn` | `EndInv`: the results channel is closed only by the closer, and the caller leaves `wait` only after the walk |
| `SearchProof!BudgetIsExact` | `BudgetExact` | `ApartInv`: a file is with one worker, in the channel or done, so what two workers, two batches or a batch and the caller hold is disjoint and its sizes add up (`UnionSize`) |
| `SearchProof!FetchIsBounded` | `FetchBound` | `FetchInv`: a worker holds at most a page, and the sum over those that hold one, plus a budget read below a page, is at most a page per worker |
| `SearchProof!ShortPagesAreComplete` | `ShortPageComplete` | `CountInv`: why each worker left (`ExitReasons`) and where each match is (`Whereabouts`); with no failure and a budget below a page, all of them are with the caller |
| `PatchFileProof!TypeCorrect` | `TypeOK` | `CallInv`: the results of a call are those of `ComputeResults` and `DetectOverlaps` on what was read, whose regions lie in the file |
| `PatchFileProof!AppliesAsReported` | `AppliedAsReported` | `SpliceIsIntended`: the splice up to the `k`-th replacement is the byte-by-byte reading up to its end; byte by byte inside (`ByteStep`, `TextStep`), replacement by replacement outside; sorted and apart, none is skipped (`SelectsAll`) |
| `PatchFileProof!AcceptedNeverOverlap` | `AcceptedApart` | `OverlapsRejected`: of two overlapping regions one loses and its result fails, so none survives in `DetectOverlaps`' result |
| `PatchFileProof!FileStaysWhole` | `FileWhole` | `CallInv`: what is in `path.tmp` when it is renamed is the content computed from what was read |
| `PatchFileProof!ChangesAsAnnounced` | `OnlyAsAnnounced` | `CallInv`: the writing steps are reached only past `Blocked` and `dryRun` |
| `PatchFileProof!RestIsUntouched` | `RestUntouched` | accepted regions are apart, so in sorted order each begins at or behind the end of the one before, inserts first (`KeptIsStacked`, `InsertsAreFirst`); the bytes of the splice outside the regions are those of the original between them, region by region (`SpliceOfKept`, `RestIsKept`) |
| `ProjectRootProof!TypeCorrect` | `TypeOK` | inductive as it stands |
| `ProjectRootProof!LockProtectsRoot` | `LockHasRoot` | `HandshakeFirst`: nothing is locked before the handshake is handled, so a fallback that is no root never comes under a lock |
| `MemoryStoreProof!TypeCorrect` | `TypeOK` | `StoreInv`: what is on disk and what each writer holds is a store, its keys unique, one entry above the capacity only if it has the root's |
| `MemoryStoreProof!KeysStayUnique` | `KeysUnique` | `StoreInv`, over what `RemoveKey`, `Upsert` and `MergeEntry` keep |
| `MemoryStoreProof!StoreKeepsPromise` | `KeepsPromise` | the step simulation of `Memory` under `Known`: each item of a save is a step of the map (`SaveItemMap`), a save their composition (`SaveMap`), by induction over the items; `AloneInv`: of writers that do not overlap, at most one holds a store, and what it loaded is what is known |
| `DiskToolsProof!RestoreIsShown` | `RestoredAsShown` | `GitInv`: until the call has restored, a file nobody saved is what it was, and what is shown is what git made of the file when it was looked at (`Read`), cut to the cap |
| `DiskToolsProof!CacheIsFresh` | `NeverStale` | `CacheInv`: an entry whose stamp a file or a stat still has is as new as every version of that stamp, because it was stored when the stamp was older than the window |
| `DiskToolsProof!VerdictHolds` | `VerdictTrue` | `BookInv`: what the store remembers of document and repository is not empty where git answered, compared with the history since (`NothingSince`); the files looked for are all that are mentioned, when there are no more of them than the cap |
| `DiskToolsProof!SectionsAreFollowed` | `RefsFollow` | `FollowInv`: the labels of the kept references are apart, and a reference whose home is a section has that section's first line as its mark; what `BuildRefs` adds (`AddRefKeeps`, `ResolvedIs`) and `RefNow` finds are the lines of that section in the document as it was read (`RefNowIs`, `ShownIs`), whatever the owner did since (`EditsKeep`) |
| `DiskToolsProof!SymbolIsMovedWhole` | `SymbolMovedWhole` | `DirectInv`: what is to be written is computed from files nobody else has written, and each file is the old or the new one by the point the call has reached; that the new source and destination are the symbol cut out and put in is algebra of lines (`CutIs`, `PutIs`, `InkOfParts`) |
| `DiskToolsProof!RewritesInOrder` | `RewrittenInOrder` | `TreeInv`: the walk stands behind its `k`-th file, those before are rewritten or skipped, those behind untouched (`NextFile`, over `Places`) |
| `DiskToolsProof!SummaryIsTrue` | `SummaryTrue` | `BatchInv`: a waiting file is untouched and has no row; a step of one goroutine writes its own file and temporary file only (`FileStepKeeps`), so the others' rows stay true |
| `DiskToolsProof!BudgetIsKept` | `BytesCounted` | `BudgetInv`: the unconsumed part of the queue is the cache, one entry a path; a store appends, an eviction takes from the front and a compaction shifts without changing the sum (`LengthsShift`, `EvictIs`) |
| `TextProof!ScansAgreeOnLines` | `ScansAlwaysAgree` | `TextInv`: a typed line is made of the characters of its pieces, so `JumpScanIsWalk` says what the scans do with it |
| `TextProof!IndentedFilesAreTrees` | `IndentTree` | `TextInv`, and `IndentedBlocksNest` for the file that is typed |
| `TextProof!GlobsAlwaysAgree` | `GlobsAgree` | `MatchersAgree`: the greedy star covers what some split of the path covers (`GreedyMatches`), and walking the path is splitting it (`MatchPartsFromIs`); every choice of a nested brace set is tried (`PicksTaken`) and nothing else is (`TakenPicks`), by induction on the length of what is left to expand, up to the cap (`CappedIs`) |
| `TextProof!PagesAreTrue` | `PagesTrue` | `NoneLeftOut`: of the matches a search left out, the one with the fewest hits before it in its file has all matches before it collected, so page and hits together reach the limit; `UnmarkedIsWhole`: hence a search that stays below its fetch collected everything; `LeadInTurn`: what the workers collect in the order of the walk is a lead of it; pages are tiles of what was fetched (`PageAt`), one behind the other (`TilesAreLead`) |
| `PassagesProof!ShownAsAsked` | `ShownExact` | `WindowsGrow`, `MergeApart`: after each hit the windows cover exactly the lines around the hits so far, and are apart; `BehindCut`, `TailCut`: the walk back from the end stops at the cut that leaves as many lines as were asked for; `TailCuts`: the lines of the tail end where those of the text do |
| `PassagesProof!RegionsAlwaysRead` | `RegionsTrue` | `EndsWhole`, `RuneIs`, `RunesGrow`: the byte index of a folded text leads to the character it lies in, whose place in the file ascends; `PartCollapses`: between two of its survivors a text collapses to the survivors between them, so a white space match taken to the end of its last character reads like the text (`WsRegionIs`); `LinesOfPart`: the lines between two breaks are lines of the file, and a last empty one; `GrowIs`, `WindowFromIs`: a window grows until the content no longer holds it, and every part of a shared run is shared (`HoldsPart`) |
| `TextProof!ToolsKeepTheirPromises` | the four below that machines keep | the machines take the same steps in the composition (`ScanRuns`, `ReadsRun`) |
| `TextProof!IndentedBlocksNest` | what `IndentTree` checks | `IndentEndIs`: a block ends before the first line of code that is not deeper than its head, so one that starts inside another ends inside it |
| `TextProof!JumpScanIsWalk` | what `ScansAlwaysAgree` checks | `JumpIsWalk`: from every position and state, a jump to the next character that matters counts what the walk over all of them does (`RunIsWalk`), by induction from the end of the line |
| `TextProof!BlocksTypeCorrect` | `BlockTypeOK` | `BlockInv` |
| `TextProof!InnermostIsRecorded` | `InnermostBlock` | `BlockInv`: the open blocks are nested as the stack is, and the tables agree on the closed ones (`TablesGrow`, `TablesClose`) |
| `TextProof!BodiesAreMatched` | `BodiesMatched` | `MatchInv`: the machine's depth is the depth counted over the file (`WalkedGrows`), and the depth has stayed above its mark since the start of each open block |
| `TextProof!ReadsFollowTheCall` | `ReadsInOrder` | `ReadInv` (a slot holds nothing or the expansion of its entry), and `FlattenIs`: flattening them in order is the answer in order |

`Counting` holds what these share.  The library's induction theorems take an operator as a
parameter, which the provers cannot instantiate; `Inductive` and `Upward` state induction for
a *set* of naturals, from their well-foundedness, and `Downward` the converse order.
`RecursionExists` and `FixedPointExists` give a recursive function its equation, upward and
downward: a definition `f[n] == ...` is a `CHOOSE` until some function is shown to satisfy
it.  `RankedInduction` and `RankedExists` do both for a function on any set whose elements
have a length, such as the expansion of what is left of a glob.  What the model computes by recursion (`InOrder`, `Take`, `Splice`, `RemoveKey`, the
saves of a batch, the scans, `Filled`, `Those`, `Lengths`) is therefore written as recursive
functions.  `GatheredIs`, `ThoseConcat` and `ThosePlaces` say what the members of a sequence
in a set are: those of two sequences one behind the other, and each at a later place than
the one before, with none left out between (`Places`).  `InTurnIs` and `SplitIs` in `TextProof` say the same of a set of
places and of what lies between them, and `OneOrder` that two ascending sequences of the same
members are the same.  The
rest of the module is sizes: `RankedIs` and `LeadingSize` for sorted sets, `UnionSize` for
a family of disjoint sets.

Only model-checked:
- `Terminates`, `RequestsEnd` and `RootFollowsWorkspace`, which need fairness and `ENABLED`.
- The five runs that expect a violation: TLC finds a counterexample.

## Findings

| run | code | contradicts |
|---|---|---|
| `search_hang` | `scanner.go:106` and `184`: every worker exits on an error, the walker blocks on jobs, the caller on the walker | the comment at 175-176 |
| `patch_boundary` | `edit.go:653`: an edit that begins where an insert lands is dropped and reported applied | `edit_test.go:291` and `318-331` |
| `root_moved` | `tools/memory/tool.go:220`: the path argument of a memory call becomes the root, locked or not | `server.go:904` |
| `root_lost` | `server.go:315`: a root queued between load and clear is discarded | `server.go:791` |
| `memory_race` | `server.go:961`: the goroutine that persists the root writes back the store it loaded before a save | `README.md:180` |

## Effects

What the models do because the code does, short of a finding; each is the
reason for an exception that a property states.

Search and root
- Which matches fill a full page depends on which worker reaches the budget first
  (`scanner.go:99`); the sort of `scanner.go:74` orders whatever was collected.
- The limit of `scanner.go:727` is on raw hits, and several hits in one block are one
  match: a page can be short and unmarked although there is more, against `README.md:198`.
- The mark is computed after the receiver and exclude filters (`tools/grepfunc/tool.go:246`),
  so a filtered answer is not known to be cut.  With types, functions come first and the
  fetch grows with the offset, so functions found later shift the pages.  With names only,
  `exclude_pattern` does not look at bodies, which were not read.
- Two roots/list requests under way at once may queue their answers in the wrong order
  (`server.go:662`).  The root a memory call has set stays until the next roots/list answer.

Text
- An empty or `.` alternative of a glob has no part and is indexed all the same; a range
  that ends before its start minus one slices below zero; a negative offset of grep_func
  does so in the page (`tools/grepfunc/tool.go:320`).  None of these panics is recovered.
- `./*.go` matches under the compiled matcher and not under the splitting one; in
  `{a}/{b,c}` the group without a comma stops the expansion.
- `matchSimple` compares the characters before it looks for a star, so the pattern `*` does
  not match a file named `*a`, although it is to match "the way filepath.Match would"
  (`scanner.go:597`); its `?` is one byte, that of `filepath.Match` one character.
- A body that opens at a depth below zero is taken for one not open yet (`scanner.go:1018`,
  `1090`): no line closes it.  `}}` closes one body of two; a keyword signature without a body hides the signatures behind it.
- A string of many lines that goes back to the margin ends an indented block.
- A white space match that ends in a character of several bytes ends one byte behind its start
  (`match.go:114-116`).  `TrimSpace` (`match.go:150`, `202`) trims more blanks than `isWhitespace` folds: a
  content that begins with a form feed shifts every region of a white space match by one
  character, and one of several bytes, which are counted as that many entries (151-155), may
  make the index run past the table.
- A substring match compares and cuts bytes (`match.go:344-381`): two texts that share the first byte of a
  character share a run that ends inside it, and the edit replaces half a character.

Files
- `move_symbol` within one file leaves the symbol in it twice, because the insertion is
  computed on the text that still has it; a line beyond the end of the destination inserts nothing, and a failed second
  write leaves the symbol in neither file.  Each write ends the file with one empty line more.
- When the rename of `path.tmp` fails, `rename_symbol` writes in place and reports an error;
  when the walk of `grep_replace` fails, the reply names none of the files it replaced.
- `batch_patch` counts an edit as applied when the write of its file failed; without
  `fail_fast` a file in which all edits failed is absent from the summary.
- `git` restores the working tree and not the index, and shows a status and a difference read
  before: a save in between is discarded unseen.  A file that is in HEAD and was taken out of the index
  (`git rm --cached`) is shown as deleted, and the content in the working tree is discarded
  unseen, against `README.md:179` and `227-228`.  A long difference is shown in part, with a
  count of the rest (`gitcontext/tool.go:368`).
- A git command that fails is taken for one that found nothing (`bookmark/tool.go:880-892`): with no
  branch or no commit to compare (458, 466) a read answers IDLE of a repository that changed.
- A reference repaired by its first line shows the range to the end of the document, text
  lines that look like headings count as such, and renaming the first of two equal headings
  lets the reference follow the second.  An edit between the read of the document and the
  stamp of the store is missed by the next verdict.
- An entry of the cache whose stamp is outdated is never replaced, only evicted.

## Not modelled

- Rendering, diffs, schemas, wording, formatters and validators: layout and process calls.
- The read-only reports (imports, related files, contexts, trees): sequential scans without
  state, over the search and the scanners modelled here.
- The `.gitignore` rules, the signature tables of languages other than the brace and indented
  ones, the search inside a symbol: tables and regular expressions, whose contents are data.
- The framing of messages, `CheckBounds` and symbolic links: sequential checks
  of one message or one path.
- Blanks of several bytes and bytes that are no UTF-8 in the texts of `patch_file`.
- Line endings and file modes; statistics; what is in the tree but not registered.

## Plan

The modules are in place, and every safety property that a run checks is a theorem.  What is
left is liveness, which stays with TLC; wider instances for it (three workers in
`search_ends`); and the parts under *Not modelled* that grow state of their own.
