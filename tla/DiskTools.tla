----------------------------- MODULE DiskTools -----------------------------
(***************************************************************************)
(* The tools at work on files that others change meanwhile: one call of a tool *)
(* that writes files, while their owner saves some; the searches that read     *)
(* through the cache; and the calls of the bookmark tool.                     *)
(***************************************************************************)
EXTENDS Disk

CONSTANTS
    Tools,                                          \* the tools that are called
    DirectCall, TreeCall, BatchCall, RestoreCall,   \* the calls of each tool
    RestoreDiffMaxLines,                            \* of GitRestore
    NumCPU,                                         \* goroutines of batch_patch
    Disks,                                          \* per tool: the files a call may meet
    Reader, Cached, Sizes, Window, CacheMaxBytes, CacheMaxEntry, CompactFrom,
    MaxTime, MaxWrites, MaxLag,                     \* of FileCache
    Docs, Texts, Lower, Specs, MaxRefs, Files, Absent, PathScanCap, Outages, Subjects, MaxEvents   \* of Bookmark

ASSUME ToolsAssumption == Tools \subseteq {"direct", "tree", "batch", "git", "cache", "bookmark"}
\* A call meets every file there may be, or that it does not exist, which is no text its owner
\* could save; a walk meets every file once; two files have two temporary names; a call to
\* restore names a file, and one that rewrites a tree is of one tool or the other.
ASSUME FilesAssumption == /\ \A t \in {"direct", "tree", "batch", "git"} : \A d \in Disks[t] : DOMAIN d = Names
                          /\ NoFile \notin Versions
                          /\ Order \in Seq(Path) /\ ToSet(Order) = Path
                          /\ \A i, j \in 1..Len(Order) : i # j => Order[i] # Order[j]
                          /\ DOMAIN Tmp = Path /\ \A p, q \in Path : p # q => Tmp[p] # Tmp[q]
                          /\ NumCPU \in Nat
                          /\ RestoreCall \subseteq [file : Path, confirm : BOOLEAN]
                          /\ RestoreDiffMaxLines \in Nat
                          /\ \A c \in TreeCall : c.op \in {"rename", "replace"}
\* A call that moves or deletes names files there may be; a text is lines, and a symbol in it has
\* an end, because the scan finds no other; write_file has no dry run.
ASSUME SymbolsAssumption ==
    /\ \A c \in DirectCall : /\ c.op \in {"move", "delete", "write"} /\ c.dry \in BOOLEAN /\ c.line \in Int
                            /\ c.src \in Path /\ c.dst \in Path /\ (c.op = "write" => ~c.dry)
    /\ \A d \in Disks["direct"] : \A p \in Names :
          /\ d[p] \in Seq(STRING)
          /\ \A i \in 1..Len(d[p]) : d[p][i] = "sig" => \E j \in i..Len(d[p]) : d[p][j] = "end"
\* Between a read and its store passes less time than a file must rest to be kept.
ASSUME ClockAssumption == /\ Window \in Nat /\ MaxLag \in Nat /\ MaxLag < Window
                          /\ Sizes \subseteq Nat /\ Sizes # {} /\ CacheMaxBytes \in Nat
\* The lines of a document: a heading has a section, and the name of one; other lines do not.
DocLine == {l \in [level : Int, text : STRING, id : Int] : l.level > 0 <=> l.id # 0}
ASSUME DocsAssumption == /\ Docs \subseteq Seq(DocLine) /\ Texts \subseteq STRING
                         /\ Specs \subseteq Seq([label : STRING, heading : STRING])
                         /\ Files \in Seq(STRING) /\ Absent \subseteq SUBSET ToSet(Files)
                         /\ PathScanCap \in Nat \ {0}

VARIABLES
    tool,
    found, newSrc, newDst,          \* DirectWrites
    todo, at, newLines, changes,    \* TreeRewrite
    waiting, task, text, rows,      \* BatchPatch
    head, index, state, looked, shown, dropped,               \* GitRestore
    now, file, entries, order, evicted, bytes, where, stat, data, readAt,   \* FileCache
    doc, book, lines, git, edited, doing, verdict, spans,                   \* Bookmark
    home, verified, raced, unheard, missed, events

Direct == INSTANCE DirectWrites
Tree == INSTANCE TreeRewrite
Batch == INSTANCE BatchPatch
Git == INSTANCE GitRestore
Cache == INSTANCE FileCache
Book == INSTANCE Bookmark

directVars == <<found, newSrc, newDst>>
treeVars == <<todo, at, newLines, changes>>
batchVars == <<waiting, task, text, rows>>
gitVars == <<head, index, state, looked, shown, dropped>>
cacheVars == <<now, file, entries, order, evicted, bytes, where, stat, data, readAt>>
bookVars == <<doc, book, lines, git, edited, doing, verdict, spans, home, verified, raced,
              unheard, missed, events>>
toolVars == <<directVars, treeVars, batchVars, gitVars, cacheVars, bookVars>>
Writers == {"direct", "tree", "batch", "git"}
NoCall == "no_call"

DiskInit ==
    /\ tool \in Tools
    /\ IF tool \in Writers THEN disk \in Disks[tool]
       ELSE disk = [p \in Names |-> NoFile] /\ call = NoCall /\ pc = "end"
    /\ given = disk /\ saved = {} /\ reply = None
    /\ IF tool = "direct" THEN Direct!DirectInit ELSE Direct!DirectIdle
    /\ IF tool = "tree" THEN Tree!TreeInit ELSE Tree!TreeIdle
    /\ IF tool = "batch" THEN Batch!BatchInit ELSE Batch!BatchIdle
    /\ IF tool = "git" THEN Git!GitInit ELSE Git!GitIdle
    /\ IF tool = "cache" THEN Cache!CacheInit ELSE Cache!CacheIdle
    /\ IF tool = "bookmark" THEN Book!BookInit ELSE Book!BookIdle

DirectStep ==
    tool = "direct" /\ Direct!DirectNext /\ UNCHANGED <<tool, treeVars, batchVars, gitVars, cacheVars, bookVars>>
TreeStep ==
    tool = "tree" /\ Tree!TreeNext /\ UNCHANGED <<tool, directVars, batchVars, gitVars, cacheVars, bookVars>>
BatchStep ==
    tool = "batch" /\ Batch!BatchNext /\ UNCHANGED <<tool, directVars, treeVars, gitVars, cacheVars, bookVars>>
GitStep ==
    tool = "git" /\ Git!GitNext /\ UNCHANGED <<tool, directVars, treeVars, batchVars, cacheVars, bookVars>>
OwnerSaves == (\E p \in Path : Save(p)) /\ UNCHANGED <<tool, toolVars>>
CacheStep ==
    tool = "cache" /\ Cache!CacheNext /\ UNCHANGED <<tool, diskVars, directVars, treeVars, batchVars, gitVars, bookVars>>
BookStep ==
    tool = "bookmark" /\ Book!BookNext /\ UNCHANGED <<tool, diskVars, directVars, treeVars, batchVars, gitVars, cacheVars>>

DiskNext == DirectStep \/ TreeStep \/ BatchStep \/ GitStep \/ OwnerSaves \/ CacheStep \/ BookStep
allVars == <<diskVars, tool, toolVars>>
DiskSpec == DiskInit /\ [][DiskNext]_allVars

(***************************************************************************)
(* Properties: what each tool promises of its call.                          *)
(***************************************************************************)

(* move_symbol and delete_symbol take the symbol whole, put it whole at the    *)
(* line of another file they were told, when it has that line, and lose no      *)
(* other line, while nobody saves.                                           *)
SymbolMovedWhole == tool = "direct" => Direct!MovedWhole

(* rename_symbol and grep_replace change a beginning of the tree completely    *)
(* and the rest not at all, wherever they end, and report what they changed.   *)
RewrittenInOrder == tool = "tree" => Tree!RewrittenInOrder

(* The summary of batch_patch is true of every file.                         *)
SummaryTrue == tool = "batch" => Batch!SummaryTrue

(* git restore discards only when told to, and shows what it can of it.       *)
RestoredAsShown == tool = "git" => Git!RestoredAsShown

(* A search reads no content older than the stamp it found the file with.     *)
NeverStale == tool = "cache" => Cache!NeverStale

(* The cache keeps its budget and its count, whoever stores at once.          *)
BytesCounted == tool = "cache" => Cache!BytesCounted

(* The verdict of a bookmark is true of the document and the repository.      *)
VerdictTrue == [][tool = "bookmark" => Book!VerdictTrue]_allVars

(* A bookmark follows its sections while the document is edited.              *)
RefsFollow == [][tool = "bookmark" => Book!RefsFollow]_allVars
=============================================================================
