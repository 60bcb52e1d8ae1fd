----------------------------- MODULE BatchPatch -----------------------------
(***************************************************************************)
(* batch_patch (tools/patchedit/batch.go): the same edits on every file of a  *)
(* glob, a goroutine per file.  A call is a record                            *)
(*   [edits: the lines the edits are for, failFast, dry,                       *)
(*    skip: the files that do not match, are no regular files, or are banned]. *)
(* What the edits find in a file is abstract here (PatchFile has it): an edit  *)
(* applies when its line occurs and no edit before it is for the same line.   *)
(***************************************************************************)
EXTENDS Disk

CONSTANTS
    BatchCall,   \* the calls of an instance
    NumCPU       \* goroutines at a time

VARIABLES
    waiting,     \* the files no goroutine has been started for
    task,        \* per file: where its goroutine is
    text,        \* per file: its new lines
    rows         \* per file: its row of the summary, NoRow without one
batchVars == <<waiting, task, text, rows>>

NoRow == [applied |-> 0, failures |-> {}, skipped |-> FALSE]

Applies(lines) == {k \in DOMAIN call.edits :
    call.edits[k] \in ToSet(lines) /\ \A j \in 1..(k - 1) : call.edits[j] # call.edits[k]}
Patched(lines) == [i \in DOMAIN lines |-> IF lines[i] \in ToSet(call.edits) THEN New[lines[i]] ELSE lines[i]]

Unstarted ==
    /\ task = [p \in Path |-> "gone"]
    /\ text = [p \in Path |-> <<>>]
    /\ rows = [p \in Path |-> NoRow]
BatchIdle == waiting = <<>> /\ Unstarted
BatchInit ==
    /\ call \in BatchCall /\ pc = "start"
    /\ waiting = Those(Order, {p \in Path : disk[p] # NoFile /\ p \notin call.skip})
    /\ Unstarted

Running == {p \in Path : task[p] # "gone"}
Goto(p, next) == task' = [task EXCEPT ![p] = next]
Mine == UNCHANGED <<given, saved, call, pc, reply, waiting>>

(* The loop starts a goroutine when the semaphore has room.                   *)
Start ==
    /\ waiting # <<>> /\ Cardinality(Running) < NumCPU
    /\ waiting' = Tail(waiting)
    /\ Goto(Head(waiting), "read")
    /\ UNCHANGED <<diskVars, text, rows>>

(* processBatchFile.  A file without an edit that applies has no row, unless  *)
(* fail_fast skips it; a dry run ends with its row.                           *)
Process(p) ==
    /\ task[p] = "read"
    /\ LET ks == Applies(disk[p])
           failed == {k \in DOMAIN call.edits : k \notin ks}
           row == IF failed # {} /\ call.failFast THEN [applied |-> 0, failures |-> failed, skipped |-> TRUE]
                  ELSE IF ks = {} THEN NoRow
                  ELSE [applied |-> Cardinality(ks), failures |-> failed, skipped |-> FALSE]
       IN /\ rows' = [rows EXCEPT ![p] = row]
          /\ text' = [text EXCEPT ![p] = Patched(disk[p])]
          /\ Goto(p, IF row.applied = 0 \/ call.dry THEN "gone" ELSE "open_tmp")
    /\ UNCHANGED disk /\ Mine

ReadFails(p) ==
    /\ task[p] = "read"
    /\ Goto(p, "gone")
    /\ UNCHANGED <<disk, text, rows>> /\ Mine

(* atomicWrite.                                                              *)
OpenTmp(p) == task[p] = "open_tmp" /\ Put(Tmp[p], Torn) /\ Goto(p, "fill_tmp") /\ UNCHANGED <<text, rows>> /\ Mine
FillTmp(p) == task[p] = "fill_tmp" /\ Put(Tmp[p], text[p]) /\ Goto(p, "rename") /\ UNCHANGED <<text, rows>> /\ Mine

RenameTmp(p) ==
    /\ task[p] = "rename" /\ disk[Tmp[p]] # NoFile
    /\ disk' = [disk EXCEPT ![p] = disk[Tmp[p]], ![Tmp[p]] = NoFile]
    /\ Goto(p, "gone")
    /\ UNCHANGED <<text, rows>> /\ Mine

RenameFails(p) == task[p] = "rename" /\ Goto(p, "open") /\ UNCHANGED <<disk, text, rows>> /\ Mine
OpenDirect(p) == task[p] = "open" /\ Put(p, Torn) /\ Goto(p, "fill") /\ UNCHANGED <<text, rows>> /\ Mine
FillDirect(p) == task[p] = "fill" /\ Put(p, text[p]) /\ Goto(p, "gone") /\ UNCHANGED <<text, rows>> /\ Mine

(* Mutant: the error of the write is dropped.                                *)
NotedNot(row) == row

(* A failed write is a failure of the row; its edits stay counted.           *)
Noted(row) == [row EXCEPT !.failures = @ \cup {0}]

WriteFails(p) ==
    /\ task[p] \in {"open_tmp", "fill_tmp", "open", "fill"}
    /\ rows' = [rows EXCEPT ![p] = Noted(@)]
    /\ Goto(p, "gone")
    /\ UNCHANGED <<disk, text>> /\ Mine

(* waitGroup.Wait, then the summary.                                         *)
Summary ==
    /\ pc = "start" /\ waiting = <<>> /\ Running = {}
    /\ Reply("done")
    /\ UNCHANGED <<disk, given, saved, call, batchVars>>

BatchFile(p) ==
    \/ Process(p) \/ ReadFails(p) \/ OpenTmp(p) \/ FillTmp(p) \/ RenameTmp(p)
    \/ RenameFails(p) \/ OpenDirect(p) \/ FillDirect(p) \/ WriteFails(p)
BatchNext == Start \/ Summary \/ \E p \in Path : BatchFile(p)

(* The summary is true file by file, whatever order the goroutines ran in and *)
(* wherever one failed: a row without a failed write says what was done, a    *)
(* skipped file and one without a row are as they were, and no row stands for *)
(* a file that could not be read.  Never do more run than the pool has.  A     *)
(* file whose temporary name another file of the glob has may end as that     *)
(* one: two goroutines then write one name.                                  *)
SummaryTrue ==
    /\ Cardinality(Running) <= NumCPU
    /\ reply = "done" =>
          \A p \in {q \in Own : given[Tmp[q]] = NoFile} :
              \/ 0 \in rows[p].failures
              \/ rows[p].applied = 0 /\ disk[p] = given[p]
              \/ /\ disk[p] = IF call.dry THEN given[p] ELSE Patched(given[p])
                 /\ rows[p].applied = Cardinality(DOMAIN call.edits \ rows[p].failures)
                 /\ call.failFast => rows[p].failures = {}
=============================================================================
