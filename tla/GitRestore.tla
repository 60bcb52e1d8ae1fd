----------------------------- MODULE GitRestore -----------------------------
(***************************************************************************)
(* git with mode=restore (tools/gitcontext): the file is the working tree's,  *)
(* `head` and `index` are git's versions of it, either of them NoFile: a file  *)
(* may be in HEAD and no longer in the index, though it is there (git rm       *)
(* --cached).  A call is a record [file, confirm].                            *)
(***************************************************************************)
EXTENDS Disk

CONSTANTS
    RestoreCall,           \* the calls of an instance
    RestoreDiffMaxLines    \* lines of the difference that are shown

VARIABLES
    head,          \* the file in HEAD
    index,         \* the file in the index
    state,         \* the line of git status: clean, untracked or changed
    looked,        \* the file when the difference from HEAD was read
    shown,         \* that difference, as far as it is shown
    dropped        \* the content that was restored over
gitVars == <<head, index, state, looked, shown, dropped>>

NoDiff == [lines |-> <<>>, more |-> 0]

GitIdle ==
    /\ head = NoFile /\ index = NoFile /\ state = "clean"
    /\ looked = NoFile /\ shown = NoDiff /\ dropped = NoFile
GitInit ==
    /\ call \in RestoreCall /\ pc = "status"
    /\ head \in Versions \cup {NoFile}
    /\ index \in Versions \cup {NoFile}
    /\ state = "clean" /\ looked = NoFile /\ shown = NoDiff /\ dropped = NoFile

(* Mutant: what is staged does not count.                                     *)
UnstagedState ==
    IF index = disk[call.file] THEN "clean"
    ELSE IF head = NoFile /\ index = NoFile THEN "untracked" ELSE "changed"

(* A file that was taken out of the index is a deletion first, and untracked   *)
(* only on a second line.                                                    *)
PorcelainState ==
    IF head = index /\ index = disk[call.file] THEN "clean"
    ELSE IF head = NoFile /\ index = NoFile THEN "untracked" ELSE "changed"

Status ==
    /\ pc = "status"
    /\ state' = PorcelainState
    /\ IF state' = "changed" THEN pc' = "diff" /\ UNCHANGED reply ELSE Reply(state')
    /\ UNCHANGED <<disk, given, saved, call, head, index, looked, shown, dropped>>

(* The lines of a patch from one version to another, with the empty one after  *)
(* the last line break.  Lines that stay are not told from those that go.     *)
LinesIn(v) == IF v = NoFile THEN <<>> ELSE v
Marked(mark, v) == [i \in DOMAIN LinesIn(v) |-> <<mark, LinesIn(v)[i]>>]
Patch(old, new) == IF old = new THEN << <<>> >> ELSE Marked("-", old) \o Marked("+", new) \o << <<>> >>

CapLines(ls) ==
    [lines |-> SubSeq(ls, 1, Min({Len(ls), RestoreDiffMaxLines})),
     more  |-> Max({0, Len(ls) - RestoreDiffMaxLines})]

(* git diff HEAD: staged and unstaged changes of the working tree; a file that *)
(* is not in the index is not there for it.                                  *)
PendingDiff ==
    /\ pc = "diff"
    /\ looked' = disk[call.file]
    /\ shown' = CapLines(Patch(head, IF index = NoFile THEN NoFile ELSE disk[call.file]))
    /\ IF call.confirm THEN pc' = "restore" /\ UNCHANGED reply ELSE Reply("refused")
    /\ UNCHANGED <<disk, given, saved, call, head, index, state, dropped>>

(* git restore --source=HEAD: the working tree, and not the index; a file     *)
(* HEAD does not have is removed.                                            *)
Restore ==
    /\ pc = "restore"
    /\ Put(call.file, head)
    /\ dropped' = disk[call.file]
    /\ Reply("restored")
    /\ UNCHANGED <<given, saved, call, head, index, state, looked, shown>>

GitFails ==
    /\ pc \in {"status", "diff", "restore"}
    /\ Reply("error")
    /\ UNCHANGED <<disk, given, saved, call, gitVars>>

GitNext == Status \/ PendingDiff \/ Restore \/ GitFails

(* A file is only restored when that was confirmed, and is then HEAD's, saved  *)
(* or not; the reply shows the beginning of what was discarded and counts the  *)
(* rest, of a file the index knows that was not saved between the reading of   *)
(* the difference and the restoring.  No other answer changes the file, and    *)
(* one that finds nothing to restore is true.                                *)
RestoredAsShown ==
    LET f == call.file IN
    /\ reply = "restored" => call.confirm /\ disk[f] = head
    /\ reply = "restored" /\ index # NoFile /\ dropped = looked => shown = CapLines(Patch(head, dropped))
    /\ disk[f] # given[f] => f \in saved \/ reply = "restored"
    /\ reply = "clean" => f \in saved \/ disk[f] = head
    /\ reply = "untracked" => head = NoFile
=============================================================================
