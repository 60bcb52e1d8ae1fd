---------------------------- MODULE TreeRewrite ----------------------------
(***************************************************************************)
(* rename_symbol and grep_replace (tools/renamesymbol, tools/grepreplace):    *)
(* a walk that rewrites the files with a match, one by one, each by a         *)
(* temporary file that takes its name.  A call is a record                    *)
(*   [op: "rename" | "replace", what: the lines that match, dry,              *)
(*    skip: the files the glob, the extension, the size or a ban leaves out,  *)
(*    max: the most files to change].                                         *)
(***************************************************************************)
EXTENDS Disk

CONSTANT TreeCall    \* the calls of an instance

VARIABLES
    todo,        \* the files the walk has still to visit
    at,          \* the file that is rewritten, None between files
    newLines,    \* its new lines
    changes      \* the files to report
treeVars == <<todo, at, newLines, changes>>

Rewritten(lines, what) == [i \in DOMAIN lines |-> IF lines[i] \in what THEN New[lines[i]] ELSE lines[i]]
Matches(lines, what) == ToSet(lines) \cap what # {}

TreeIdle == todo = <<>> /\ at = None /\ newLines = <<>> /\ changes = <<>>
TreeInit ==
    /\ call \in TreeCall /\ pc = "walk"
    /\ todo = Those(Order, {p \in Path : disk[p] # NoFile})
    /\ at = None /\ newLines = <<>> /\ changes = <<>>

Goes(rest, changed) ==
    /\ todo' = rest /\ changes' = changed
    /\ UNCHANGED <<disk, given, saved, call>>

(* grep_replace ends the walk after `max` files.                             *)
Enough == call.op = "replace" /\ Len(changes) >= call.max

(* The next file is not looked at, or has no match.                          *)
PassBy ==
    /\ pc = "walk" /\ todo # <<>> /\ ~Enough
    /\ Head(todo) \in call.skip \/ ~Matches(disk[Head(todo)], call.what)
    /\ Goes(Tail(todo), changes)
    /\ UNCHANGED <<pc, reply, at, newLines>>

(* It has: a dry run lists it; rename_symbol lists it before it is written,   *)
(* grep_replace after that.                                                  *)
TakeFile ==
    /\ pc = "walk" /\ todo # <<>> /\ ~Enough
    /\ LET p == Head(todo) IN
          /\ p \notin call.skip /\ Matches(disk[p], call.what)
          /\ Goes(Tail(todo), IF call.dry \/ call.op = "rename" THEN Append(changes, p) ELSE changes)
          /\ IF call.dry THEN UNCHANGED <<pc, at, newLines>>
             ELSE at' = p /\ newLines' = Rewritten(disk[p], call.what) /\ pc' = "open_tmp"
    /\ UNCHANGED reply

(* A directory cannot be listed, a file not be read: the walk is over.        *)
WalkFails ==
    /\ pc = "walk" /\ todo # <<>> /\ ~Enough
    /\ Reply("error")
    /\ UNCHANGED <<disk, given, saved, call, treeVars>>

WalkEnds ==
    /\ pc = "walk" /\ (todo = <<>> \/ Enough)
    /\ Reply("done")
    /\ UNCHANGED <<disk, given, saved, call, treeVars>>

(***************************************************************************)
(* One file (writeFile, atomicWrite, writeDirect).                           *)
(***************************************************************************)
Moves(next) == pc' = next /\ UNCHANGED <<given, saved, call, reply, treeVars>>

OpenTmp == pc = "open_tmp" /\ Put(Tmp[at], Torn) /\ Moves("fill_tmp")
FillTmp == pc = "fill_tmp" /\ Put(Tmp[at], newLines) /\ Moves("rename")

(* Mutant: both go on with the next file.                                    *)
WithoutTmpGoesOn == pc' = "walk" /\ UNCHANGED reply

(* Without a temporary file rename_symbol gives up, grep_replace writes the   *)
(* file in place.                                                            *)
WithoutTmp == IF call.op = "rename" THEN Reply("error") ELSE pc' = "open" /\ UNCHANGED reply

TmpFails ==
    /\ pc \in {"open_tmp", "fill_tmp"}
    /\ WithoutTmp
    /\ UNCHANGED <<disk, given, saved, call, treeVars>>

FileDone(changed) == at' = None /\ newLines' = <<>> /\ changes' = changed /\ UNCHANGED <<given, saved, call, todo>>

RenameTmp ==
    /\ pc = "rename"
    /\ disk' = [disk EXCEPT ![at] = disk[Tmp[at]], ![Tmp[at]] = NoFile]
    /\ FileDone(IF call.op = "replace" THEN Append(changes, at) ELSE changes)
    /\ pc' = "walk" /\ UNCHANGED reply

RenameFails ==
    /\ pc = "rename"
    /\ IF call.op = "replace" THEN Put(Tmp[at], NoFile) ELSE UNCHANGED disk
    /\ Moves("open")

OpenDirect == pc = "open" /\ Put(at, Torn) /\ Moves("fill")

(* In place; rename_symbol reports an error even so.                         *)
FillDirect ==
    /\ pc = "fill"
    /\ Put(at, newLines)
    /\ IF call.op = "rename" THEN Reply("error") /\ UNCHANGED <<given, saved, call, treeVars>>
       ELSE FileDone(Append(changes, at)) /\ pc' = "walk" /\ UNCHANGED reply

DirectFails ==
    /\ pc \in {"open", "fill"}
    /\ Reply("error")
    /\ UNCHANGED <<disk, given, saved, call, treeVars>>

TreeNext ==
    \/ PassBy \/ TakeFile \/ WalkFails \/ WalkEnds
    \/ OpenTmp \/ FillTmp \/ TmpFails \/ RenameTmp \/ RenameFails
    \/ OpenDirect \/ FillDirect \/ DirectFails

(***************************************************************************)
(* What a walk has done.                                                     *)
(***************************************************************************)

Hit(p) == given[p] # NoFile /\ p \notin call.skip /\ Matches(given[p], call.what)

(* Wherever a walk ends, killed, failed or done, the files it changed are all *)
(* those with a match up to some place of the tree and none after it, each    *)
(* changed completely; only the file at that place may be anything.  An       *)
(* answer lists exactly the files that were changed.                         *)
RewrittenInOrder ==
    LET Place(k) ==
            \A i \in 1..Len(Order) :
                (Order[i] \in Own /\ i # k) =>
                    disk[Order[i]] = IF i < k /\ Hit(Order[i]) THEN Rewritten(given[Order[i]], call.what) ELSE given[Order[i]]
    IN /\ (IF call.dry THEN Place(0) ELSE \E k \in 0..Len(Order) + 1 : Place(k))
       /\ reply = "done" =>
             \A p \in Own :
                IF p \in ToSet(changes)
                THEN Hit(p) /\ disk[p] = IF call.dry THEN given[p] ELSE Rewritten(given[p], call.what)
                ELSE disk[p] = given[p] /\ (Hit(p) => Enough)
=============================================================================
