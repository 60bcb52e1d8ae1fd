---------------------------- MODULE DirectWrites ----------------------------
(***************************************************************************)
(* The tools that write files in place: move_symbol, delete_symbol and       *)
(* write_file (tools/movesymbol, tools/deletesymbol, tools/writefile).  The  *)
(* symbol is the lines from "sig" to "end"; a call is a record               *)
(*   [op: "move" | "delete" | "write", src, dst, line, dry, text].           *)
(***************************************************************************)
EXTENDS Disk

CONSTANT DirectCall    \* the calls of an instance

VARIABLES
    found,            \* the symbol: first and last line, and its text
    newSrc, newDst    \* the lines to write
directVars == <<found, newSrc, newDst>>

NotFound == [first |-> 0, last |-> 0, body |-> <<>>]

(***************************************************************************)
(* Lines.                                                                    *)
(***************************************************************************)

Empty == ""

(* Every line is written with a line break after it: the text ends with an    *)
(* empty line more.                                                          *)
Written(lines) == IF lines = <<>> THEN <<>> ELSE Append(lines, Empty)

(* Mutant: the last line of the symbol is kept.                              *)
RemoveAllButLast(lines, first, last) ==
    Written(SubSeq(lines, 1, first - 1) \o SubSeq(lines, last, Len(lines)))

RemoveLines(lines, first, last) ==
    Written(SubSeq(lines, 1, first - 1) \o SubSeq(lines, last + 1, Len(lines)))

(* More than one line after the last there is no place for the text.         *)
InsertLines(lines, body, line) ==
    LET before == SubSeq(lines, 1, Min({line - 1, Len(lines)}))
    IN Written(before \o (IF line <= Len(lines) + 1 THEN body ELSE <<>>) \o SubSeq(lines, line, Len(lines)))

LineHasCode(lines, requested) == requested \in 1..Len(lines) /\ lines[requested] # Empty
ResolveInsertLine(lines, requested) == IF requested <= 0 THEN Len(lines) + 1 ELSE requested

(* The first block of that name.                                             *)
Symbols(lines) == {i \in 1..Len(lines) : lines[i] = "sig"}
FindSymbol(lines) ==
    LET first == Min(Symbols(lines))
        last == Min({j \in first..Len(lines) : lines[j] = "end"})
    IN [first |-> first, last |-> last, body |-> SubSeq(lines, first, last)]

LinesAt(p) == IF disk[p] = NoFile THEN <<>> ELSE disk[p]

(***************************************************************************)
(* The handlers.                                                             *)
(***************************************************************************)
DirectIdle == found = NotFound /\ newSrc = <<>> /\ newDst = <<>>
DirectInit == call \in DirectCall /\ pc = "start" /\ DirectIdle

(* write_file has its text; the others search the symbol.                    *)
TakeText ==
    /\ pc = "start" /\ call.op = "write"
    /\ newDst' = call.text
    /\ pc' = "open_dst"
    /\ UNCHANGED <<disk, given, saved, call, reply, found, newSrc>>

Find ==
    /\ pc = "start" /\ call.op # "write"
    /\ Symbols(LinesAt(call.src)) # {}
    /\ found' = FindSymbol(LinesAt(call.src))
    /\ pc' = "read_src"
    /\ UNCHANGED <<disk, given, saved, call, reply, newSrc, newDst>>

(* A dry run ends where the others start to write.                           *)
Proceed == IF call.dry THEN Reply("dry") ELSE pc' = "open_src" /\ UNCHANGED reply

(* The lines found are removed from what the file is by now.                 *)
ReadSrc ==
    /\ pc = "read_src"
    /\ found.last <= Len(disk[call.src])
    /\ newSrc' = RemoveLines(disk[call.src], found.first, found.last)
    /\ IF call.op = "move" THEN pc' = "read_dst" /\ UNCHANGED reply ELSE Proceed
    /\ UNCHANGED <<disk, given, saved, call, found, newDst>>

(* A line that has code is no place for the symbol.                          *)
ReadDst ==
    /\ pc = "read_dst"
    /\ LET lines == LinesAt(call.dst) IN
          /\ ~LineHasCode(lines, call.line)
          /\ newDst' = InsertLines(lines, found.body, ResolveInsertLine(lines, call.line))
    /\ Proceed
    /\ UNCHANGED <<disk, given, saved, call, found, newSrc>>

(* Any step may find a file missing, unreadable or other than it should be.  *)
Refuse ==
    /\ pc \in {"start", "read_src", "read_dst"}
    /\ Reply("refused")
    /\ UNCHANGED <<disk, given, saved, call, directVars>>

(* os.WriteFile empties the file, then fills it; src comes first.            *)
OpenSrc ==
    /\ pc = "open_src"
    /\ Put(call.src, Torn) /\ pc' = "fill_src"
    /\ UNCHANGED <<given, saved, call, reply, directVars>>

FillSrc ==
    /\ pc = "fill_src"
    /\ Put(call.src, newSrc)
    /\ IF call.op = "move" THEN pc' = "open_dst" /\ UNCHANGED reply ELSE Reply("done")
    /\ UNCHANGED <<given, saved, call, directVars>>

OpenDst ==
    /\ pc = "open_dst"
    /\ Put(call.dst, Torn) /\ pc' = "fill_dst"
    /\ UNCHANGED <<given, saved, call, reply, directVars>>

FillDst ==
    /\ pc = "fill_dst"
    /\ Put(call.dst, newDst)
    /\ Reply("done")
    /\ UNCHANGED <<given, saved, call, directVars>>

WriteFails ==
    /\ pc \in {"open_src", "fill_src", "open_dst", "fill_dst"}
    /\ Reply("failed")
    /\ UNCHANGED <<disk, given, saved, call, directVars>>

DirectNext ==
    \/ TakeText \/ Find \/ ReadSrc \/ ReadDst \/ Refuse
    \/ OpenSrc \/ FillSrc \/ OpenDst \/ FillDst \/ WriteFails

(***************************************************************************)
(* What the calls do.                                                        *)
(***************************************************************************)
Ink(lines) == Those(lines, STRING \ {Empty})
Inserted(before, after, body) ==
    \E i \in 0..Len(before) : after = SubSeq(before, 1, i) \o body \o SubSeq(before, i + 1, Len(before))

(* Moves from one file to another, to a line there is.                       *)
Before(p) == IF given[p] = NoFile THEN <<>> ELSE given[p]
Proper == call.op = "move" /\ call.src # call.dst /\ call.line <= Len(Before(call.dst)) + 1

(* A call that says it is done, while nobody saved, took the symbol out of one  *)
(* file and put it whole into another one, at a line there is, and no other     *)
(* line is lost or out of order; one that was refused, or a dry run, leaves    *)
(* every file as it was.                                                     *)
MovedWhole ==
    /\ (reply = "done" /\ saved = {}) =>
          /\ call.op # "write" =>
                /\ Head(found.body) = "sig" /\ Last(found.body) = "end"
                /\ (call.op = "delete" \/ Proper) => Inserted(Ink(disk[call.src]), Ink(given[call.src]), Ink(found.body))
          /\ Proper => Inserted(Ink(Before(call.dst)), Ink(disk[call.dst]), Ink(found.body))
    /\ (call.dry \/ reply = "refused") => \A p \in Names : Untouched(p)
=============================================================================
