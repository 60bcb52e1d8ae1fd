-------------------------------- MODULE Disk --------------------------------
(***************************************************************************)
(* The files a tool call works on.  A file is the sequence of its lines, as   *)
(* strings.Split(content, "\n") gives them: a file that ends with a line       *)
(* break ends with an empty line here.  Steps that are one system call are    *)
(* one step; a kill is a behaviour that goes no further, so that what holds   *)
(* in every state holds after a kill.                                       *)
(***************************************************************************)
EXTENDS Sublists, SequencesExt, TLC

CONSTANTS
    Path,        \* the files there may be
    Tmp,         \* per path: the name of its temporary file
    Order,       \* the files as a walk meets them
    New,         \* per line that a tool may replace: what it becomes
    Versions,    \* what their owner may save
    MaxSaves     \* bound: saves of the owner during a call

VARIABLES
    disk,        \* per name: its lines
    given,       \* the disk when the call began
    saved,       \* the files their owner has saved since
    call,        \* the call
    pc,          \* where the handler is
    reply        \* what it has answered, None while it runs
diskVars == <<disk, given, saved, call, pc, reply>>

(* No file; a file that was opened for writing and not filled.               *)
NoFile == <<"no_file">>
Torn == <<"torn">>
None == "none"

Names == Path \cup Range(Tmp)
Temporary(p) == \E q \in Path : Tmp[q] = p

Reply(r) == reply' = r /\ pc' = "end"
Put(p, lines) == disk' = [disk EXCEPT ![p] = lines]

(* The owner saves a file, in an editor that replaces it.                    *)
Save(p) ==
    /\ pc # "end" /\ Cardinality(saved) < MaxSaves
    /\ \E v \in Versions : Put(p, v)
    /\ saved' = saved \cup {p}
    /\ UNCHANGED <<given, call, pc, reply>>

(* Files nobody else writes: not saved by their owner, neither they nor what   *)
(* has the name of their temporary file, and not named like such a file.      *)
Own == {p \in Path : {p, Tmp[p]} \cap saved = {} /\ ~Temporary(p)}
Untouched(p) == p \in saved \/ disk[p] = given[p]
=============================================================================
