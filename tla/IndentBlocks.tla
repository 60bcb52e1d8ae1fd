---------------------------- MODULE IndentBlocks ----------------------------
(***************************************************************************)
(* extractBlocksIndent of tools/grepfunc/scanner.go: the blocks of a Python   *)
(* or Mojo file.  A line is [kind, indent, sig, hit, doc]: blank, comment or  *)
(* code, its indentation, whether it looks like a signature and matches the   *)
(* pattern, and the triple quote it holds an odd number of ("" for none).     *)
(***************************************************************************)
EXTENDS Sublists, SequencesExt

(* A line that looks like a signature is code: the heuristics reject comments *)
(* and blank lines.                                                          *)
IsIndentedLine(l) == l.indent \in Int /\ (l.sig => l.kind = "code")

(* The delimiter of the string a line begins in: a string opened on one line  *)
(* ends on the next with an odd number of the same delimiter; a delimiter     *)
(* behind a comment mark opens none.                                         *)
DocOpen(l) == IF l.kind = "comment" THEN "" ELSE l.doc

DocBefore(lines) ==
    LET doc[i \in 1..(Len(lines) + 1)] ==
            IF i = 1 THEN ""
            ELSE IF doc[i - 1] = "" THEN DocOpen(lines[i - 1])
            ELSE IF lines[i - 1].doc = doc[i - 1] THEN "" ELSE doc[i - 1]
    IN doc

(* Mutant: a line at the indentation of the signature does not end it.       *)
FindIndentBlockEndLeft(lines, start) ==
    LET stops == {j \in (start + 1)..Len(lines) :
                    lines[j].kind = "code" /\ lines[j].indent < lines[start].indent}
    IN Min(stops \cup {Len(lines) + 1}) - 1

(* The last line before a code line indented no deeper than the signature.   *)
FindIndentBlockEnd(lines, start) ==
    LET stops == {j \in (start + 1)..Len(lines) :
                    lines[j].kind = "code" /\ lines[j].indent <= lines[start].indent}
    IN Min(stops \cup {Len(lines) + 1}) - 1

BlockMatchesPattern(lines, start, end) == \E j \in start..end : lines[j].hit

(* A line that opens or continues a string is no signature.                  *)
ExtractBlocksIndent(lines, limit) ==
    LET found == {i \in 1..Len(lines) :
                    /\ DocBefore(lines)[i] = "" /\ DocOpen(lines[i]) = "" /\ lines[i].sig
                    /\ BlockMatchesPattern(lines, i, FindIndentBlockEnd(lines, i))}
        order == InTurn(Len(lines), found)
    IN [k \in 1..Min({limit, Len(order)}) |->
            [line |-> order[k], endLine |-> FindIndentBlockEnd(lines, order[k])]]

(* The blocks reported for a file form a tree, whatever the limit: of two of  *)
(* them one lies inside the other or they share no line; an inner one is      *)
(* indented deeper than the one around it; and a block that follows another   *)
(* at its own depth is not swallowed by it.                                   *)
BlocksNest(lines, limit) ==
    LET found == ToSet(ExtractBlocksIndent(lines, limit))
    IN \A a, b \in found : a.line < b.line =>
          IF b.line <= a.endLine
          THEN b.endLine <= a.endLine /\ lines[b.line].indent > lines[a.line].indent
          ELSE a.endLine < b.line
=============================================================================
