----------------------------- MODULE Signatures -----------------------------
(***************************************************************************)
(* The heuristics that tell a declaration from other lines                    *)
(* (tools/grepfunc/scanner.go).  A line is a record of what they look at:     *)
(*   start    its first words, as one of the classes below                    *)
(*   ends     its last character: "{", ":", "[" or "other"                    *)
(*   paren    "none", "open" when its first parenthesis opens, or "close"     *)
(*   closed   a closing parenthesis follows the first opening one             *)
(*   has      what else occurs in it                                          *)
(***************************************************************************)

LangKeywords == {"func", "fn", "pub fn", "fun", "def", "async def", "function"}
Binders == {"const", "let", "var"}
ControlFlow == {"if", "for", "while", "switch", "catch", "else", "with", "try", "case"}
TypeKeywords == {"struct", "enum", "trait", "impl", "pub struct", "pub trait", "class", "interface",
                 "record", "object", "protocol", "extension", "actor"}

(* Comments and directives; the rest of a declaration or an expression.      *)
CommentStart == {"#", "/", "*"}
Continuation == {")", ",", "]", "{", "}"}

Marks == {"brace", "colon", "bracket", "arrow", "opens value", " function(", "assignment", "func value",
          "dotted callee", "closure"}

IsLangFuncKeyword(l) == l.start \in LangKeywords

IsAnonFuncAssign(l) == l.start \in Binders /\ ("arrow" \in l.has \/ {"opens value", "brace"} \subseteq l.has)

IsAssignmentStart(l) == "assignment" \in l.has /\ l.has \cap {"func value", "arrow"} = {}

(* A call is no declaration: its callee has a dot, or its arguments open a    *)
(* brace; a closure between them makes it one.                               *)
LooksLikeFuncStart(l) ==
    \/ l.start = "constructor"
    \/ /\ l.start \notin ControlFlow /\ ~IsAssignmentStart(l)
       /\ "closure" \in l.has \/ ("dotted callee" \notin l.has /\ (l.ends = "{" => l.closed))
       /\ l.ends \in {"{", ":"}

IsFuncSig(l) ==
    /\ l.start \notin {"blank"} \cup CommentStart \cup Continuation
    /\ \/ l.paren = "none" /\ IsLangFuncKeyword(l) /\ "bracket" \in l.has
       \/ /\ l.paren = "open"
          /\ \/ IsLangFuncKeyword(l) \/ " function(" \in l.has
             \/ IsAnonFuncAssign(l) \/ LooksLikeFuncStart(l)

IsStructSig(l) ==
    /\ l.start \notin {"blank"} \cup CommentStart
    /\ \/ l.has \cap {"brace", "colon"} = {} /\ l.ends = "[" /\ l.start \in {"struct", "trait", "pub struct", "pub trait"}
       \/ l.has \cap {"brace", "colon"} # {} /\ l.start \in TypeKeywords \cup {"type struct", "type interface", "type alias"}

(* The keyword that makes the lines up to its body parts of one signature.   *)
SignatureKeyword(l) ==
    l.start \in (LangKeywords \cup {"pub struct", "pub trait"}) \/ " function(" \in l.has

(* SearchBoth files a line that is both as a type.                           *)
FiledAs(l) == IF IsFuncSig(l) /\ ~IsStructSig(l) THEN "func" ELSE "type"
=============================================================================
