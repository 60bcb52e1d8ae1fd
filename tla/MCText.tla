------------------------------- MODULE MCText -------------------------------
(***************************************************************************)
(* Instances of TextTools for TLC.                                          *)
(***************************************************************************)
EXTENDS TextTools, Signatures

(* Lines of a brace language: their first word, the characters the scan looks *)
(* at, and the lines' other marks.  "f" stands for the words of a line.      *)
BraceLine(start, chars, paren, has) ==
    LET final == IF chars[Len(chars)] = "{" THEN "{" ELSE "other"
        l == [start |-> start, ends |-> final, paren |-> paren, closed |-> paren = "open" /\ chars # <<"f">>,
              has |-> has \cup (IF "{" \in ToSet(chars) THEN {"brace"} ELSE {})]
    IN [text |-> chars, sig |-> IsFuncSig(l) \/ IsStructSig(l), keyword |-> SignatureKeyword(l),
        whole |-> chars[Len(chars)] = "}"]

BraceLines ==
    {BraceLine("func", <<"f", "{">>, "open", {}),               \* func f() {
     BraceLine("func", <<"f">>, "open", {}),                    \* func f(
     BraceLine("word", <<"f", "{">>, "open", {}),               \* f() {
     BraceLine("func", <<"f", "{", "}">>, "open", {}),          \* func f() { }
     BraceLine("class", <<"{">>, "none", {}),                   \* class C {
     BraceLine("if", <<"f", "{">>, "open", {}),                 \* if f() {
     BraceLine("}", <<"}">>, "none", {}),
     BraceLine("}", <<"}", "}">>, "none", {}),
     BraceLine("word", <<"dquote", "}", "dquote">>, "none", {}),
     BraceLine("word", <<"backquote", "}">>, "none", {}),       \* a raw string opens or ends
     BraceLine("/", <<"/", "*", "{">>, "none", {}),             \* a comment opens
     BraceLine("*", <<"*", "/">>, "none", {})}                  \* and ends

IndentLine(k, n, s, h, d) == [kind |-> k, indent |-> n, sig |-> s, hit |-> h, doc |-> d]
IndentLines ==
    {IndentLine("code", n, TRUE, h, "") : n \in 0..2, h \in BOOLEAN}
    \cup {IndentLine("code", n, FALSE, FALSE, d) : n \in {0, 2}, d \in {"", "dquotes"}}
    \cup {IndentLine("blank", 0, FALSE, FALSE, ""), IndentLine("comment", 0, FALSE, TRUE, "")}

One(s) == {<<c>> : c \in s}
GlobPieces ==
    One({"a", "*", "?", "/"})
    \cup {<<"*", "*">>, <<"{", "a", ",", "b", "}">>, <<"{", "*", ",", "{", "b", ",", "/", "}", "}">>}
RarePieces == One({".", "["}) \cup {<<"{", "a", "}">>}

UpTo(n, pieces) == {FlattenSeq(f) : f \in UNION {[1..k -> pieces] : k \in 0..n}}
FuzzyChars == One({"a", " ", "nl", "ff"}) \cup {<<"L", "x">>, <<"L", "y">>}
(* One or two characters, and what may be between two; two lines, the first   *)
(* longer than the file's.                                                   *)
FuzzyTexts ==
    UpTo(2, FuzzyChars \ {<<"L", "y">>})
    \cup {p \o <<c>> \o q : p, q \in {<<"a">>, <<"L", "x">>}, c \in {"a", " ", "nl"}}
    \cup {<<"a", "L", "x", "nl", "a">>}

(* A piece is a file: a function, two, two with a hit between that repeats the *)
(* first, a type before a function, a method whose name is excluded.          *)
FoundMatch(kind, first, hits) ==
    [kind |-> kind, receiver |-> FALSE, excluded |-> "", opens |-> first, before |-> hits]
Method == [FoundMatch("func", TRUE, 0) EXCEPT !.receiver = TRUE, !.excluded = "name"]
PageFiles ==
    {<<FoundMatch("func", TRUE, 0)>>, <<Method>>}
    \cup {<<FoundMatch("func", TRUE, 0), FoundMatch("func", FALSE, n)>> : n \in 1..2}
    \cup {<<FoundMatch("type", TRUE, 0), FoundMatch("func", FALSE, 1)>>}
PageCalls ==
    [max : {0, 1, 2, 9}, offset : 0..3, names : {FALSE}, types : BOOLEAN, receiver : BOOLEAN, exclude : BOOLEAN]

TextPieces ==
    [line   |-> One({"{", "}", "/", "*", "dquote", "squote", "backquote", "backslash", "f"}),
     glob   |-> One({"a", "b", "/"}),
     match  |-> FuzzyChars,
     indent |-> One(IndentLines),
     show   |-> One({"a", "nl"}),
     page   |-> PageFiles]
Queries == [glob |-> (UpTo(3, GlobPieces) \cup UpTo(2, GlobPieces \cup RarePieces)) \ {<<>>}, 
            match |-> FuzzyTexts,
            page |-> PageCalls]
TextLengths == [line |-> 5, glob |-> 3, match |-> 4, indent |-> 4, show |-> 6, page |-> 5]
=============================================================================
