------------------------------- MODULE MCDisk -------------------------------
(***************************************************************************)
(* Instances of DiskTools for TLC.                                          *)
(***************************************************************************)
EXTENDS DiskTools

Tmps == [p \in Path |-> p \o ".tmp"]
WalkOrder == <<"a", "a.tmp", "b">>
Changed == [x |-> "X", y |-> "Y"]

On(a, b, c) == [n \in Names |-> CASE n = "a" -> a [] n = "b" -> b [] n = "a.tmp" -> c [] OTHER -> NoFile]
Sources == {<<"x", "">>, <<"sig", "end", "">>, <<"x", "", "sig", "end", "y", "">>, <<"sig", "", "end", "sig", "end">>}
Targets == {NoFile, <<>>, <<"x", "">>, <<"x", "", "sig", "end", "y", "">>}
FileTexts == {<<"x">>, <<"y", "x">>, <<"z">>}

AnyDisks ==
    [direct |-> {On(a, b, NoFile) : a \in Sources, b \in Targets},
     tree |-> {On(a, b, c) : a, b \in FileTexts, c \in {<<"x">>, NoFile}},
     batch |-> {On(a, b, c) : a, b \in FileTexts, c \in {<<"x">>, NoFile}},
     git |-> {On(a, NoFile, NoFile) : a \in FileTexts \cup {NoFile}}]
SavedVersions == {<<"x">>, <<"sig", "end", "z">>}

DirectCalls ==
    [op : {"move", "delete"}, src : {"a"}, dst : {"a", "b"}, line : 0..4, dry : BOOLEAN, text : {<<>>}]
    \cup [op : {"write"}, src : {"a"}, dst : {"b"}, line : {0}, dry : {FALSE}, text : {<<"x">>}]
TreeCalls == [op : {"rename", "replace"}, what : {{"x"}, {"x", "y"}}, dry : BOOLEAN, skip : {{}, {"a"}}, max : {1, 3}]
BatchCalls == [edits : {<<"x">>, <<"x", "y">>, <<"x", "x">>}, failFast : BOOLEAN, dry : BOOLEAN, skip : {{}, {"b"}}]
RestoreCalls == [file : {"a"}, confirm : BOOLEAN]

(* Headings with one line each; a section within one, and a heading twice.    *)
Heading(n, t, id) == [level |-> n, text |-> t, id |-> id]
Line(t) == [level |-> 0, text |-> t, id |-> 0]
BookDocs ==
    {<<Heading(1, "A", 1), Line("f"), Heading(1, "B", 2), Line("b"), Line("g")>>,
     <<Heading(1, "A", 1), Heading(2, "B", 2), Line("a"), Heading(1, "A", 3), Line("g")>>}
BookTexts == {"A", "B", "c"}
LowerCase == [t \in {"A", "B", "a", "b", "c", "f", "g", "l", "L"} |->
    CASE t = "A" -> "a" [] t = "B" -> "b" [] t = "L" -> "l" [] OTHER -> t]
BookSpecs ==
    {<<[label |-> "", heading |-> "A"], [label |-> "l", heading |-> "b"]>>,
     <<[label |-> "l", heading |-> "B"], [label |-> "L", heading |-> "A"], [label |-> "", heading |-> "a"]>>}
Repository == <<"f", "g">>
AbsentFiles == {{"g"}}
Failures == {{}, {"branch", "status", "files"}}
=============================================================================
