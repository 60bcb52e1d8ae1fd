----------------------------- MODULE TextTools -----------------------------
(***************************************************************************)
(* The algorithms on text, each run on inputs that grow piece by piece: a     *)
(* call picks a tool and a query, then the text it works on is typed.         *)
(* Block scanning and multi_read's entries have steps of their own; the       *)
(* others are operators, evaluated on every input reached.                   *)
(***************************************************************************)
EXTENDS BlockScan, Glob, Matchers, IndentBlocks, Excerpts, MultiRead, GrepPage

CONSTANTS
    Pieces,      \* per tool: the pieces its text is made of
    Asked,       \* per tool: its queries
    Longest,     \* per tool: the length of its text
    BlockLimit   \* how many blocks a search may ask for

(* A piece is a sequence of characters or, where a text is a file, of lines;   *)
(* so is a query about text.  The texts of patch_file are bytes in UTF-8.     *)
ASSUME TextAssumption ==
    /\ \A t \in DOMAIN Pieces : \A p \in Pieces[t] : p \in Seq({p[k] : k \in DOMAIN p})
    /\ "indent" \in DOMAIN Pieces =>
          \A p \in Pieces["indent"] : \A k \in DOMAIN p : IsIndentedLine(p[k])
    /\ \A t \in {"glob", "match"} \cap DOMAIN Asked : \A q \in Asked[t] : q \in Seq({q[k] : k \in DOMAIN q})
    /\ \A t \in {"match"} \cap DOMAIN Pieces : \A p \in Pieces[t] : WellFormed(p)
    /\ \A t \in {"match"} \cap DOMAIN Asked : \A q \in Asked[t] : WellFormed(q)
    /\ "page" \in DOMAIN Pieces =>
          /\ "page" \in DOMAIN Asked /\ Asked["page"] \subseteq Calls
          /\ \A p \in Pieces["page"] : \A k \in DOMAIN p : p[k].kind \in {"func", "type"} /\ p[k].before \in Nat
    /\ BlockLimit \in Nat

VARIABLES tool, text, query
textVars == <<tool, text, query>>
allVars == <<textVars, vars, readVars>>

TextInit ==
    /\ Init /\ ReadInit
    /\ tool \in DOMAIN Pieces \cup {"blocks", "reads"}
    /\ tool # "reads" => reads = <<TRUE>>
    /\ text = <<>>
    /\ query \in IF tool \in DOMAIN Asked THEN Asked[tool] ELSE {<<>>}

TypeText ==
    /\ tool \in DOMAIN Pieces
    /\ \E p \in Pieces[tool] : Len(text \o p) <= Longest[tool] /\ text' = text \o p
    /\ UNCHANGED <<tool, query, vars, readVars>>

ScanBlocks == tool = "blocks" /\ Next /\ UNCHANGED <<textVars, readVars>>
ReadEntries == tool = "reads" /\ ReadNext /\ UNCHANGED <<textVars, vars>>

TextNext == TypeText \/ ScanBlocks \/ ReadEntries
TextSpec == TextInit /\ [][TextNext]_allVars

(***************************************************************************)
(* Properties.                                                               *)
(***************************************************************************)

(* The jump scan of a line and the walk over it agree on braces and state.   *)
ScansAlwaysAgree == tool = "line" => ScansAgree(text)

(* The compiled matcher every search uses answers as the splitting one, for   *)
(* every pattern whose alternatives are names and the path of any file; and of a nested *)
(* brace set all alternatives are tried, and no other, up to the cap.        *)
GlobsAgree ==
    tool = "glob" =>
        /\ (Named(query) /\ Relative(text)) => Match(CompileGlob(query), text) = MatchGlob(query, text)
        /\ (Grouped(query) /\ text = <<>>) =>
              LET all == Alternatives(query)
                  tried == ToSet(ExpandBraces(query))
              IN tried \subseteq all /\ (Len(ExpandBraces(query)) < MaxGlobExpansions => tried = all)

(* The blocks of an indented file form a tree.                               *)
IndentTree == tool = "indent" => \A n \in 1..BlockLimit : BlocksNest(text, n)

(* A region reads like the text it stands for, and no closer reading is       *)
(* overlooked.                                                               *)
RegionsTrue == tool = "match" => RegionsRead(text, query) /\ NothingCloser(text, query)

(* What a tool shows of a file is what it was asked for: tails, ranges and    *)
(* the first lines of entries, windows around hits; a summary accounts for   *)
(* the lines it omits, and a budget leaves a beginning of at most its length. *)
ShownExact ==
    tool = "show" =>
        LET total == Len(text)
            hits == {i \in 1..total : text[i] # "nl"}
        IN \A n, m \in 0..total + 1 :
            /\ n > 0 => TailExact(text, n)
            /\ RangeExact(total, n, m)
            /\ WindowsExact(hits, n, total)
            /\ LET r == SummarizeBody(total, n) IN Len(r.shown) + r.omitted = total /\ IsSorted(r.shown, <)
            /\ IsPrefix(TruncateToBudget(text, n), text)
            /\ n > 0 => Len(TruncateToBudget(text, n)) <= n

(* Unless its search spent hits on what is no match of its own, or a filter    *)
(* removed some, an answer without the mark has every match and the pages     *)
(* tile the functions.                                                       *)
PagesTrue == tool = "page" => UnmarkedComplete(text, query) /\ PagesTile(text, query)
=============================================================================
