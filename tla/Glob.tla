-------------------------------- MODULE Glob --------------------------------
(***************************************************************************)
(* Glob matching (tools/grepfunc/scanner.go): brace sets, `**` over path      *)
(* components, and the two matchers the repository keeps side by side: the    *)
(* compiled one that every search uses and the one that splits pattern and    *)
(* path at each call.  A pattern and a path are sequences of characters.      *)
(***************************************************************************)
EXTENDS Sublists, SequencesExt

CONSTANT MaxGlobExpansions

ASSUME GlobAssumption == MaxGlobExpansions \in Nat

(***************************************************************************)
(* Brace sets.                                                               *)
(***************************************************************************)
Depth(s, i) == Cardinality({j \in 1..i : s[j] = "{"}) - Cardinality({j \in 1..i : s[j] = "}"})

(* Positions of the braces and commas that belong to no nested group.        *)
MatchingBrace(pattern, open) ==
    LET ends == {i \in (open + 1)..Len(pattern) :
                    pattern[i] = "}" /\ Depth(pattern, i) = Depth(pattern, open) - 1}
    IN IF ends = {} THEN 0 ELSE Min(ends)

Commas(group) == {i \in 1..Len(group) : group[i] = "," /\ Depth(group, i) = 0}

SplitAlternates(group) == Split(group, Commas(group))

(* The patterns a pattern can be expanded to, among others.                   *)
Shorter(pattern) == {s \in Seq({pattern[i] : i \in DOMAIN pattern}) : Len(s) <= Len(pattern)}

Capped(s) == SubSeq(s, 1, IF Len(s) < MaxGlobExpansions THEN Len(s) ELSE MaxGlobExpansions)

(* One pattern for each alternative of the first group; none when there is    *)
(* no group, or it has no comma.                                             *)
FirstGroup(pattern) ==
    LET opens == {i \in 1..Len(pattern) : pattern[i] = "{"}
        open == Min(opens)
        shut == MatchingBrace(pattern, open)
        alts == SplitAlternates(SubSeq(pattern, open + 1, shut - 1))
    IN IF opens = {} THEN <<>>
       ELSE IF shut = 0 \/ Len(alts) < 2 THEN <<>>
       ELSE [k \in 1..Len(alts) |->
                SubSeq(pattern, 1, open - 1) \o alts[k] \o SubSeq(pattern, shut + 1, Len(pattern))]

ExpandBraces(pattern) ==
    LET expand[s \in Shorter(pattern)] ==
            LET each == FirstGroup(s)
            IN IF each = <<>> THEN <<s>> ELSE Capped(FlattenSeq([k \in 1..Len(each) |-> expand[each[k]]]))
    IN expand[pattern]

(***************************************************************************)
(* Components.                                                               *)
(***************************************************************************)
TrimDot(s) == IF IsPrefix(<<".", "/">>, s) THEN SubSeq(s, 3, Len(s)) ELSE s

SplitPath(s) ==
    LET p == TrimDot(s)
    IN IF p \in {<<>>, <<".">>} THEN <<>> ELSE Split(p, {i \in 1..Len(p) : p[i] = "/"})

Base(p) == SubSeq(p, 1 + SelectLastInSeq(p, LAMBDA c : c = "/"), Len(p))

(* Does a pattern of p elements cover a text of n: one in `spans` covers any   *)
(* run of them, another just one, when `takes` has the pair.                 *)
Covers(p, n, spans, takes) ==
    LET from[at \in (1..(p + 1)) \X (1..(n + 1))] ==
            \/ at = <<p + 1, n + 1>>
            \/ at[1] \in spans /\ \E m \in at[2]..(n + 1) : from[<<at[1] + 1, m>>]
            \/ at[1] \notin spans /\ at \in takes /\ from[<<at[1] + 1, at[2] + 1>>]
    IN from[<<1, 1>>]

(* filepath.Match of one component: a literal, `?` for one character, `*`    *)
(* for any run of them; an unclosed class matches nothing.                   *)
FilepathMatch(pat, name) ==
    Covers(Len(pat), Len(name), {i \in 1..Len(pat) : pat[i] = "*"},
           {at \in (1..Len(pat)) \X (1..Len(name)) : pat[at[1]] \in {"?", name[at[2]]} /\ pat[at[1]] # "["})

(* Where the greedy matcher is: in the pattern, in the name, and at the last  *)
(* star with the character behind those it has taken.                        *)
Scan(p, n, star, mark) == [p |-> p, n |-> n, star |-> star, mark |-> mark]
Scans(p, n) == {s \in [p : 1..(p + 1), n : 1..(n + 1), star : 0..p, mark : 1..(n + 1)] : s.mark <= s.n}

(* Mutant: the retry starts after the characters already consumed.           *)
MatchSimpleForward(pattern, name) ==
    LET scan[s \in Scans(Len(pattern), Len(name))] ==
            LET p == s.p  n == s.n
            IN IF n > Len(name) THEN \A k \in p..Len(pattern) : pattern[k] = "*"
               ELSE IF p <= Len(pattern) /\ pattern[p] \in {"?", name[n]}
               THEN scan[Scan(p + 1, n + 1, s.star, s.mark)]
               ELSE IF p <= Len(pattern) /\ pattern[p] = "*"
               THEN scan[Scan(p + 1, n, p, n)]
               ELSE s.star > 0 /\ scan[Scan(s.star + 1, n + 1, s.star, s.mark)]
    IN scan[Scan(1, 1, 0, 1)]

(* The greedy matcher: on a mismatch it goes back to the last star and lets  *)
(* it take one character more.                                               *)
MatchSimple(pattern, name) ==
    LET scan[s \in Scans(Len(pattern), Len(name))] ==
            LET p == s.p  n == s.n
            IN IF n > Len(name) THEN \A k \in p..Len(pattern) : pattern[k] = "*"
               ELSE IF p <= Len(pattern) /\ pattern[p] \in {"?", name[n]}
               THEN scan[Scan(p + 1, n + 1, s.star, s.mark)]
               ELSE IF p <= Len(pattern) /\ pattern[p] = "*"
               THEN scan[Scan(p + 1, n, p, n)]
               ELSE s.star > 0 /\ scan[Scan(s.star + 1, s.mark + 1, s.star, s.mark + 1)]
    IN scan[Scan(1, 1, 0, 1)]

MatchComponent(part, comp) ==
    IF Contains(part, "[") THEN FilepathMatch(part, comp) ELSE MatchSimple(part, comp)

(***************************************************************************)
(* The splitting matcher.                                                    *)
(***************************************************************************)
StarStar == <<"*", "*">>

MatchParts(pat, path) ==
    Covers(Len(pat), Len(path), {i \in 1..Len(pat) : pat[i] = StarStar},
           {at \in (1..Len(pat)) \X (1..Len(path)) : FilepathMatch(pat[at[1]], path[at[2]])})

MatchGlobOne(pattern, path) ==
    IF Contains(pattern, "/") THEN MatchParts(SplitPath(pattern), SplitPath(path))
    ELSE FilepathMatch(pattern, Base(path))

MatchGlob(pattern, path) == \E c \in ToSet(ExpandBraces(pattern)) : MatchGlobOne(c, path)

(***************************************************************************)
(* The compiled matcher.  It walks the path by offset: `ofs` characters have  *)
(* been consumed.                                                            *)
(***************************************************************************)
CompileGlob(pattern) ==
    [k \in 1..Len(ExpandBraces(pattern)) |->
        LET norm == TrimDot(ExpandBraces(pattern)[k])
        IN [parts |-> SplitPath(norm), base |-> ~Contains(norm, "/")]]

ComponentEnd(path, ofs) ==
    Min({i \in (ofs + 1)..Len(path) : path[i] = "/"} \cup {Len(path) + 1}) - 1

NextComponent(path, ofs) == IF ComponentEnd(path, ofs) = Len(path) THEN Len(path) ELSE ComponentEnd(path, ofs) + 1

MatchPartsFrom(parts, path) ==
    LET from[at \in (1..(Len(parts) + 1)) \X (0..Len(path))] ==
            LET k == at[1]  ofs == at[2]
            IN IF k > Len(parts) THEN ofs >= Len(path)
               ELSE IF parts[k] = StarStar
               THEN from[<<k + 1, ofs>>] \/ (ofs < Len(path) /\ from[<<k, NextComponent(path, ofs)>>])
               ELSE /\ ofs < Len(path)
                    /\ MatchComponent(parts[k], SubSeq(path, ofs + 1, ComponentEnd(path, ofs)))
                    /\ from[<<k + 1, NextComponent(path, ofs)>>]
    IN from[<<1, 0>>]

(* A base alternative without a part is indexed all the same: the search     *)
(* ends in a panic.                                                          *)
Panics(alt) == alt.base /\ alt.parts = <<>>

MatchAlt(alt, path0) ==
    LET path == TrimDot(path0)
    IN IF alt.base THEN MatchComponent(alt.parts[1], Base(path))
       ELSE IF path \in {<<>>, <<".">>} THEN alt.parts = <<>>
       ELSE MatchPartsFrom(alt.parts, path)

Match(matcher, path) == \E k \in 1..Len(matcher) : MatchAlt(matcher[k], path)

(***************************************************************************)
(* The languages of the two matchers.                                        *)
(***************************************************************************)

(* A pattern whose alternatives are names: none is empty, the root itself,   *)
(* or anchored at the root by a leading "./".                                *)
Named(pattern) == \A c \in ToSet(ExpandBraces(pattern)) : c # <<>> /\ ~IsPrefix(<<".", "/">>, c) /\ c # <<".">>

(* Paths of files as the walk reports them, relative to the root, but for     *)
(* names that hold a star, which the greedy matcher takes for a star of the   *)
(* pattern.                                                                  *)
Relative(path) ==
    /\ path \notin {<<>>, <<".">>} /\ TrimDot(path) = path /\ ~Contains(path, "*")
    /\ \A k \in 1..Len(SplitPath(path)) : SplitPath(path)[k] # <<>>

(* A pattern in which every brace belongs to a set with a comma.             *)
Grouped(pattern) ==
    /\ \A i \in 1..Len(pattern) : Depth(pattern, i) >= 0
    /\ Depth(pattern, Len(pattern)) = 0
    /\ \A i \in 1..Len(pattern) :
          pattern[i] = "{" => Commas(SubSeq(pattern, i + 1, MatchingBrace(pattern, i) - 1)) # {}

(* What a brace set means: of every group one alternative is chosen, and what *)
(* is neither a mark of a group nor in an alternative left out is kept.       *)
Groups(s) == {i \in 1..Len(s) : s[i] = "{"}
Within(s, i) == (i + 1)..(MatchingBrace(s, i) - 1)
Separators(s, i) == {j \in Within(s, i) : s[j] = "," /\ Depth(s, j) = Depth(s, i)}
Chosen(s, i, n) == {j \in Within(s, i) \ Separators(s, i) : Cardinality({c \in Separators(s, i) : c < j}) = n}
Alternatives(s) ==
    {LET left == {j \in 1..Len(s) : s[j] \notin {"{", "}"}}
         out == UNION {Within(s, i) \ Chosen(s, i, pick[i]) : i \in Groups(s)}
     IN  Picked(s, left \ out) :
        pick \in {f \in [Groups(s) -> 0..Max({Cardinality(Separators(s, i)) : i \in Groups(s)} \cup {0})] :
                     \A i \in Groups(s) : f[i] <= Cardinality(Separators(s, i))}}
=============================================================================
