------------------------------ MODULE Bookmark ------------------------------
(***************************************************************************)
(* The bookmark tool (tools/bookmark/tool.go): references to sections of a    *)
(* document that is edited between the calls, and during them.  A line of the  *)
(* document is [level, text, id]: level 0 is a line of text; id names the     *)
(* section a heading opens, whatever its text becomes (0 for other lines).    *)
(* Blank lines are left out.  The files of the repository are changed and      *)
(* deleted by others; git reports them in the order of their names, and any    *)
(* of its commands may fail, which the tool takes for an empty answer.        *)
(***************************************************************************)
EXTENDS Sublists, FiniteSets, FiniteSetsExt, SequencesExt

CONSTANTS
    Docs,        \* the documents to begin with
    Texts,       \* the texts its owner may write
    Lower,       \* per text or label: itself in lower case
    Specs,       \* the references of a call to set
    MaxRefs,     \* maxRefs: 4
    Files,       \* the files of the repository, named as the texts mention them
    Absent,      \* per instance: those that are not there at first
    PathScanCap, \* files that are looked for in the sections: 40
    Outages,     \* the sets of git commands that may fail in one call
    Subjects,    \* what the subject of a commit may mention
    MaxEvents    \* bound: edits, commits and changes of files

VARIABLES
    doc,         \* the document, NoDoc without it
    book,        \* the store, NoBook without it
    lines,       \* the document as the last call read it
    git,         \* branch, commits, dirty files and files that are not there
    edited,      \* the document has been changed since the stamp of the store
    doing,       \* the call that runs
    verdict,     \* of the read that has just answered
    spans,       \* of that read: per reference it kept, the lines shown
    home,        \* history: the section each reference was last found at
    verified,    \* history: the document of the last set or read
    raced,       \* history: that call was overtaken by an edit
    unheard,     \* history: the git commands that failed when the bookmark was set
    missed,      \* history: those that failed in the read that has just answered
    events       \* counts what others did
bookVars == <<doc, book, lines, git, edited, doing, verdict, spans, home, verified, raced,
              unheard, missed, events>>

NoDoc == <<[level |-> 0 - 1, text |-> "", id |-> 0]>>
NoBook == [refs |-> <<>>, branch |-> "", sha |-> <<>>, dirty |-> {}]
NoGit == [branch |-> "main", sha |-> <<[file |-> "", subject |-> ""]>>, dirty |-> {}, gone |-> {}]
IdleCall == [op |-> "none", refs |-> <<>>]
NoMark == [level |-> 0, text |-> ""]

(***************************************************************************)
(* Headings, sections and marks.                                             *)
(***************************************************************************)

(* A line of text counts as a heading when it reads like one.                *)
FindHeadings(ls, heading) == {i \in 1..Len(ls) : ls[i].text = heading}

(* resolveHeading: the text as it is, then in any case.                      *)
Loose(ls, heading) == {i \in 1..Len(ls) : ls[i].level > 0 /\ Lower[ls[i].text] = Lower[heading]}
ResolveHeading(ls, heading) ==
    IF FindHeadings(ls, heading) # {} THEN Min(FindHeadings(ls, heading))
    ELSE IF Loose(ls, heading) # {} THEN Min(Loose(ls, heading)) ELSE 0

SectionEnd(ls, start) ==
    LET next == {i \in (start + 1)..Len(ls) : ls[i].level \in 1..ls[start].level}
    IN IF next = {} THEN Len(ls) ELSE Min(next) - 1

(* Its first line, which may be a heading below it; none when it is empty.    *)
Raw(line) == [level |-> line.level, text |-> line.text]
SectionMark(ls, start) == IF SectionEnd(ls, start) = start THEN NoMark ELSE Raw(ls[start + 1])

(* The line of a mark, when there is one and no other.                       *)
FindMark(ls, mark) ==
    LET found == {i \in 1..Len(ls) : Raw(ls[i]) = mark}
    IN IF mark # NoMark /\ Cardinality(found) = 1 THEN Min(found) ELSE 0

UniqueMarkMatch(ls, headings, mark) ==
    LET found == {h \in headings : SectionMark(ls, h) = mark}
    IN IF Cardinality(found) = 1 THEN Min(found) ELSE 0

(***************************************************************************)
(* set: references that resolve, the first of equal labels and of equal       *)
(* headings, up to the cap.                                                  *)
(***************************************************************************)
AutoLabel(heading) == Lower[heading]
LabelOf(spec) == IF spec.label = "" THEN AutoLabel(spec.heading) ELSE spec.label

AddRef(ls, refs, spec) ==
    LET i == ResolveHeading(ls, spec.heading)
        taken == \E k \in 1..Len(refs) :
                    Lower[refs[k].label] = Lower[LabelOf(spec)] \/ Lower[refs[k].heading] = Lower[ls[i].text]
    IN IF i = 0 \/ Len(refs) >= MaxRefs THEN refs
       ELSE IF taken THEN refs
       ELSE Append(refs, [label |-> LabelOf(spec), heading |-> ls[i].text, mark |-> SectionMark(ls, i)])

BuildRefs(ls, specs) ==
    LET built[k \in 0..Len(specs)] == IF k = 0 THEN <<>> ELSE AddRef(ls, built[k - 1], specs[k])
    IN built[Len(specs)]

(***************************************************************************)
(* read: where the references are by now.                                    *)
(***************************************************************************)

(* Mutant: what the mark says is not kept up to date.                        *)
RefAtOnce(ls, r) ==
    LET hits == FindHeadings(ls, r.heading)
        i == IF Cardinality(hits) = 1 THEN Min(hits)
             ELSE IF hits = {} THEN FindMark(ls, r.mark) ELSE UniqueMarkMatch(ls, hits, r.mark)
    IN [at |-> i, ref |-> r]

(* By the heading, and the mark is renewed; by the mark when the heading is    *)
(* gone, and nothing is renewed; by both when there are several; or not.      *)
RefNow(ls, r) ==
    LET hits == FindHeadings(ls, r.heading)
        i == IF Cardinality(hits) = 1 THEN Min(hits)
             ELSE IF hits = {} THEN FindMark(ls, r.mark) ELSE UniqueMarkMatch(ls, hits, r.mark)
    IN [at |-> i, ref |-> IF hits = {} \/ i = 0 THEN r ELSE [r EXCEPT !.mark = SectionMark(ls, i)]]

Span(ls, n) == [label |-> n.ref.label, start |-> n.at, end |-> SectionEnd(ls, n.at)]

(***************************************************************************)
(* What has happened since (renderRead).                                     *)
(***************************************************************************)
Mention(ls, ss) ==
    {p \in (DOMAIN ss) \X (DOMAIN ls) : /\ p[2] \in ss[p[1]].start..ss[p[1]].end
                                      /\ ls[p[2]].text \in ToSet(Files) \ git.gone}
TextsAt(ls, places) == {ls[p[2]].text : p \in places}
Earlier(p, q) == p[1] < q[1] \/ (p[1] = q[1] /\ p[2] < q[2])

(* The files that are there and that the sections mention, the first of them   *)
(* up to the cap.                                                            *)
InScope(ls, ss) ==
    LET found == Mention(ls, ss)
        before(p) == TextsAt(ls, {q \in found : Earlier(q, p)})
    IN TextsAt(ls, {p \in found : Cardinality(before(p)) < PathScanCap})

(* What git says loses the blank it begins with, so the first path loses its   *)
(* first letter when only the working tree has changed it; untracked files     *)
(* come after the changed ones.                                              *)
ParsePorcelain(dirty) ==
    LET changed == SelectSeq(Files, LAMBDA f : \E k \in {"changed", "deleted"} : [file |-> f, kind |-> k] \in dirty)
    IN {[file |-> d.file, cut |-> changed # <<>> /\ d.file = Head(changed)] : d \in dirty}

(* gitSnapshot, by a git of which the commands in `lost` fail.               *)
Snapshot(lost) ==
    [branch |-> IF "branch" \in lost THEN "" ELSE git.branch,
     sha    |-> IF "sha" \in lost THEN <<>> ELSE git.sha,
     dirty  |-> IF "status" \in lost THEN {} ELSE ParsePorcelain(git.dirty)]

(* Commits since the bookmark was set and the files they touch, unless        *)
(* history was rewritten; a merge-base that fails is taken for that.          *)
HeadMoved(now) == now.sha # <<>> /\ book.sha # <<>> /\ now.sha # book.sha
IsAncestor(lost) == "ancestor" \notin lost /\ IsPrefix(book.sha, git.sha)
Since == SubSeq(git.sha, Len(book.sha) + 1, Len(git.sha))
CommitsSince(lost) == IF IsAncestor(lost) /\ "log" \notin lost THEN Since ELSE <<>>
ChangedFiles(lost) == IF IsAncestor(lost) /\ "files" \notin lost THEN {c.file : c \in ToSet(Since)} ELSE {}

(* What renderRead has of git.                                               *)
Report(lost) ==
    LET now == Snapshot(lost) IN
    [dirty     |-> now.dirty,
     branched  |-> now.branch # "" /\ book.branch # "" /\ now.branch # book.branch,
     commits   |-> IF HeadMoved(now) THEN CommitsSince(lost) ELSE <<>>,
     files     |-> IF HeadMoved(now) THEN ChangedFiles(lost) ELSE {},
     rewritten |-> HeadMoved(now) /\ ~IsAncestor(lost)]

ScopeMatches(ls, ss, rep) ==
    ({d.file : d \in {e \in rep.dirty : ~e.cut}} \cup rep.files) \cap InScope(ls, ss)
Keywords(refs) == UNION {{Lower[refs[k].label], Lower[refs[k].heading]} : k \in DOMAIN refs}
Hits(refs, rep) == {c \in ToSet(rep.commits) : c.subject \in Keywords(refs)}
Progress(ls, ss, refs, rep) == ScopeMatches(ls, ss, rep) # {} \/ Hits(refs, rep) # {} \/ edited

(* Mutant: another branch is no drift.                                       *)
VerdictOnBranch(ls, ss, refs, rep) ==
    IF Progress(ls, ss, refs, rep) THEN "PROGRESS"
    ELSE IF rep.commits # <<>> \/ rep.dirty # book.dirty \/ rep.rewritten THEN "DRIFT-OUT"
    ELSE "IDLE"

Verdict(ls, ss, refs, rep) ==
    IF Progress(ls, ss, refs, rep) THEN "PROGRESS"
    ELSE IF rep.commits # <<>> \/ rep.dirty # book.dirty \/ rep.branched \/ rep.rewritten THEN "DRIFT-OUT"
    ELSE "IDLE"

(***************************************************************************)
(* The calls.  The document is read, then the store is replaced, by a          *)
(* temporary file that takes its name: as a whole or not at all.  The stamp    *)
(* of the store is taken after the document was read.                        *)
(***************************************************************************)
World == <<doc, git, events>>
History == <<home, verified, raced, unheard>>
NoReply == verdict' = "none" /\ spans' = <<>> /\ missed' = {}

Unmarked ==
    /\ book = NoBook /\ lines = NoDoc /\ edited = FALSE
    /\ doing = IdleCall /\ verdict = "none" /\ spans = <<>>
    /\ home = <<>> /\ verified = NoDoc /\ raced = FALSE /\ unheard = {} /\ missed = {} /\ events = 0
BookIdle ==
    /\ doc = NoDoc /\ git = NoGit /\ Unmarked
BookInit ==
    /\ doc \in Docs /\ Unmarked
    /\ \E absent \in Absent : git = [NoGit EXCEPT !.gone = absent]

Begin(op) ==
    /\ doing = IdleCall /\ doc # NoDoc
    /\ lines' = doc
    /\ doing' = op
    /\ NoReply /\ UNCHANGED <<World, book, edited, History>>

SetReads == \E s \in Specs : Begin([op |-> "set", refs |-> s])
ReadReads == book # NoBook /\ Begin([op |-> "read", refs |-> <<>>])

(* The bookmark is verified; the history keeps where its references are.      *)
Verifies(refs, sections) ==
    /\ book'.refs = refs
    /\ home' = sections
    /\ verified' = lines /\ raced' = (lines # doc)
    /\ edited' = FALSE /\ doing' = IdleCall
    /\ UNCHANGED <<World, lines>>
Section(i) == [id |-> lines[i].id, first |-> SectionMark(lines, i)]

SetSaves ==
    /\ doing.op = "set"
    /\ LET refs == BuildRefs(lines, doing.refs) IN
          /\ refs # <<>>
          /\ \E lost \in Outages :
                LET now == Snapshot(lost) IN
                /\ book' = [refs |-> refs, branch |-> now.branch, sha |-> now.sha, dirty |-> now.dirty]
                /\ unheard' = lost \cap {"branch", "sha", "status"}
          /\ Verifies(refs, [k \in DOMAIN refs |-> Section(ResolveHeading(lines, refs[k].heading))])
    /\ NoReply

(* The references that are found, in their order.                            *)
KeptRefs ==
    Those([k \in 1..Len(book.refs) |-> k],
          {k \in 1..Len(book.refs) : RefNow(lines, book.refs[k]).at # 0})

(* The verdict compares the time of the document with the last stamp; the      *)
(* snapshot of the repository stays that of `set`.                            *)
ReadSaves ==
    /\ doing.op = "read"
    /\ LET kept == KeptRefs
           found == [n \in DOMAIN kept |-> RefNow(lines, book.refs[kept[n]])]
           refs == [n \in DOMAIN kept |-> found[n].ref]
           ss == [n \in DOMAIN kept |-> Span(lines, found[n])]
       IN /\ kept # <<>>
          /\ book' = [book EXCEPT !.refs = refs]
          /\ spans' = ss
          /\ \E lost \in Outages : verdict' = Verdict(lines, ss, refs, Report(lost)) /\ missed' = lost
          /\ UNCHANGED unheard
          /\ Verifies(refs, [n \in DOMAIN kept |->
                 IF FindHeadings(lines, refs[n].heading) = {} THEN home[kept[n]] ELSE Section(found[n].at)])

(* No reference is left: the bookmark is removed.                            *)
Cleared ==
    /\ doing.op = "read" /\ \A k \in DOMAIN book.refs : RefNow(lines, book.refs[k]).at = 0
    /\ book' = NoBook /\ home' = <<>> /\ unheard' = {} /\ doing' = IdleCall
    /\ NoReply /\ UNCHANGED <<World, lines, edited, verified, raced>>

(* clear, on request; or a read that finds the document gone, unreadable,     *)
(* protected or outside the root.                                            *)
Clear ==
    /\ doing = IdleCall /\ book # NoBook
    /\ book' = NoBook /\ home' = <<>> /\ unheard' = {}
    /\ NoReply /\ UNCHANGED <<World, lines, doing, edited, verified, raced>>

(* A set that resolves nothing, and any write that fails, leave the store.     *)
CallFails ==
    /\ doing # IdleCall
    /\ doing' = IdleCall
    /\ NoReply /\ UNCHANGED <<World, book, lines, edited, History>>

(***************************************************************************)
(* The world: the document's owner and the repository.                       *)
(***************************************************************************)
Happens ==
    /\ events < MaxEvents /\ events' = events + 1
    /\ NoReply /\ UNCHANGED <<book, lines, doing, History>>
Edits == doc # NoDoc /\ Happens /\ edited' = TRUE /\ UNCHANGED git

Rewrite(i, t) == Edits /\ doc[i].text # t /\ doc' = [doc EXCEPT ![i].text = t]

(* A section goes to the end of the document.                                *)
MoveSection(i) ==
    /\ Edits /\ doc[i].level > 0 /\ SectionEnd(doc, i) < Len(doc)
    /\ LET e == SectionEnd(doc, i) IN
       doc' = SubSeq(doc, 1, i - 1) \o SubSeq(doc, e + 1, Len(doc)) \o SubSeq(doc, i, e)

DropSection(i) ==
    /\ Edits /\ doc[i].level > 0
    /\ LET rest == SubSeq(doc, 1, i - 1) \o SubSeq(doc, SectionEnd(doc, i) + 1, Len(doc)) IN
       doc' = IF rest = <<>> THEN NoDoc ELSE rest

Repository(g) == Happens /\ git' = g /\ UNCHANGED <<doc, edited>>
Present(d) == d.kind # "deleted"
Changes(d) ==
    /\ \A e \in git.dirty : e.file # d.file
    /\ d.kind = "new" <=> d.file \in git.gone
    /\ Repository([git EXCEPT !.dirty = @ \cup {d}, !.gone = IF Present(d) THEN @ \ {d.file} ELSE @ \cup {d.file}])
Commit(d, s) == Repository([git EXCEPT !.sha = Append(@, [file |-> d.file, subject |-> s]), !.dirty = @ \ {d}])
Amend(s) == git.sha # <<>> /\ Repository([git EXCEPT !.sha[Len(git.sha)] = [file |-> "amended", subject |-> s]])
Checkout == git.branch = "main" /\ Repository([git EXCEPT !.branch = "work"])

BookNext ==
    \/ SetReads \/ SetSaves \/ ReadReads \/ ReadSaves \/ Cleared \/ Clear \/ CallFails
    \/ \E i \in DOMAIN doc : MoveSection(i) \/ DropSection(i) \/ \E t \in Texts : Rewrite(i, t)
    \/ Checkout
    \/ \E f \in ToSet(Files), k \in {"changed", "new", "deleted"} : Changes([file |-> f, kind |-> k])
    \/ \E s \in Subjects : Amend(s) \/ \E d \in git.dirty : Commit(d, s)

(***************************************************************************)
(* Properties: what a read answers.                                          *)
(***************************************************************************)
Answers == verdict' # "none"

Heard(commands) == commands \cap (unheard \cup missed') = {}

(* A verdict of IDLE says that the document has not changed since the last     *)
(* verification, unless an edit overtook that call, nor the repository since   *)
(* the bookmark was set, as far as git answered in both calls.  A file that is  *)
(* there, changed and mentioned by the sections shown is progress, when they   *)
(* mention no more files than are looked for, unless its name is cut or git    *)
(* does not say that it changed.                                             *)
VerdictTrue ==
    Answers =>
        /\ verdict' = "IDLE" =>
              /\ doc = verified \/ raced
              /\ Heard({"branch"}) => git.branch = book.branch
              /\ Heard({"sha", "log"}) => git.sha = book.sha
              /\ Heard({"status"}) => {d.file : d \in git.dirty} = {d.file : d \in book.dirty}
        /\ LET mentioned == TextsAt(lines, Mention(lines, spans'))
           IN verdict' # "PROGRESS" /\ Cardinality(mentioned) <= PathScanCap =>
              /\ "status" \notin missed' => \A d \in ParsePorcelain(git.dirty) : d.file \in mentioned => d.cut
              /\ Heard({"sha", "ancestor", "files"}) /\ IsPrefix(book.sha, git.sha) =>
                    \A c \in ToSet(Since) : c.file \notin mentioned

(* Line of the section a reference was last found at, 0 when it is gone.      *)
HomeLine(k) ==
    LET at == {i \in DOMAIN lines : lines[i].level > 0 /\ lines[i].id = home[k].id}
    IN IF at = {} THEN 0 ELSE Min(at)
Shown(k, i) == \E n \in DOMAIN spans' : spans'[n].label = book.refs[k].label /\ spans'[n].start = i
Only(i, set) == set = {i}

(* A reference follows its section between two reads: by its heading, however  *)
(* it moved, when that heading is the only one or the first line under it is   *)
(* as it was and under no other; by that line when the heading was renamed.    *)
(* Another section is shown only when the heading was renamed or removed, or  *)
(* the first line was changed under one of several such headings.             *)
RefsFollow ==
    Answers =>
        \A k \in DOMAIN book.refs :
            LET heading == book.refs[k].heading
                same == FindHeadings(lines, heading)
                h == HomeLine(k)
                stays == h # 0 /\ home[k].first # NoMark /\ SectionMark(lines, h) = home[k].first
            IN /\ h \in same /\ (Only(h, same) \/ (stays /\ Only(h, {i \in same : SectionMark(lines, i) = home[k].first})))
                     => Shown(k, h)
               /\ stays /\ same = {} /\ Only(h + 1, {i \in DOMAIN lines : Raw(lines[i]) = home[k].first})
                     => Shown(k, h + 1)
               /\ \A i \in DOMAIN lines \ {h} :
                     Shown(k, i) => h \notin same \/ (~stays /\ Cardinality(same) > 1)
=============================================================================
