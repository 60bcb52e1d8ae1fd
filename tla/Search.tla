------------------------------- MODULE Search -------------------------------
(***************************************************************************)
(* The parallel tree search of tools/grepfunc/scanner.go: one walker        *)
(* goroutine feeds a bounded jobs channel, a small pool of workers searches *)
(* the files it receives under a shared match budget and sends batches of   *)
(* matches to a bounded results channel, a closer closes that channel when  *)
(* the pool is empty, and the caller collects, reads one error, waits for   *)
(* the walker, and cuts the page to the limit.                              *)
(*                                                                         *)
(* A file's text is abstracted to what a search of it can return: the       *)
(* blocks its regexp hits fall in, in text order, and the blocks that match *)
(* as a whole.  A match is a pair <<position of the file in the walk, block *)
(* number>>; blocks are numbered by their first line.                       *)
(***************************************************************************)
EXTENDS Integers, Sequences, FiniteSets

CONSTANTS
    Workers,           \* the goroutines of the pool
    N,                 \* the entries the walk visits, numbered in walk order
    Trees,             \* the directory trees considered, each in [1..N -> Entry]
    Rank,              \* position of an entry's path in the order of strings
    Limit,             \* the page size asked for
    JobsPerWorker,     \* capacity of the jobs channel per worker (source: 4)
    ResultsPerWorker   \* capacity of the results channel per worker (source: 2)

Files == 1..N
Blocks == Nat \ {0}
Matches == Files \X Blocks

(***************************************************************************)
(* An entry of the walk: a file that can be read, a file whose stat or read *)
(* fails, or a directory that cannot be listed.  hits is the block of each  *)
(* regexp hit, 0 for a hit outside every block; joined the blocks whose     *)
(* full text matches.                                                       *)
(***************************************************************************)
Entry == [kind : {"file", "broken", "baddir"}, hits : Seq(Nat), joined : SUBSET Blocks]

ASSUME WorkersAssumption == IsFiniteSet(Workers) /\ Workers # {}
ASSUME SizesAssumption == /\ N \in Nat /\ Limit \in Nat \ {0}
                          /\ JobsPerWorker \in Nat \ {0}
                          /\ ResultsPerWorker \in Nat \ {0}
ASSUME TreesAssumption == /\ Trees \subseteq [Files -> Entry]
                          /\ \A t \in Trees, e \in Files : IsFiniteSet(t[e].joined)
                          /\ Rank \in [Files -> Nat]
                          /\ \A e, f \in Files : Rank[e] = Rank[f] => e = f

VARIABLES
    tree,      \* the directory tree being searched
    walker,    \* "walk", then "closing" (walkDone closed), then "done" (jobs closed)
    next,      \* the entry the walk visits next
    walkErr,   \* a directory could not be listed
    jobs,      \* the jobs channel
    pc,        \* where each worker is
    job,       \* the file each worker holds
    found,     \* the matches each worker has yet to send
    budget,    \* the shared atomic counter of matches
    results,   \* the results channel, batches of matches
    closed,    \* the results channel is closed
    errs,      \* the error channel: the files whose search failed
    stop,      \* the stop channel is closed
    main,      \* where the caller is
    out,       \* the matches collected
    count,     \* len(out), which differs from the size of the set on a repeat
    firstErr,  \* the caller has seen an error
    page       \* what the caller returned

walkVars == <<walker, next, walkErr>>
workVars == <<pc, job, found, budget, errs>>
mainVars == <<main, out, count, firstErr, page, stop>>
vars == <<tree, walker, next, walkErr, jobs, pc, job, found, budget, results, closed,
          errs, stop, main, out, count, firstErr, page>>

JobsCap == JobsPerWorker * Cardinality(Workers)
ResultsCap == ResultsPerWorker * Cardinality(Workers)

-----------------------------------------------------------------------------
(* What a search of one file returns *)

\* The r smallest members of a set of block numbers.
Lowest(S, r) == {b \in S : Cardinality({c \in S : c < b}) < r}

\* FindAllIndex stops after r hits; the hits are then reduced to blocks, and
\* only when none of them lies in a block are the blocks matched as a whole.
BlocksHit(e, r) ==
    LET hits == e.hits
        hitIn == {hits[i] : i \in {i \in DOMAIN hits : i <= r}} \ {0}
    IN  IF hitIn # {} THEN hitIn ELSE Lowest(e.joined, r)

\* searchFile: the matches of the entry at position f, at most r of them.
SearchFile(f, r) == {f} \X BlocksHit(tree[f], r)

\* The order in which a page lists matches: path, then line.
Before(m, n) == \/ Rank[m[1]] < Rank[n[1]]
                \/ m[1] = n[1] /\ m[2] < n[2]

\* The first k matches of a set in that order.
FirstOf(S, k) == {m \in S : Cardinality({n \in S : Before(n, m)}) < k}

-----------------------------------------------------------------------------
(* Faulty variants of the steps below: each leaves out or misplaces one thing  *)
(* the code does, and some property fails on it.                               *)

\* The walker does not wait for room.
WalkSendUnbounded ==
    /\ walker = "walk" /\ next <= N /\ tree[next].kind \in {"file", "broken"}
    /\ jobs' = Append(jobs, next)
    /\ next' = next + 1
    /\ UNCHANGED <<tree, walker, walkErr, workVars, results, closed, mainVars>>

\* A worker that has sent its error goes on with the next file.
SendErrorGoesOn(w) ==
    /\ pc[w] = "fail" /\ Len(errs) < Cardinality(Workers)
    /\ errs' = Append(errs, job[w])
    /\ pc' = [pc EXCEPT ![w] = "recv"]
    /\ UNCHANGED <<tree, walkVars, jobs, job, found, budget, results, closed, mainVars>>

\* The budget counts batches instead of matches.
AddBudgetPerFile(w) ==
    /\ pc[w] = "add"
    /\ budget' = budget + 1
    /\ pc' = [pc EXCEPT ![w] = "send"]
    /\ UNCHANGED <<tree, walkVars, jobs, job, found, errs, results, closed, mainVars>>

\* Every search may fill a page, whatever is left of the budget.
SearchOkFullPage(w) ==
    /\ pc[w] = "check" /\ budget < Limit /\ tree[job[w]].kind = "file"
    /\ found' = [found EXCEPT ![w] = SearchFile(job[w], Limit)]
    /\ pc' = [pc EXCEPT ![w] = IF found'[w] = {} THEN "recv" ELSE "add"]
    /\ UNCHANGED <<tree, walkVars, jobs, job, budget, errs, results, closed, mainVars>>

\* A worker gives up one match before the page is full.
GiveUpEarly(w) ==
    /\ pc[w] = "check" /\ budget >= Limit - 1
    /\ pc' = [pc EXCEPT ![w] = "exited"]
    /\ UNCHANGED <<tree, walkVars, jobs, job, found, budget, errs, results, closed, mainVars>>

\* A full page does not close the stop channel.
CollectNoStop ==
    /\ main = "collect" /\ results # <<>>
    /\ out' = out \cup Head(results)
    /\ count' = count + Cardinality(Head(results))
    /\ results' = Tail(results)
    /\ UNCHANGED <<tree, walkVars, jobs, workVars, closed, main, firstErr, page, stop>>

\* The walk's error is not looked at.
ReturnNoWalkErr ==
    /\ main = "wait" /\ walker # "walk"
    /\ firstErr' = firstErr
    /\ page' = IF firstErr' THEN out ELSE FirstOf(out, Limit)
    /\ main' = "returned"
    /\ UNCHANGED <<tree, walkVars, jobs, workVars, results, closed, out, count, stop>>

\* The caller does not wait for the walker.
ReturnNoWait ==
    /\ main = "wait"
    /\ firstErr' = (firstErr \/ walkErr)
    /\ page' = IF firstErr' THEN out ELSE FirstOf(out, Limit)
    /\ main' = "returned"
    /\ UNCHANGED <<tree, walkVars, jobs, workVars, results, closed, out, count, stop>>

-----------------------------------------------------------------------------
Init ==
    /\ tree \in Trees
    /\ walker = "walk" /\ next = 1 /\ walkErr = FALSE
    /\ jobs = <<>>
    /\ pc = [w \in Workers |-> "recv"]
    /\ job = [w \in Workers |-> 0]
    /\ found = [w \in Workers |-> {}]
    /\ budget = 0
    /\ results = <<>> /\ closed = FALSE
    /\ errs = <<>>
    /\ stop = FALSE
    /\ main = "collect"
    /\ out = {} /\ count = 0
    /\ firstErr = FALSE
    /\ page = {}

-----------------------------------------------------------------------------
(* The walker *)

Visiting(kinds) == walker = "walk" /\ next <= N /\ tree[next].kind \in kinds

\* The file is handed to the pool.
WalkSend ==
    /\ Visiting({"file", "broken"})
    /\ Len(jobs) < JobsCap
    /\ jobs' = Append(jobs, next)
    /\ next' = next + 1
    /\ UNCHANGED <<tree, walker, walkErr, workVars, results, closed, mainVars>>

\* The select's other case: the page is full, skip the rest of the tree.
WalkStop ==
    /\ Visiting({"file", "broken"})
    /\ stop
    /\ walker' = "closing"
    /\ UNCHANGED <<tree, next, walkErr, jobs, workVars, results, closed, mainVars>>

\* The walk's error callback remembers that an error occurred and skips the directory.
WalkError ==
    /\ Visiting({"baddir"})
    /\ walkErr' = TRUE
    /\ next' = next + 1
    /\ UNCHANGED <<tree, walker, jobs, workVars, results, closed, mainVars>>

\* The walk is over: the first deferred call closes walkDone.
WalkEnd ==
    /\ walker = "walk" /\ next = N + 1
    /\ walker' = "closing"
    /\ UNCHANGED <<tree, next, walkErr, jobs, workVars, results, closed, mainVars>>

\* The second deferred call closes the jobs channel.
CloseJobs ==
    /\ walker = "closing"
    /\ walker' = "done"
    /\ UNCHANGED <<tree, next, walkErr, jobs, workVars, results, closed, mainVars>>

-----------------------------------------------------------------------------
(* A worker *)

\* Take the next file off the jobs channel.
Recv(w) ==
    /\ pc[w] = "recv" /\ jobs # <<>>
    /\ job' = [job EXCEPT ![w] = Head(jobs)]
    /\ jobs' = Tail(jobs)
    /\ pc' = [pc EXCEPT ![w] = "check"]
    /\ UNCHANGED <<tree, walkVars, found, budget, errs, results, closed, mainVars>>

\* The jobs channel is closed and drained: the worker's loop ends.
RecvClosed(w) ==
    /\ pc[w] = "recv" /\ jobs = <<>> /\ walker = "done"
    /\ pc' = [pc EXCEPT ![w] = "exited"]
    /\ UNCHANGED <<tree, walkVars, jobs, job, found, budget, errs, results, closed, mainVars>>

\* The budget is spent: the worker exits and the file it took is never searched.
GiveUp(w) ==
    /\ pc[w] = "check" /\ budget >= Limit
    /\ pc' = [pc EXCEPT ![w] = "exited"]
    /\ UNCHANGED <<tree, walkVars, jobs, job, found, budget, errs, results, closed, mainVars>>

\* Search the file for as many matches as the budget read here leaves.
SearchOk(w) ==
    /\ pc[w] = "check" /\ budget < Limit /\ tree[job[w]].kind = "file"
    /\ found' = [found EXCEPT ![w] = SearchFile(job[w], Limit - budget)]
    /\ pc' = [pc EXCEPT ![w] = IF found'[w] = {} THEN "recv" ELSE "add"]
    /\ UNCHANGED <<tree, walkVars, jobs, job, budget, errs, results, closed, mainVars>>

\* The stat or the read fails.
SearchFails(w) ==
    /\ pc[w] = "check" /\ budget < Limit /\ tree[job[w]].kind = "broken"
    /\ pc' = [pc EXCEPT ![w] = "fail"]
    /\ UNCHANGED <<tree, walkVars, jobs, job, found, budget, errs, results, closed, mainVars>>

\* Send the error and exit.
SendError(w) ==
    /\ pc[w] = "fail" /\ Len(errs) < Cardinality(Workers)
    /\ errs' = Append(errs, job[w])
    /\ pc' = [pc EXCEPT ![w] = "failed"]
    /\ UNCHANGED <<tree, walkVars, jobs, job, found, budget, results, closed, mainVars>>

\* Count the matches against the shared budget.
AddBudget(w) ==
    /\ pc[w] = "add"
    /\ budget' = budget + Cardinality(found[w])
    /\ pc' = [pc EXCEPT ![w] = "send"]
    /\ UNCHANGED <<tree, walkVars, jobs, job, found, errs, results, closed, mainVars>>

\* Send the batch when the results channel has room.
SendResults(w) ==
    /\ pc[w] = "send" /\ Len(results) < ResultsCap
    /\ results' = Append(results, found[w])
    /\ found' = [found EXCEPT ![w] = {}]
    /\ pc' = [pc EXCEPT ![w] = "recv"]
    /\ UNCHANGED <<tree, walkVars, jobs, job, budget, errs, closed, mainVars>>

Gone(w) == pc[w] \in {"exited", "failed"}

\* The closer goroutine: every worker is gone.
CloseResults ==
    /\ ~closed /\ \A w \in Workers : Gone(w)
    /\ closed' = TRUE
    /\ UNCHANGED <<tree, walkVars, jobs, workVars, results, mainVars>>

-----------------------------------------------------------------------------
(* The caller *)

\* Collect a batch; a full page closes the stop channel.
Collect ==
    /\ main = "collect" /\ results # <<>>
    /\ out' = out \cup Head(results)
    /\ count' = count + Cardinality(Head(results))
    /\ results' = Tail(results)
    /\ stop' = (stop \/ count' >= Limit)
    /\ UNCHANGED <<tree, walkVars, jobs, workVars, closed, main, firstErr, page>>

\* The results channel is closed and drained.
CollectDone ==
    /\ main = "collect" /\ results = <<>> /\ closed
    /\ main' = "errs"
    /\ UNCHANGED <<tree, walkVars, jobs, workVars, results, closed, out, count,
                   firstErr, page, stop>>

\* One non-blocking read of the error channel.
TakeError ==
    /\ main = "errs"
    /\ firstErr' = (errs # <<>>)
    /\ errs' = IF errs = <<>> THEN errs ELSE Tail(errs)
    /\ main' = "wait"
    /\ UNCHANGED <<tree, walkVars, jobs, pc, job, found, budget, results, closed,
                   out, count, page, stop>>

\* walkDone is closed: return the error with what was collected, or the sorted
\* matches cut to the limit.
Return ==
    /\ main = "wait" /\ walker # "walk"
    /\ firstErr' = (firstErr \/ walkErr)
    /\ page' = IF firstErr' THEN out ELSE FirstOf(out, Limit)
    /\ main' = "returned"
    /\ UNCHANGED <<tree, walkVars, jobs, workVars, results, closed, out, count, stop>>

Walk == WalkSend \/ WalkStop \/ WalkError \/ WalkEnd \/ CloseJobs
Work(w) == \/ Recv(w) \/ RecvClosed(w) \/ GiveUp(w) \/ SearchOk(w) \/ SearchFails(w)
           \/ SendError(w) \/ AddBudget(w) \/ SendResults(w)
Caller == Collect \/ CollectDone \/ TakeError \/ Return

Next == Walk \/ (\E w \in Workers : Work(w)) \/ CloseResults \/ Caller

\* The Go scheduler runs every goroutine that can run, and file operations return.
Spec == /\ Init /\ [][Next]_vars
        /\ WF_vars(Walk) /\ WF_vars(CloseResults) /\ WF_vars(Caller)
        /\ \A w \in Workers : WF_vars(Work(w))

-----------------------------------------------------------------------------
(* Properties *)

PCs == {"recv", "check", "add", "send", "fail", "exited", "failed"}

\* Every variable stays in its range, and both channels within their capacity
\* (make(chan ...) at scanner.go:85-87).
TypeOK ==
    /\ tree \in Trees
    /\ walker \in {"walk", "closing", "done"} /\ next \in 1..(N + 1) /\ walkErr \in BOOLEAN
    /\ jobs \in Seq(Files) /\ Len(jobs) <= JobsCap
    /\ pc \in [Workers -> PCs]
    /\ job \in [Workers -> Files \cup {0}]
    /\ \A w \in Workers : pc[w] \in {"check", "add", "send", "fail"} => job[w] \in Files
    /\ found \in [Workers -> SUBSET Matches]
    /\ budget \in Nat
    /\ results \in Seq(SUBSET Matches) /\ Len(results) <= ResultsCap
    /\ closed \in BOOLEAN
    /\ errs \in Seq(Files)
    /\ stop \in BOOLEAN
    /\ main \in {"collect", "errs", "wait", "returned"}
    /\ out \subseteq Matches /\ count \in Nat
    /\ firstErr \in BOOLEAN
    /\ page \subseteq Matches

\* A worker that has an error to report finds room for it: the channel holds one
\* error per worker and is read only after all of them are gone, so the send at
\* scanner.go:106 must never block or the pool is never empty.
ErrorRoom == \A w \in Workers : pc[w] = "fail" => Len(errs) < Cardinality(Workers)

\* Matches counted against the budget: collected, in the channel, or about to be sent.
Counted == out \cup (UNION {results[i] : i \in DOMAIN results})
               \cup (UNION {found[w] : w \in {w \in Workers : pc[w] = "send"}})

\* The budget is exactly the number of distinct matches found: none is counted
\* twice, lost on the way to the caller, or found by two workers.
BudgetExact == budget = Cardinality(Counted) /\ count = Cardinality(out)

\* The shared budget keeps the pool from fetching more than a page per worker in
\* all, however many files each of them searches (scanner.go:97-98).
FetchBound == budget <= Cardinality(Workers) * Limit

\* A result without an error hides no failure: no worker failed and no directory
\* was skipped (scanner.go:175-188).
NoSilentFailure ==
    main = "returned" /\ ~firstErr =>
        /\ \A w \in Workers : pc[w] # "failed"
        /\ \A e \in Files : e < next => tree[e].kind # "baddir"

\* When search returns, no goroutine of it still reads the tree: every worker is
\* gone and the walk is over.
NothingRunsOn == main = "returned" => walker # "walk" /\ \A w \in Workers : Gone(w)

AllMatches == UNION {SearchFile(f, Limit) : f \in {e \in Files : tree[e].kind = "file"}}

\* No block of a file is hit twice, and no hit lies outside every block.
HitsApart(t) == \A e \in Files : \A i, j \in DOMAIN t[e].hits :
                    t[e].hits[i] # 0 /\ (i # j => t[e].hits[i] # t[e].hits[j])

\* A page that is not full is the whole answer (the total is then shown without
\* the "N+" of tool.go:245), when every file is hit at most once per block.
ShortPageComplete ==
    main = "returned" /\ ~firstErr /\ HitsApart(tree) /\ Cardinality(page) < Limit
        => AllMatches \subseteq page

BrokenFiles(t) == {e \in Files : t[e].kind = "broken"}

\* The search comes to an end when fewer files are unreadable than there are
\* workers.
Terminates == Cardinality(BrokenFiles(tree)) < Cardinality(Workers) ~> main = "returned"

\* The search comes to an end on every tree: scanner.go:175-176 expects the
\* caller to pass from the results to the errors and on to the walker.
SearchReturns == <>(main = "returned")
=============================================================================
