---------------------------- MODULE SearchProof ----------------------------
(***************************************************************************)
(* Proofs about Search for every pool, tree, limit and channel capacity:     *)
(* what is returned, delivered and closed, and what is counted -- the budget *)
(* the workers share, how many matches they fetch, and when the page is all  *)
(* there is.                                                                 *)
(***************************************************************************)
EXTENDS Search, Counting, FunctionTheorems, FiniteSetTheorems, TLAPS

-----------------------------------------------------------------------------
(* What a search of one file returns *)

\* A search of a file returns finitely many matches of that file: this is what
\* makes len(funcs) (scanner.go:115) a number.
LEMMA SearchFileType ==
    ASSUME tree \in Trees, NEW f \in Files, NEW r
    PROVE  SearchFile(f, r) \in SUBSET Matches /\ IsFiniteSet(SearchFile(f, r))
<1> DEFINE hits == tree[f].hits
           at == {i \in DOMAIN hits : i <= r}
           hitAt == [i \in at |-> hits[i]]
           hitIn == {hits[i] : i \in at} \ {0}
           joined == Lowest(tree[f].joined, r)
<1>1. tree[f] \in Entry /\ IsFiniteSet(tree[f].joined)
  BY TreesAssumption
<1>2. hits \in Seq(Nat) /\ tree[f].joined \subseteq Blocks
  BY <1>1 DEF Entry
<1>3. joined \subseteq tree[f].joined
  BY DEF Lowest
<1>4. hitIn \subseteq Blocks
  <2>1. \A i \in at : hits[i] \in Nat
    BY <1>2
  <2> QED BY <2>1 DEF Blocks
<1>5. IsFiniteSet(hitIn)
  <2>1. IsFiniteSet(DOMAIN hits)
    <3>1. DOMAIN hits = 1..Len(hits) /\ Len(hits) \in Nat
      BY <1>2
    <3>2. IsFiniteSet(1..Len(hits))
      BY <3>1, 1 \in Int, Len(hits) \in Int, FS_Interval
    <3> QED BY <3>1, <3>2
  <2>2. IsFiniteSet(at)
    BY <2>1, FS_Subset
  <2>3. IsFiniteSet({hits[i] : i \in at})
    <3> DEFINE T == {hits[i] : i \in at}
    <3>1. hitAt \in [at -> T] /\ \A b \in T : \E i \in at : hitAt[i] = b
      OBVIOUS
    <3> SUFFICES IsFiniteSet(T)
      OBVIOUS
    <3> HIDE DEF hitAt, T, at
    <3>2. hitAt \in Surjection(at, T)
      BY <3>1 DEF Surjection
    <3> QED BY <2>2, <3>2, FS_Surjection
  <2> QED BY <2>3, FS_Subset
<1>6. IsFiniteSet(joined)
  BY <1>1, <1>3, FS_Subset
<1>7. BlocksHit(tree[f], r) \subseteq Blocks /\ IsFiniteSet(BlocksHit(tree[f], r))
  BY <1>2, <1>3, <1>4, <1>5, <1>6 DEF BlocksHit
<1>8. IsFiniteSet({f} \X BlocksHit(tree[f], r))
  BY <1>7, FS_Singleton, FS_Product
<1> QED BY <1>7, <1>8 DEF SearchFile, Matches

-----------------------------------------------------------------------------
(* The type invariant *)

\* Every batch of matches is finite, so that the counter and the budget are numbers.
BatchesFinite == /\ \A w \in Workers : IsFiniteSet(found[w])
                 /\ \A i \in DOMAIN results : IsFiniteSet(results[i])

TypeInv == TypeOK /\ BatchesFinite

\* The capacities and the size of the pool are numbers, the pool is not empty.
LEMMA Capacities ==
    /\ Cardinality(Workers) \in Nat \ {0}
    /\ JobsCap \in Nat \ {0} /\ ResultsCap \in Nat \ {0}
<1>1. Cardinality(Workers) \in Nat
  BY WorkersAssumption, FS_CardinalityType
<1>2. Cardinality(Workers) # 0
  BY WorkersAssumption, FS_EmptySet
<1>3. \A a, b \in Nat \ {0} : a * b \in Nat \ {0}
  OBVIOUS
<1> QED BY <1>1, <1>2, <1>3, SizesAssumption DEF JobsCap, ResultsCap

LEMMA TypeInit == Init => TypeInv
<1> SUFFICES ASSUME Init PROVE TypeInv
  OBVIOUS
<1>1. 0 <= JobsCap /\ 0 <= ResultsCap /\ 1 \in 1..(N + 1)
  BY Capacities, SizesAssumption
<1>2. TypeOK
  <2> USE DEF Init
  <2>1. /\ pc \in [Workers -> PCs] /\ job \in [Workers -> Files \cup {0}]
        /\ \A w \in Workers : pc[w] \notin {"check", "add", "send", "fail"}
    BY DEF PCs
  <2>2. found \in [Workers -> SUBSET Matches]
    OBVIOUS
  <2>3. /\ jobs \in Seq(Files) /\ Len(jobs) <= JobsCap
        /\ results \in Seq(SUBSET Matches) /\ Len(results) <= ResultsCap
        /\ errs \in Seq(Files)
    BY <1>1
  <2> QED BY <1>1, <2>1, <2>2, <2>3 DEF TypeOK
<1>3. BatchesFinite
  BY FS_EmptySet DEF Init, BatchesFinite
<1> QED BY <1>2, <1>3 DEF TypeInv

LEMMA TypeStep == TypeInv /\ [Next]_vars => TypeInv'
<1> SUFFICES ASSUME TypeInv, [Next]_vars PROVE TypeInv'
  OBVIOUS
<1> USE DEF TypeInv
<1>1. CASE Walk
  <2>1. CASE WalkSend
    <3>1. next \in Files /\ next' \in 1..(N + 1)
      BY <2>1, SizesAssumption DEF WalkSend, Visiting, TypeOK, Files
    <3>2. jobs' \in Seq(Files) /\ Len(jobs') <= JobsCap
      BY <2>1, <3>1, Capacities DEF WalkSend, TypeOK
    <3> QED BY <2>1, <3>1, <3>2 DEF WalkSend, TypeOK, BatchesFinite, PCs, workVars, mainVars
  <2>2. CASE WalkStop
    BY <2>2 DEF WalkStop, TypeOK, BatchesFinite, PCs, workVars, mainVars
  <2>3. CASE WalkError
    BY <2>3, SizesAssumption DEF WalkError, Visiting, TypeOK, BatchesFinite, PCs, workVars, mainVars
  <2>4. CASE WalkEnd
    BY <2>4 DEF WalkEnd, TypeOK, BatchesFinite, PCs, workVars, mainVars
  <2>5. CASE CloseJobs
    BY <2>5 DEF CloseJobs, TypeOK, BatchesFinite, PCs, workVars, mainVars
  <2> QED BY <1>1, <2>1, <2>2, <2>3, <2>4, <2>5 DEF Walk
<1>2. ASSUME NEW w \in Workers, Work(w) PROVE TypeInv'
  <2>1. CASE Recv(w)
    <3>1. Head(jobs) \in Files /\ Tail(jobs) \in Seq(Files) /\ Len(Tail(jobs)) <= JobsCap
      BY <2>1, Capacities DEF Recv, TypeOK
    <3> QED BY <2>1, <3>1 DEF Recv, TypeOK, BatchesFinite, PCs, walkVars, mainVars
  <2>2. CASE RecvClosed(w)
    BY <2>2 DEF RecvClosed, TypeOK, BatchesFinite, PCs, walkVars, mainVars
  <2>3. CASE GiveUp(w)
    BY <2>3 DEF GiveUp, TypeOK, BatchesFinite, PCs, walkVars, mainVars
  <2>4. CASE SearchOk(w)
    <3>1. job[w] \in Files
      BY <2>4 DEF SearchOk, TypeOK
    <3>2. found'[w] \in SUBSET Matches /\ IsFiniteSet(found'[w])
      BY <2>4, <3>1, SearchFileType DEF SearchOk, TypeOK
    <3> QED BY <2>4, <3>1, <3>2 DEF SearchOk, TypeOK, BatchesFinite, PCs, walkVars, mainVars
  <2>5. CASE SearchFails(w)
    BY <2>5 DEF SearchFails, TypeOK, BatchesFinite, PCs, walkVars, mainVars
  <2>6. CASE SendError(w)
    BY <2>6 DEF SendError, TypeOK, BatchesFinite, PCs, walkVars, mainVars
  <2>7. CASE AddBudget(w)
    <3>1. Cardinality(found[w]) \in Nat
      BY FS_CardinalityType DEF BatchesFinite
    <3> QED BY <2>7, <3>1 DEF AddBudget, TypeOK, BatchesFinite, PCs, walkVars, mainVars
  <2>8. CASE SendResults(w)
    <3>1. Len(results') <= ResultsCap
      BY <2>8, Capacities DEF SendResults, TypeOK
    <3> QED BY <2>8, <3>1, FS_EmptySet DEF SendResults, TypeOK, BatchesFinite, PCs, walkVars, mainVars
  <2> QED BY <1>2, <2>1, <2>2, <2>3, <2>4, <2>5, <2>6, <2>7, <2>8 DEF Work
<1>3. CASE CloseResults
  BY <1>3 DEF CloseResults, TypeOK, BatchesFinite, PCs, walkVars, workVars, mainVars
<1>4. CASE Caller
  <2>1. CASE Collect
    <3>1. Head(results) \in SUBSET Matches /\ IsFiniteSet(Head(results))
      BY <2>1 DEF Collect, TypeOK, BatchesFinite
    <3>2. Cardinality(Head(results)) \in Nat
      BY <3>1, FS_CardinalityType
    <3>3. /\ Tail(results) \in Seq(SUBSET Matches) /\ Len(Tail(results)) <= ResultsCap
          /\ \A i \in DOMAIN Tail(results) : IsFiniteSet(Tail(results)[i])
      BY <2>1, Capacities DEF Collect, TypeOK, BatchesFinite
    <3>4. count' \in Nat
      BY <2>1, <3>2 DEF Collect, TypeOK
    <3> QED BY <2>1, <3>1, <3>3, <3>4 DEF Collect, TypeOK, BatchesFinite, PCs, walkVars, workVars
  <2>2. CASE CollectDone
    BY <2>2 DEF CollectDone, TypeOK, BatchesFinite, PCs, walkVars, workVars
  <2>3. CASE TakeError
    BY <2>3 DEF TakeError, TypeOK, BatchesFinite, PCs, walkVars
  <2>4. CASE Return
    <3>1. FirstOf(out, Limit) \subseteq out
      BY DEF FirstOf
    <3> QED BY <2>4, <3>1 DEF Return, TypeOK, BatchesFinite, PCs, walkVars, workVars
  <2> QED BY <1>4, <2>1, <2>2, <2>3, <2>4 DEF Caller
<1>5. CASE UNCHANGED vars
  BY <1>5 DEF vars, TypeOK, BatchesFinite, PCs
<1> QED BY <1>1, <1>2, <1>3, <1>4, <1>5 DEF Next

\* Every variable keeps its range and neither channel holds more than its capacity,
\* for every number of workers, every tree and every limit (scanner.go:81-223).
THEOREM TypeCorrect == Spec => []TypeOK
<1>1. TypeInv => TypeOK
  BY DEF TypeInv
<1> QED BY <1>1, TypeInit, TypeStep, PTL DEF Spec

-----------------------------------------------------------------------------
(* The end of a search: what the caller may rely on when the pool is empty *)

Failed == {w \in Workers : pc[w] = "failed"}

\* Every buffered error comes from a worker that is gone for good.
ErrsCounted == Len(errs) <= Cardinality(Failed)

\* The caller moves on only after the closer, the closer only after the workers,
\* and the search returns only after the walk.
EndInOrder == /\ closed => \A w \in Workers : Gone(w)
              /\ main # "collect" => closed
              /\ main = "returned" => walker # "walk"

\* The error of a failed worker is in the channel until the caller takes one.
ErrorKept == \A w \in Workers :
    pc[w] = "failed" => IF main \in {"collect", "errs"} THEN errs # <<>> ELSE firstErr

\* A skipped directory is remembered, and reported by a search that has returned.
WalkErrKept ==
    /\ \A e \in Files : e < next /\ tree[e].kind = "baddir" => walkErr
    /\ main = "returned" /\ walkErr => firstErr

EndInv == ErrsCounted /\ EndInOrder /\ ErrorKept /\ WalkErrKept

LEMMA EndInit == Init => EndInv
<1> SUFFICES ASSUME Init PROVE EndInv
  OBVIOUS
<1>1. Failed = {}
  BY DEF Init, Failed
<1>2. ErrsCounted
  BY <1>1, FS_EmptySet DEF Init, ErrsCounted
<1>3. EndInOrder /\ ErrorKept
  BY DEF Init, EndInOrder, ErrorKept
<1>4. WalkErrKept
  BY SizesAssumption DEF Init, WalkErrKept, Files
<1> QED BY <1>2, <1>3, <1>4 DEF EndInv

\* A worker about to report its error is not among those that have: there is room.
LEMMA RoomForError ==
    ASSUME ErrsCounted, TypeOK, NEW w \in Workers, pc[w] = "fail"
    PROVE  Len(errs) < Cardinality(Workers)
<1>1. Failed \subseteq Workers /\ Failed # Workers
  BY DEF Failed
<1>2. /\ Cardinality(Failed) <= Cardinality(Workers)
      /\ Cardinality(Failed) # Cardinality(Workers)
  BY <1>1, WorkersAssumption, FS_Subset
<1>3. /\ Cardinality(Failed) \in Nat /\ Cardinality(Workers) \in Nat
      /\ Len(errs) \in Nat
  BY <1>1, WorkersAssumption, FS_Subset, FS_CardinalityType DEF TypeOK
<1> QED BY <1>2, <1>3 DEF ErrsCounted

LEMMA EndStep == TypeInv /\ EndInv /\ [Next]_vars => EndInv'
<1> SUFFICES ASSUME TypeInv, EndInv, [Next]_vars PROVE EndInv'
  OBVIOUS
<1> USE DEF EndInv, TypeInv
<1>1. ASSUME UNCHANGED pc PROVE Failed' = Failed
  BY <1>1 DEF Failed
<1>2. CASE Walk
  <2>1. UNCHANGED <<tree, pc, errs, closed, main, firstErr>>
    BY <1>2 DEF Walk, WalkSend, WalkStop, WalkError, WalkEnd, CloseJobs, workVars, mainVars
  <2>2. ErrsCounted' /\ ErrorKept'
    BY <2>1, <1>1 DEF ErrsCounted, ErrorKept
  <2>3. EndInOrder'
    BY <2>1, <1>2 DEF EndInOrder, Gone, Walk, WalkSend, WalkStop, WalkError, WalkEnd, CloseJobs
  <2>4. WalkErrKept'
    <3>1. CASE next' = next /\ walkErr' = walkErr
      BY <2>1, <3>1 DEF WalkErrKept
    <3>2. CASE WalkSend
      BY <2>1, <3>2 DEF WalkSend, Visiting, WalkErrKept, TypeOK, Files
    <3>3. CASE WalkError
      BY <2>1, <3>3 DEF WalkError, Visiting, WalkErrKept, EndInOrder, TypeOK
    <3> QED BY <1>2, <3>1, <3>2, <3>3 DEF Walk, WalkStop, WalkEnd, CloseJobs
  <2> QED BY <2>2, <2>3, <2>4
<1>3. ASSUME NEW w \in Workers, Work(w) PROVE EndInv'
  <2>1. UNCHANGED <<tree, walker, next, walkErr, closed, main, firstErr>>
    BY <1>3 DEF Work, Recv, RecvClosed, GiveUp, SearchOk, SearchFails, SendError, AddBudget,
                SendResults, walkVars, mainVars
  <2>2. ~Gone(w)
    BY <1>3 DEF Gone, Work, Recv, RecvClosed, GiveUp, SearchOk, SearchFails, SendError,
                AddBudget, SendResults
  <2>3. WalkErrKept'
    BY <2>1 DEF WalkErrKept
  <2>4. EndInOrder'
    BY <2>1, <2>2 DEF EndInOrder
  <2>5. CASE SendError(w)
    <3>1. pc' = [pc EXCEPT ![w] = "failed"] /\ errs' = Append(errs, job[w])
      BY <2>5 DEF SendError
    <3>2. Failed' = Failed \cup {w} /\ w \notin Failed
      BY <2>2, <3>1 DEF Failed, Gone, TypeOK
    <3>3. IsFiniteSet(Failed)
      BY WorkersAssumption, FS_Subset DEF Failed
    <3>4. Cardinality(Failed') = Cardinality(Failed) + 1 /\ Cardinality(Failed) \in Nat
      BY <3>2, <3>3, FS_AddElement, FS_CardinalityType
    <3>5. Len(errs') = Len(errs) + 1 /\ Len(errs) \in Nat
      BY <3>1 DEF TypeOK
    <3>6. ErrsCounted'
      BY <3>4, <3>5 DEF ErrsCounted
    <3>7. main = "collect"
      BY <2>2 DEF EndInOrder, TypeOK
    <3>8. ErrorKept'
      BY <2>1, <3>5, <3>7 DEF ErrorKept
    <3> QED BY <2>3, <2>4, <3>6, <3>8
  <2>6. CASE ~SendError(w)
    <3>1. UNCHANGED errs /\ \E l \in PCs \ {"failed"} : pc' = [pc EXCEPT ![w] = l]
      BY <1>3, <2>6 DEF Work, Recv, RecvClosed, GiveUp, SearchOk, SearchFails, AddBudget,
                        SendResults, PCs
    <3>2. Failed' = Failed
      BY <2>2, <3>1 DEF Failed, Gone, TypeOK
    <3>3. ErrsCounted' /\ ErrorKept'
      BY <2>1, <3>1, <3>2 DEF ErrsCounted, ErrorKept, Failed
    <3> QED BY <2>3, <2>4, <3>3
  <2> QED BY <2>5, <2>6
<1>4. CASE CloseResults
  BY <1>4, <1>1 DEF CloseResults, ErrsCounted, EndInOrder, ErrorKept, WalkErrKept, Gone,
                    walkVars, workVars, mainVars
<1>5. CASE Caller
  <2>1. CASE Collect \/ CollectDone
    BY <2>1, <1>1 DEF Collect, CollectDone, ErrsCounted, EndInOrder, ErrorKept, WalkErrKept,
                      Gone, walkVars, workVars
  <2>2. CASE TakeError
    <3>1. UNCHANGED <<tree, walker, next, walkErr, pc, closed>>
      BY <2>2 DEF TakeError, walkVars
    <3>2. /\ main = "errs" /\ main' = "wait" /\ firstErr' = (errs # <<>>)
          /\ errs' = IF errs = <<>> THEN errs ELSE Tail(errs)
      BY <2>2 DEF TakeError
    <3>3. Len(errs') <= Len(errs) /\ Len(errs') \in Nat /\ Len(errs) \in Nat
      BY <3>2 DEF TypeOK
    <3>4. Cardinality(Failed) \in Nat
      BY WorkersAssumption, FS_Subset, FS_CardinalityType DEF Failed
    <3>5. ErrsCounted'
      BY <1>1, <3>1, <3>3, <3>4 DEF ErrsCounted
    <3>6. EndInOrder' /\ WalkErrKept'
      BY <3>1, <3>2 DEF EndInOrder, WalkErrKept, Gone
    <3>7. ErrorKept'
      BY <3>1, <3>2 DEF ErrorKept
    <3> QED BY <3>5, <3>6, <3>7
  <2>3. CASE Return
    <3>1. UNCHANGED <<tree, walker, next, walkErr, pc, errs, closed>>
      BY <2>3 DEF Return, walkVars, workVars
    <3>2. /\ main = "wait" /\ main' = "returned" /\ walker # "walk"
          /\ firstErr' = (firstErr \/ walkErr)
      BY <2>3 DEF Return
    <3>3. ErrsCounted'
      BY <1>1, <3>1 DEF ErrsCounted
    <3>4. EndInOrder' /\ WalkErrKept'
      BY <3>1, <3>2 DEF EndInOrder, WalkErrKept, Gone
    <3>5. ErrorKept'
      BY <3>1, <3>2 DEF ErrorKept
    <3> QED BY <3>3, <3>4, <3>5
  <2> QED BY <1>5, <2>1, <2>2, <2>3 DEF Caller
<1>6. CASE UNCHANGED vars
  BY <1>6, <1>1 DEF vars, ErrsCounted, EndInOrder, ErrorKept, WalkErrKept, Gone
<1> QED BY <1>2, <1>3, <1>4, <1>5, <1>6 DEF Next

LEMMA SearchInvariant == Spec => [](TypeInv /\ EndInv)
<1>1. Init => TypeInv /\ EndInv
  BY TypeInit, EndInit
<1>2. (TypeInv /\ EndInv) /\ [Next]_vars => (TypeInv /\ EndInv)'
  BY TypeStep, EndStep
<1> QED BY <1>1, <1>2, PTL DEF Spec

\* No worker ever waits to report an error: the error channel has one place per
\* worker and each worker sends at most once (scanner.go:106, 175-176).
THEOREM ErrorsNeverBlock == Spec => []ErrorRoom
<1>1. TypeInv /\ EndInv => ErrorRoom
  BY RoomForError DEF TypeInv, EndInv, ErrorRoom
<1> QED BY <1>1, SearchInvariant, PTL

\* A search that returns without an error had none, in the pool or in the walk
\* (scanner.go:167-196).
THEOREM FailuresAreReported == Spec => []NoSilentFailure
<1>1. TypeInv /\ EndInv => NoSilentFailure
  BY DEF EndInv, ErrorKept, WalkErrKept, NoSilentFailure
<1> QED BY <1>1, SearchInvariant, PTL

\* A search that returns leaves no goroutine that reads the tree behind it
\* (scanner.go:129-159, 184).
THEOREM NothingLeftRunning == Spec => []NothingRunsOn
<1>1. TypeInv /\ EndInv => NothingRunsOn
  BY DEF EndInv, EndInOrder, NothingRunsOn
<1> QED BY <1>1, SearchInvariant, PTL

-----------------------------------------------------------------------------
(* What a search of one file returns, counted *)

\* The order of numbers, for Lowest.
Less == {p \in Nat \X Nat : p[1] < p[2]}

LEMMA LowestSize ==
    ASSUME NEW S \in SUBSET Nat, IsFiniteSet(S), NEW k \in Nat
    PROVE  /\ k >= Cardinality(S) => Lowest(S, k) = S
           /\ k <= Cardinality(S) => Cardinality(Lowest(S, k)) = k
<1>1. Orders(Less, S)
  BY DEF Orders, Less
<1>2. \A b \in S : {c \in S : c < b} = {c \in S : <<c, b>> \in Less}
  BY DEF Less
<1>3. Lowest(S, k) = Leading(Less, S, k)
  BY <1>2 DEF Lowest, Leading
<1> QED BY <1>1, <1>3, LeadingSize

\* The blocks of the first r hits.
HitIn(hits, r) == {hits[i] : i \in {i \in DOMAIN hits : i <= r}} \ {0}

LEMMA HitInSize ==
    ASSUME NEW hits \in Seq(Nat), NEW r \in Nat
    PROVE  /\ IsFiniteSet(HitIn(hits, r)) /\ Cardinality(HitIn(hits, r)) <= r
           /\ (r <= Len(hits) /\ \A i, j \in DOMAIN hits :
                  hits[i] # 0 /\ (i # j => hits[i] # hits[j]))
                => Cardinality(HitIn(hits, r)) = r
<1> DEFINE at == {i \in DOMAIN hits : i <= r}
           blocks == {hits[i] : i \in at}
           block == [i \in at |-> hits[i]]
<1>1. at \in SUBSET (1..r) /\ (r <= Len(hits) => at = 1..r)
  OBVIOUS
<1>2. IsFiniteSet(1..r) /\ Cardinality(1..r) = r
  BY 1 \in Int, r \in Int, FS_Interval
<1>3. IsFiniteSet(at) /\ Cardinality(at) <= r /\ Cardinality(at) \in Nat
  BY <1>1, <1>2, FS_Subset, FS_CardinalityType
<1>4. block \in [at -> blocks] /\ \A b \in blocks : \E i \in at : block[i] = b
  OBVIOUS
<1>5. HitIn(hits, r) = blocks \ {0}
  BY DEF HitIn
<1> HIDE DEF block, blocks, at
<1>6. block \in Surjection(at, blocks)
  BY <1>4 DEF Surjection
<1>7. /\ IsFiniteSet(blocks) /\ Cardinality(blocks) <= Cardinality(at)
      /\ Cardinality(blocks) = Cardinality(at) <=> block \in Injection(at, blocks)
      /\ Cardinality(blocks) \in Nat
  BY <1>3, <1>6, FS_Surjection, FS_CardinalityType
<1>8. /\ IsFiniteSet(blocks \ {0}) /\ Cardinality(blocks \ {0}) <= Cardinality(blocks)
      /\ Cardinality(blocks \ {0}) \in Nat
  BY <1>7, FS_Subset, FS_CardinalityType
<1>9. ASSUME r <= Len(hits),
             \A i, j \in DOMAIN hits : hits[i] # 0 /\ (i # j => hits[i] # hits[j])
      PROVE  Cardinality(blocks \ {0}) = r
  <2>1. \A i, j \in at : block[i] = block[j] => i = j
    BY <1>9 DEF block, at
  <2>2. block \in Injection(at, blocks)
    BY <1>4, <2>1, Fun_IsInj
  <2>3. blocks \ {0} = blocks
    BY <1>9 DEF blocks, at
  <2> QED BY <1>1, <1>2, <1>7, <1>9, <2>2, <2>3
<1> QED BY <1>3, <1>5, <1>7, <1>8, <1>9

\* A search returns no more matches than it is asked for; when no block is hit twice
\* and no hit lies outside every block it returns all of them or as many as that
\* (scanner.go:725-748).
LEMMA SearchFileSize ==
    ASSUME tree \in Trees, NEW f \in Files, NEW r \in 1..Limit
    PROVE  /\ Cardinality(SearchFile(f, r)) \in Nat
           /\ Cardinality(SearchFile(f, r)) <= r
           /\ HitsApart(tree) => \/ SearchFile(f, r) = SearchFile(f, Limit)
                                 \/ Cardinality(SearchFile(f, r)) = r
<1> DEFINE hits == tree[f].hits
           joined == tree[f].joined
           all(k) == BlocksHit(tree[f], k)
<1>1. hits \in Seq(Nat) /\ joined \subseteq Nat /\ IsFiniteSet(joined)
  BY TreesAssumption DEF Entry, Blocks
<1>2. r \in Nat /\ Limit \in Nat /\ r <= Limit /\ 1 <= r
  BY SizesAssumption
<1>3. \A k : all(k) = IF HitIn(hits, k) # {} THEN HitIn(hits, k) ELSE Lowest(joined, k)
  BY DEF BlocksHit, HitIn
<1>4. Cardinality(joined) \in Nat
  BY <1>1, FS_CardinalityType
<1>5. Lowest(joined, r) \in SUBSET joined
  BY DEF Lowest
<1>6. IsFiniteSet(Lowest(joined, r)) /\ Cardinality(Lowest(joined, r)) <= r
  <2>1. IsFiniteSet(Lowest(joined, r))
    BY <1>1, <1>5, FS_Subset
  <2>2. CASE r <= Cardinality(joined)
    BY <1>1, <1>2, <2>1, <2>2, LowestSize
  <2>3. CASE r >= Cardinality(joined)
    <3>1. Lowest(joined, r) = joined
      BY <1>1, <1>2, <2>3, LowestSize
    <3> QED BY <2>1, <2>3, <3>1
  <2> QED BY <1>2, <1>4, <2>2, <2>3
<1>7. /\ IsFiniteSet(all(r)) /\ Cardinality(all(r)) <= r /\ Cardinality(all(r)) \in Nat
  <2>1. IsFiniteSet(HitIn(hits, r)) /\ Cardinality(HitIn(hits, r)) <= r
    BY <1>1, <1>2, HitInSize
  <2>2. IsFiniteSet(all(r)) /\ Cardinality(all(r)) <= r
    BY <1>3, <1>6, <2>1
  <2> QED BY <2>2, FS_CardinalityType
<1>8. ASSUME HitsApart(tree) PROVE all(r) = all(Limit) \/ Cardinality(all(r)) = r
  <2>1. \A i, j \in DOMAIN hits : hits[i] # 0 /\ (i # j => hits[i] # hits[j])
    BY <1>8 DEF HitsApart
  <2>2. CASE Len(hits) = 0
    <3>1. HitIn(hits, r) = {} /\ HitIn(hits, Limit) = {}
      BY <1>1, <2>2 DEF HitIn
    <3>2. all(r) = Lowest(joined, r) /\ all(Limit) = Lowest(joined, Limit)
      BY <1>3, <3>1
    <3>3. CASE r <= Cardinality(joined)
      BY <1>1, <1>2, <3>2, <3>3, LowestSize
    <3>4. CASE r >= Cardinality(joined)
      <4>1. Lowest(joined, r) = joined
        BY <1>1, <1>2, <3>4, LowestSize
      <4>2. Lowest(joined, Limit) = joined
        BY <1>1, <1>2, <1>4, <3>4, LowestSize
      <4> QED BY <3>2, <4>1, <4>2
    <3> QED BY <1>2, <1>4, <3>3, <3>4
  <2>3. CASE Len(hits) # 0
    <3>1. 1 \in DOMAIN hits /\ hits[1] # 0
      BY <1>1, <2>1, <2>3
    <3>2. hits[1] \in HitIn(hits, r) /\ hits[1] \in HitIn(hits, Limit)
      BY <1>2, <3>1 DEF HitIn
    <3>3. all(r) = HitIn(hits, r) /\ all(Limit) = HitIn(hits, Limit)
      BY <1>3, <3>2
    <3>4. CASE r <= Len(hits)
      BY <1>1, <1>2, <2>1, <3>3, <3>4, HitInSize
    <3>5. CASE r >= Len(hits)
      <4>1. \A i \in DOMAIN hits : i <= r /\ i <= Limit
        BY <1>1, <1>2, <3>5
      <4>2. HitIn(hits, r) = HitIn(hits, Limit)
        BY <4>1 DEF HitIn
      <4> QED BY <3>3, <4>2
    <3> QED BY <1>1, <1>2, <3>4, <3>5
  <2> QED BY <2>2, <2>3
<1>9. Cardinality({f} \X all(r)) = Cardinality(all(r))
  <2>1. IsFiniteSet({f}) /\ Cardinality({f}) = 1
    BY FS_Singleton
  <2>2. Cardinality({f} \X all(r)) = Cardinality({f}) * Cardinality(all(r))
    BY <1>7, <2>1, FS_Product
  <2> HIDE DEF all
  <2> QED BY <1>7, <2>1, <2>2
<1> QED BY <1>7, <1>8, <1>9 DEF SearchFile

-----------------------------------------------------------------------------
(* No file is searched twice, so no match is counted twice *)

Holds(w) == pc[w] \in {"check", "add", "send", "fail"}

\* A file is in the jobs channel, or with one worker, or has been sent.
FilesApart ==
    /\ \A i \in DOMAIN jobs : jobs[i] < next /\ \A j \in DOMAIN jobs : i # j => jobs[i] # jobs[j]
    /\ \A w \in Workers : Holds(w) =>
          /\ job[w] < next
          /\ \A i \in DOMAIN jobs : jobs[i] # job[w]
          /\ \A v \in Workers : v # w /\ Holds(v) => job[v] # job[w]

Sent == out \cup UNION {results[i] : i \in DOMAIN results}

SentApart == \A m \in Sent : /\ m[1] < next
                             /\ \A i \in DOMAIN jobs : jobs[i] # m[1]
                             /\ \A w \in Workers : Holds(w) => job[w] # m[1]

\* What a worker has found is of the file it holds.
FoundApart == \A w \in Workers : IF pc[w] \in {"add", "send"} THEN \A m \in found[w] : m[1] = job[w]
                                 ELSE found[w] = {}

\* No match is collected twice.
BatchesApart == \A i \in DOMAIN results :
    /\ results[i] \cap out = {}
    /\ \A j \in DOMAIN results : i # j => results[i] \cap results[j] = {}

ApartInv == FilesApart /\ SentApart /\ FoundApart /\ BatchesApart

\* The numbers the goroutines keep are those of the matches.
Numbers == IsFiniteSet(Counted) /\ IsFiniteSet(out) /\ BudgetExact

\* Matches found, whether they have been counted or not.
Held == Sent \cup UNION {found[w] : w \in Workers}

FetchInv == /\ \A w \in Workers : Cardinality(found[w]) <= Limit
            /\ IsFiniteSet(Held) /\ Cardinality(Held) <= Cardinality(Workers) * Limit

\* Why a worker has left and why the walk has ended.
ExitReasons ==
    /\ stop => count >= Limit
    /\ walker # "walk" => next = N + 1 \/ stop
    /\ \A w \in Workers : pc[w] = "exited" => budget >= Limit \/ (walker = "done" /\ jobs = <<>>)
    /\ main # "collect" => results = <<>>
    /\ main = "returned" /\ ~firstErr => page = FirstOf(out, Limit)

\* Where the matches of a file visited are, while the page is not full.
Placed(f) == \/ \E i \in DOMAIN jobs : jobs[i] = f
             \/ \E w \in Workers : pc[w] = "check" /\ job[w] = f
             \/ SearchFile(f, Limit) \subseteq Held

Whereabouts ==
    HitsApart(tree) => \/ Cardinality(Held) >= Limit
                       \/ \A f \in Files : (f < next /\ tree[f].kind = "file") => Placed(f)

CountInv == ApartInv /\ Numbers /\ FetchInv /\ ExitReasons /\ Whereabouts

\* A batch sent is the last of the channel, a batch collected the first.
LEMMA BatchSent ==
    ASSUME TypeOK, NEW b
    PROVE  /\ DOMAIN Append(results, b) = 1..(Len(results) + 1) /\ Len(results) \in Nat
           /\ \A i \in DOMAIN results : Append(results, b)[i] = results[i] /\ i \in 1..Len(results)
           /\ Append(results, b)[Len(results) + 1] = b
           /\ UNION {Append(results, b)[i] : i \in DOMAIN Append(results, b)}
                = b \cup UNION {results[i] : i \in DOMAIN results}
<1>1. results \in Seq(SUBSET Matches)
  BY DEF TypeOK
<1>2. /\ DOMAIN Append(results, b) = 1..(Len(results) + 1) /\ Len(results) \in Nat
      /\ DOMAIN results = 1..Len(results)
      /\ \A i \in 1..Len(results) : Append(results, b)[i] = results[i]
      /\ Append(results, b)[Len(results) + 1] = b
  BY <1>1
<1>3. \A i \in 1..(Len(results) + 1) : i \in 1..Len(results) \/ i = Len(results) + 1
  BY <1>2
<1>4. Len(results) + 1 \in 1..(Len(results) + 1) /\ 1..Len(results) \subseteq 1..(Len(results) + 1)
  BY <1>2
<1>5. UNION {Append(results, b)[i] : i \in 1..(Len(results) + 1)}
         = b \cup UNION {results[i] : i \in 1..Len(results)}
  BY <1>2, <1>3, <1>4
<1> QED BY <1>2, <1>5

LEMMA BatchTaken ==
    ASSUME TypeOK, results # <<>>
    PROVE  /\ Len(results) \in Nat \ {0} /\ DOMAIN results = 1..Len(results)
           /\ DOMAIN Tail(results) = 1..(Len(results) - 1) /\ Head(results) = results[1]
           /\ \A i \in DOMAIN Tail(results) : Tail(results)[i] = results[i + 1]
           /\ UNION {results[i] : i \in DOMAIN results}
                = Head(results) \cup UNION {Tail(results)[i] : i \in DOMAIN Tail(results)}
<1>1. results \in Seq(SUBSET Matches)
  BY DEF TypeOK
<1>2. /\ Len(results) \in Nat \ {0} /\ DOMAIN results = 1..Len(results)
      /\ DOMAIN Tail(results) = 1..(Len(results) - 1) /\ Head(results) = results[1]
      /\ \A i \in 1..(Len(results) - 1) : Tail(results)[i] = results[i + 1]
  BY <1>1
<1>3. UNION {results[i] : i \in DOMAIN results}
         \subseteq Head(results) \cup UNION {Tail(results)[i] : i \in DOMAIN Tail(results)}
  <2>1. \A i \in 1..Len(results) : i = 1 \/ (i - 1 \in 1..(Len(results) - 1) /\ (i - 1) + 1 = i)
    BY <1>2
  <2> SUFFICES ASSUME NEW i \in 1..Len(results), NEW m \in results[i], i # 1
               PROVE  \E k \in DOMAIN Tail(results) : m \in Tail(results)[k]
    BY <1>2
  <2>2. i - 1 \in DOMAIN Tail(results) /\ Tail(results)[i - 1] = results[i]
    BY <1>2, <2>1
  <2> QED BY <2>2
<1>4. \A i \in 1..(Len(results) - 1) : i + 1 \in 1..Len(results)
  BY <1>2
<1>5. Head(results) \cup UNION {Tail(results)[i] : i \in DOMAIN Tail(results)}
         \subseteq UNION {results[i] : i \in DOMAIN results}
  BY <1>2, <1>4
<1> QED BY <1>2, <1>3, <1>5

LEMMA ApartInit == Init => ApartInv
<1> SUFFICES ASSUME Init PROVE ApartInv
  OBVIOUS
<1>1. DOMAIN jobs = {} /\ DOMAIN results = {} /\ \A w \in Workers : pc[w] = "recv" /\ found[w] = {}
  BY DEF Init
<1>2. out = {}
  BY DEF Init
<1> QED BY <1>1, <1>2 DEF ApartInv, FilesApart, SentApart, FoundApart, BatchesApart, Sent, Holds

LEMMA ApartStep == TypeInv /\ ApartInv /\ [Next]_vars => ApartInv'
<1> SUFFICES ASSUME TypeInv, ApartInv, [Next]_vars PROVE ApartInv'
  OBVIOUS
<1>0. TypeOK
  BY DEF TypeInv
<1> USE DEF ApartInv
<1>1. CASE Walk
  <2>1. UNCHANGED <<pc, job, found, results, out>>
    BY <1>1 DEF Walk, WalkSend, WalkStop, WalkError, WalkEnd, CloseJobs, workVars, mainVars
  <2>2. FoundApart' /\ BatchesApart' /\ Sent' = Sent
    BY <2>1 DEF FoundApart, BatchesApart, Sent
  <2>3. next \in Nat /\ jobs \in Seq(Files)
    BY <1>0, SizesAssumption DEF TypeOK
  <2>4. CASE WalkSend
    <3>1. next' = next + 1 /\ jobs' = Append(jobs, next)
      BY <2>4 DEF WalkSend
    <3>2. \A i \in DOMAIN jobs' : jobs'[i] = next \/ (i \in DOMAIN jobs /\ jobs'[i] = jobs[i])
      BY <2>3, <3>1
    <3>3. \A i, j \in DOMAIN jobs' : i # j => i \in DOMAIN jobs \/ j \in DOMAIN jobs
      BY <2>3, <3>1
    <3>4. \A i \in DOMAIN jobs : jobs'[i] = jobs[i] /\ jobs[i] \in Files
      BY <2>3, <3>1
    <3>5. FilesApart'
      <4>1. \A i \in DOMAIN jobs' : jobs'[i] < next'
        BY <2>3, <3>1, <3>2, <3>4 DEF FilesApart, Files
      <4>2. \A i, j \in DOMAIN jobs' : i # j => jobs'[i] # jobs'[j]
        BY <2>3, <3>1, <3>2, <3>3, <3>4 DEF FilesApart, Files
      <4>3. \A w \in Workers : Holds(w)' => Holds(w) /\ job'[w] = job[w] /\ job[w] \in Files
        BY <1>0, <2>1 DEF Holds, TypeOK
      <4>4. \A w \in Workers : Holds(w) => job[w] < next' /\ \A i \in DOMAIN jobs' : jobs'[i] # job[w]
        BY <2>1, <2>3, <3>1, <3>2, <4>3 DEF FilesApart, Files, Holds
      <4> QED BY <4>1, <4>2, <4>3, <4>4 DEF FilesApart
    <3>6. SentApart'
      <4>1. \A m \in Sent : m[1] \in Files
        BY <1>0 DEF Sent, TypeOK, Matches
      <4> QED BY <2>1, <2>2, <2>3, <3>1, <3>2, <4>1 DEF SentApart, Files, Holds
    <3> QED BY <2>2, <3>5, <3>6
  <2>5. CASE ~WalkSend
    <3>1. jobs' = jobs /\ next' \in {next, next + 1}
      BY <1>1, <2>5 DEF Walk, WalkStop, WalkError, WalkEnd, CloseJobs
    <3>2. FilesApart'
      <4>1. \A i \in DOMAIN jobs : jobs[i] \in Files
        BY <2>3
      <4>2. \A w \in Workers : Holds(w) => job[w] \in Files
        BY <1>0 DEF Holds, TypeOK
      <4> QED BY <2>1, <2>3, <3>1, <4>1, <4>2 DEF FilesApart, Files, Holds
    <3>3. SentApart'
      <4>1. \A m \in Sent : m[1] \in Files
        BY <1>0 DEF Sent, TypeOK, Matches
      <4> QED BY <2>1, <2>2, <2>3, <3>1, <4>1 DEF SentApart, Files, Holds
    <3> QED BY <2>2, <3>2, <3>3
  <2> QED BY <2>4, <2>5
<1>2. ASSUME NEW w \in Workers, Work(w) PROVE ApartInv'
  <2>1. UNCHANGED <<next, out>>
    BY <1>2 DEF Work, Recv, RecvClosed, GiveUp, SearchOk, SearchFails, SendError, AddBudget,
                SendResults, walkVars, mainVars
  <2>2. CASE Recv(w)
    <3>1. /\ pc[w] = "recv" /\ jobs # <<>> /\ job' = [job EXCEPT ![w] = Head(jobs)]
          /\ jobs' = Tail(jobs) /\ pc' = [pc EXCEPT ![w] = "check"]
          /\ UNCHANGED <<found, results>>
      BY <2>2 DEF Recv
    <3>2. pc \in [Workers -> PCs] /\ job \in [Workers -> Files \cup {0}] /\ jobs \in Seq(Files)
      BY <1>0 DEF TypeOK
    <3>3. /\ \A i \in DOMAIN jobs' : i + 1 \in DOMAIN jobs /\ jobs'[i] = jobs[i + 1] /\ i + 1 # 1
          /\ 1 \in DOMAIN jobs /\ Head(jobs) = jobs[1]
          /\ \A i, j \in DOMAIN jobs' : i # j => i + 1 # j + 1
      BY <3>1, <3>2
    <3>4. /\ pc'[w] = "check" /\ job'[w] = jobs[1]
          /\ \A v \in Workers : v # w => pc'[v] = pc[v] /\ job'[v] = job[v]
      BY <3>1, <3>2, <3>3
    <3>5. FoundApart' /\ BatchesApart' /\ Sent' = Sent
      BY <2>1, <3>1, <3>4 DEF FoundApart, BatchesApart, Sent
    <3>6. FilesApart'
      BY <2>1, <3>3, <3>4 DEF FilesApart, Holds
    <3>7. SentApart'
      BY <2>1, <3>3, <3>4, <3>5 DEF SentApart, Holds
    <3> QED BY <3>5, <3>6, <3>7
  <2>3. CASE SearchOk(w)
    <3>1. /\ pc[w] = "check" /\ UNCHANGED <<jobs, job, results>>
          /\ found' = [found EXCEPT ![w] = SearchFile(job[w], Limit - budget)]
          /\ pc' = [pc EXCEPT ![w] = IF found'[w] = {} THEN "recv" ELSE "add"]
      BY <2>3 DEF SearchOk
    <3>2. pc \in [Workers -> PCs] /\ found \in [Workers -> SUBSET Matches]
      BY <1>0 DEF TypeOK
    <3>3. /\ pc'[w] = IF found'[w] = {} THEN "recv" ELSE "add"
          /\ \A m \in found'[w] : m[1] = job[w]
          /\ \A v \in Workers : v # w => pc'[v] = pc[v] /\ found'[v] = found[v]
      BY <3>1, <3>2 DEF SearchFile
    <3>4. BatchesApart' /\ Sent' = Sent
      BY <2>1, <3>1 DEF BatchesApart, Sent
    <3>5. FoundApart'
      BY <3>1, <3>3 DEF FoundApart
    <3>6. \A v \in Workers : Holds(v)' => Holds(v)
      BY <3>1, <3>3 DEF Holds
    <3>7. FilesApart' /\ SentApart'
      BY <2>1, <3>1, <3>4, <3>6 DEF FilesApart, SentApart
    <3> QED BY <3>4, <3>5, <3>7
  <2>4. CASE SendResults(w)
    <3>1. /\ pc[w] = "send" /\ UNCHANGED <<jobs, job>> /\ results' = Append(results, found[w])
          /\ found' = [found EXCEPT ![w] = {}] /\ pc' = [pc EXCEPT ![w] = "recv"]
      BY <2>4 DEF SendResults
    <3>2. pc \in [Workers -> PCs] /\ found \in [Workers -> SUBSET Matches]
      BY <1>0 DEF TypeOK
    <3>3. /\ pc'[w] = "recv" /\ found'[w] = {}
          /\ \A v \in Workers : v # w => pc'[v] = pc[v] /\ found'[v] = found[v]
      BY <3>1, <3>2
    <3>4. FoundApart' /\ \A v \in Workers : Holds(v)' => Holds(v) /\ v # w
      BY <3>1, <3>3 DEF FoundApart, Holds
    <3>5. Sent' = Sent \cup found[w]
      BY <1>0, <2>1, <3>1, BatchSent DEF Sent
    <3>6. \A m \in found[w] : m[1] = job[w] /\ m \notin Sent
      BY <3>1 DEF FoundApart, SentApart, Holds
    <3>7. FilesApart'
      BY <2>1, <3>1, <3>4 DEF FilesApart
    <3>8. SentApart'
      <4>1. Holds(w)
        BY <3>1 DEF Holds
      <4>2. /\ job[w] < next /\ \A i \in DOMAIN jobs : jobs[i] # job[w]
            /\ \A v \in Workers : v # w /\ Holds(v) => job[v] # job[w]
        BY <4>1 DEF FilesApart
      <4> QED BY <2>1, <3>1, <3>4, <3>5, <3>6, <4>2 DEF SentApart
    <3>9. BatchesApart'
      <4> DEFINE n == Len(results) + 1
      <4>1. /\ DOMAIN results' = 1..n /\ results'[n] = found[w]
            /\ \A i \in DOMAIN results : results'[i] = results[i]
            /\ \A i \in 1..n : i = n \/ i \in DOMAIN results
        <5>1. results \in Seq(SUBSET Matches)
          BY <1>0 DEF TypeOK
        <5> QED BY <1>0, <3>1, <5>1, BatchSent
      <4>2. found[w] \cap out = {} /\ \A i \in DOMAIN results : results[i] \cap found[w] = {}
        BY <3>6 DEF Sent
      <4> HIDE DEF n
      <4> QED BY <2>1, <4>1, <4>2 DEF BatchesApart
    <3> QED BY <3>4, <3>7, <3>8, <3>9
  <2>5. CASE AddBudget(w) \/ RecvClosed(w) \/ GiveUp(w) \/ SearchFails(w) \/ SendError(w)
    <3>1. /\ UNCHANGED <<jobs, job, found, results>>
          /\ \E l \in {"send", "exited", "fail", "failed"} : pc' = [pc EXCEPT ![w] = l]
          /\ pc'[w] = "send" => pc[w] = "add"
          /\ pc[w] \in {"recv", "check", "add", "fail"}
          /\ pc[w] = "recv" => pc'[w] = "exited"
          /\ pc[w] = "add" => pc'[w] = "send"
      BY <1>0, <2>5 DEF AddBudget, RecvClosed, GiveUp, SearchFails, SendError, TypeOK
    <3>2. \A v \in Workers : v # w => pc'[v] = pc[v]
      BY <1>0, <3>1 DEF TypeOK
    <3>3. pc'[w] \in {"send", "exited", "fail", "failed"}
      BY <1>0, <3>1 DEF TypeOK
    <3>4. FoundApart' /\ BatchesApart' /\ Sent' = Sent
      BY <2>1, <3>1, <3>2, <3>3 DEF FoundApart, BatchesApart, Sent
    <3>5. \A v \in Workers : Holds(v)' => Holds(v)
      BY <3>1, <3>2, <3>3 DEF Holds
    <3>6. FilesApart' /\ SentApart'
      BY <2>1, <3>1, <3>4, <3>5 DEF FilesApart, SentApart
    <3> QED BY <3>4, <3>6
  <2> QED BY <1>2, <2>2, <2>3, <2>4, <2>5 DEF Work
<1>3. CASE Collect
  <2>1. /\ results # <<>> /\ out' = out \cup Head(results) /\ results' = Tail(results)
        /\ UNCHANGED <<next, jobs, pc, job, found>>
    BY <1>3 DEF Collect, walkVars, workVars
  <2>2. Sent' = Sent
    BY <1>0, <2>1, BatchTaken DEF Sent
  <2>3. FilesApart' /\ SentApart' /\ FoundApart'
    BY <2>1, <2>2 DEF FilesApart, SentApart, FoundApart, Holds
  <2>4. BatchesApart'
    <3>1. \A i \in DOMAIN results' : i + 1 \in DOMAIN results /\ results'[i] = results[i + 1] /\ i + 1 # 1
      BY <1>0, <2>1, BatchTaken
    <3>2. 1 \in DOMAIN results /\ Head(results) = results[1]
      BY <1>0, <2>1, BatchTaken
    <3>3. \A i, j \in DOMAIN results' : i # j => i + 1 # j + 1
      BY <1>0, <2>1, BatchTaken
    <3> QED BY <2>1, <3>1, <3>2, <3>3 DEF BatchesApart
  <2> QED BY <2>3, <2>4
<1>4. CASE CloseResults \/ CollectDone \/ TakeError \/ Return \/ UNCHANGED vars
  <2>1. UNCHANGED <<next, jobs, pc, job, found, results, out>>
    BY <1>4 DEF CloseResults, CollectDone, TakeError, Return, vars, walkVars, workVars, mainVars
  <2> QED BY <2>1 DEF FilesApart, SentApart, FoundApart, BatchesApart, Sent, Holds
<1> QED BY <1>1, <1>2, <1>3, <1>4 DEF Next, Caller

-----------------------------------------------------------------------------
(* How the matches counted and the matches held change *)

\* A file just searched is nobody else's: what is found in it is new.
LEMMA FoundIsNew ==
    ASSUME TypeInv, ApartInv, NEW w \in Workers, Holds(w), NEW S, \A m \in S : m[1] = job[w]
    PROVE  /\ Sent \cap S = {}
           /\ \A v \in Workers : v # w => found[v] \cap S = {}
<1>1. Sent \cap S = {}
  BY DEF ApartInv, SentApart
<1>2. ASSUME NEW v \in Workers, v # w PROVE found[v] \cap S = {}
  <2>1. CASE pc[v] \in {"add", "send"}
    <3>1. Holds(v) /\ \A m \in found[v] : m[1] = job[v]
      BY <2>1 DEF ApartInv, FoundApart, Holds
    <3>2. job[v] # job[w]
      BY <1>2, <3>1 DEF ApartInv, FilesApart
    <3> QED BY <3>1, <3>2
  <2>2. CASE pc[v] \notin {"add", "send"}
    BY <2>2 DEF ApartInv, FoundApart
  <2> QED BY <2>1, <2>2
<1> QED BY <1>1, <1>2

\* A match is counted when it has been sent or is with a worker about to send it.
CountedOrNot == \A m : m \in Counted <=> \/ m \in Sent
                                         \/ \E w \in Workers : pc[w] = "send" /\ m \in found[w]

LEMMA CountedMember == CountedOrNot /\ CountedOrNot'
<1>1. CountedOrNot
  BY DEF CountedOrNot, Counted, Sent
<1> QED BY <1>1, PTL

\* Only counting a batch changes the matches counted, only a search those held.
LEMMA SetsStep ==
    ASSUME TypeInv, ApartInv, [Next]_vars
    PROVE  /\ (\A w \in Workers : ~AddBudget(w)) => Counted' = Counted
           /\ \A w \in Workers : AddBudget(w) =>
                 Counted' = Counted \cup found[w] /\ Counted \cap found[w] = {}
           /\ (\A w \in Workers : ~SearchOk(w)) => Held' = Held
           /\ \A w \in Workers : SearchOk(w) =>
                 Held' = Held \cup found'[w] /\ Counted \cap found'[w] = {}
<1> USE DEF TypeInv
<1>0. pc \in [Workers -> PCs] /\ found \in [Workers -> SUBSET Matches]
  BY DEF TypeOK
<1> USE CountedMember DEF CountedOrNot
<1>1. CASE UNCHANGED <<pc, found, results, out>>
  <2>1. \A w \in Workers : ~AddBudget(w) /\ ~SearchOk(w)
    BY <1>0, <1>1 DEF AddBudget, SearchOk
  <2> QED BY <1>1, <2>1 DEF Counted, Held, Sent
<1>2. ASSUME NEW w \in Workers, Work(w)
      PROVE  /\ ~AddBudget(w) => Counted' = Counted
             /\ AddBudget(w) => Counted' = Counted \cup found[w] /\ Counted \cap found[w] = {}
             /\ ~SearchOk(w) => Held' = Held
             /\ SearchOk(w) => Held' = Held \cup found'[w] /\ Counted \cap found'[w] = {}
             /\ \A v \in Workers : v # w => ~AddBudget(v) /\ ~SearchOk(v)
  <2>1. \E l \in PCs : pc' = [pc EXCEPT ![w] = l] /\ l # pc[w]
    <3>1. CASE SearchOk(w)
      <4>1. pc' = [pc EXCEPT ![w] = "recv"] \/ pc' = [pc EXCEPT ![w] = "add"]
        BY <3>1 DEF SearchOk
      <4>2. pc[w] = "check"
        BY <3>1 DEF SearchOk
      <4> QED BY <4>1, <4>2 DEF PCs
    <3>2. CASE ~SearchOk(w)
      BY <1>2, <3>2 DEF Work, Recv, RecvClosed, GiveUp, SearchFails, SendError, AddBudget,
                        SendResults, PCs
    <3> QED BY <3>1, <3>2
  <2>2. /\ pc'[w] # pc[w] /\ pc' \in [Workers -> PCs]
        /\ \A v \in Workers : v # w => pc'[v] = pc[v]
    BY <1>0, <2>1
  <2>3. \A v \in Workers : v # w => ~AddBudget(v) /\ ~SearchOk(v)
    BY <1>0, <2>2 DEF AddBudget, SearchOk, PCs
  <2>4. out' = out
    BY <1>2 DEF Work, Recv, RecvClosed, GiveUp, SearchOk, SearchFails, SendError, AddBudget,
                SendResults, mainVars
  <2>5. CASE AddBudget(w)
    <3>1. pc[w] = "add" /\ pc'[w] = "send" /\ UNCHANGED <<found, results>>
      BY <1>0, <2>5 DEF AddBudget
    <3>2. Sent' = Sent /\ Held' = Held
      BY <2>4, <3>1 DEF Sent, Held
    <3>3. \A m : m \in Counted' <=> m \in Counted \/ m \in found[w]
      BY <2>2, <3>1, <3>2
    <3>4. Counted' = Counted \cup found[w]
      BY <3>3
    <3>5. Sent \cap found[w] = {} /\ \A v \in Workers : v # w => found[v] \cap found[w] = {}
      BY <3>1, FoundIsNew DEF ApartInv, FoundApart, Holds
    <3>6. Counted \cap found[w] = {}
      BY <3>1, <3>5
    <3> QED BY <2>3, <2>5, <3>1, <3>2, <3>4, <3>6 DEF SearchOk
  <2>6. CASE SearchOk(w)
    <3>1. /\ pc[w] = "check" /\ pc'[w] \in {"recv", "add"} /\ UNCHANGED <<results, job>>
          /\ \A v \in Workers : v # w => found'[v] = found[v]
          /\ found'[w] = SearchFile(job[w], Limit - budget)
      BY <1>0, <2>6 DEF SearchOk
    <3>2. found[w] = {} /\ Holds(w) /\ \A m \in found'[w] : m[1] = job[w]
      BY <3>1 DEF ApartInv, FoundApart, Holds, SearchFile
    <3>3. Sent' = Sent
      BY <2>4, <3>1 DEF Sent
    <3>4. Held' = Held \cup found'[w]
      BY <3>1, <3>2, <3>3 DEF Held
    <3>5. \A m : m \in Counted' <=> m \in Counted
      BY <2>2, <3>1, <3>3
    <3>6. Counted' = Counted
      BY <3>5
    <3>7. Counted \cap found'[w] = {}
      <4> DEFINE T == found'[w]
      <4>2. Holds(w) /\ \A m \in T : m[1] = job[w]
        BY <3>2
      <4> HIDE DEF T
      <4>3. Sent \cap T = {} /\ \A v \in Workers : v # w => found[v] \cap T = {}
        BY <4>2, FoundIsNew
      <4>1. Sent \cap found'[w] = {} /\ \A v \in Workers : v # w => found[v] \cap found'[w] = {}
        BY <4>3 DEF T
      <4> QED BY <3>1, <4>1
    <3> QED BY <2>3, <2>6, <3>1, <3>4, <3>6, <3>7 DEF AddBudget
  <2>7. CASE SendResults(w)
    <3>1. /\ pc[w] = "send" /\ pc'[w] = "recv" /\ results' = Append(results, found[w])
          /\ found'[w] = {} /\ \A v \in Workers : v # w => found'[v] = found[v]
      BY <1>0, <2>7 DEF SendResults
    <3>2. Sent' = Sent \cup found[w]
      BY <2>4, <3>1, BatchSent DEF Sent
    <3>3. Held' = Held
      BY <3>1, <3>2 DEF Held
    <3>4. \A m : m \in Counted' <=> m \in Counted
      BY <2>2, <3>1, <3>2
    <3>5. Counted' = Counted
      BY <3>4
    <3> QED BY <2>3, <3>1, <3>3, <3>5 DEF AddBudget, SearchOk
  <2>8. CASE Recv(w) \/ RecvClosed(w) \/ GiveUp(w) \/ SearchFails(w) \/ SendError(w)
    <3>1. UNCHANGED <<found, results>> /\ pc[w] # "send" /\ pc'[w] \notin {"send", "add"}
      BY <1>0, <2>8 DEF Recv, RecvClosed, GiveUp, SearchFails, SendError
    <3>2. ~AddBudget(w)
      BY <1>0, <3>1 DEF AddBudget
    <3>3. ~SearchOk(w)
      BY <1>0, <2>8 DEF Recv, RecvClosed, GiveUp, SearchFails, SendError, SearchOk
    <3>4. Sent' = Sent /\ Held' = Held
      BY <2>4, <3>1 DEF Held, Sent
    <3>5. Counted' = Counted
      <4>1. \A m : m \in Counted' <=> m \in Counted
        BY <2>2, <3>1, <3>4
      <4> QED BY <4>1
    <3> QED BY <2>3, <3>2, <3>3, <3>4, <3>5
  <2> QED BY <1>2, <2>5, <2>6, <2>7, <2>8 DEF Work
<1>3. CASE Collect
  <2>1. /\ results # <<>> /\ out' = out \cup Head(results) /\ results' = Tail(results)
        /\ UNCHANGED <<pc, found>>
    BY <1>3 DEF Collect, workVars
  <2>2. Sent' = Sent
    BY <2>1, BatchTaken DEF Sent
  <2>3. \A w \in Workers : ~AddBudget(w) /\ ~SearchOk(w)
    BY <1>0, <2>1 DEF AddBudget, SearchOk
  <2>4. Counted' = Counted /\ Held' = Held
    BY <1>0, <2>1, <2>2 DEF Counted, Held, Sent
  <2> QED BY <2>3, <2>4
<1>4. CASE Walk \/ CloseResults \/ CollectDone \/ TakeError \/ Return \/ UNCHANGED vars
  <2>1. UNCHANGED <<pc, found, results, out>>
    BY <1>4 DEF Walk, WalkSend, WalkStop, WalkError, WalkEnd, CloseJobs, CloseResults, CollectDone,
                TakeError, Return, vars, workVars, mainVars
  <2> QED BY <1>1, <2>1
<1> QED BY <1>2, <1>3, <1>4 DEF Next, Caller


-----------------------------------------------------------------------------
(* The budget is the number of matches counted *)

LEMMA NumbersInit == Init => Numbers
<1> SUFFICES ASSUME Init PROVE Numbers
  OBVIOUS
<1>1. DOMAIN results = {} /\ out = {} /\ \A w \in Workers : pc[w] # "send"
  BY DEF Init
<1>2. \A m : m \notin Counted
  BY <1>1, CountedMember DEF CountedOrNot, Sent
<1>3. Counted = {}
  BY <1>2
<1>4. Cardinality({}) = 0 /\ IsFiniteSet({})
  BY FS_EmptySet
<1>5. budget = 0 /\ count = 0
  BY DEF Init
<1> QED BY <1>1, <1>3, <1>4, <1>5 DEF Numbers, BudgetExact

LEMMA NumbersStep == TypeInv /\ ApartInv /\ Numbers /\ [Next]_vars => Numbers'
<1> SUFFICES ASSUME TypeInv, ApartInv, Numbers, [Next]_vars PROVE Numbers'
  OBVIOUS
<1> USE DEF Numbers, BudgetExact, TypeInv
<1>1. CASE \E w \in Workers : AddBudget(w)
  <2>1. PICK w \in Workers : AddBudget(w)
    BY <1>1
  <2>2. budget' = budget + Cardinality(found[w]) /\ UNCHANGED <<out, count>>
    BY <2>1 DEF AddBudget, mainVars
  <2>3. Counted' = Counted \cup found[w] /\ Counted \cap found[w] = {}
    BY <2>1, SetsStep
  <2>4. IsFiniteSet(found[w])
    BY DEF BatchesFinite
  <2>5. IsFiniteSet(Counted') /\ Cardinality(Counted') = Cardinality(Counted) + Cardinality(found[w])
    BY <2>3, <2>4, TogetherAtMost
  <2> QED BY <2>2, <2>5
<1>2. CASE \A w \in Workers : ~AddBudget(w)
  <2>1. Counted' = Counted
    BY <1>2, SetsStep
  <2>2. CASE Collect
    <3>1. /\ results # <<>> /\ out' = out \cup Head(results) /\ UNCHANGED budget
          /\ count' = count + Cardinality(Head(results))
      BY <2>2 DEF Collect, workVars
    <3>2. 1 \in DOMAIN results /\ Head(results) = results[1]
      BY <3>1, BatchTaken
    <3>3. Head(results) \cap out = {} /\ IsFiniteSet(Head(results))
      BY <3>2 DEF ApartInv, BatchesApart, BatchesFinite
    <3>4. IsFiniteSet(out') /\ Cardinality(out') = Cardinality(out) + Cardinality(Head(results))
      BY <3>1, <3>3, TogetherAtMost
    <3> QED BY <2>1, <3>1, <3>4
  <2>3. CASE ~Collect
    <3>1. UNCHANGED <<budget, out, count>>
      BY <1>2, <2>3 DEF Next, Walk, WalkSend, WalkStop, WalkError, WalkEnd, CloseJobs, Work, Recv,
         RecvClosed, GiveUp, SearchOk, SearchFails, SendError, SendResults, CloseResults, Caller,
         CollectDone, TakeError, Return, vars, workVars, mainVars
    <3> QED BY <2>1, <3>1
  <2> QED BY <2>2, <2>3
<1> QED BY <1>1, <1>2

\* What has been counted is held, so the budget bounds it from below.
LEMMA CountedIsHeld == Numbers /\ IsFiniteSet(Held) => Counted \subseteq Held /\ budget <= Cardinality(Held)
<1> SUFFICES ASSUME Numbers, IsFiniteSet(Held)
             PROVE  Counted \subseteq Held /\ budget <= Cardinality(Held)
  OBVIOUS
<1>1. Counted \subseteq Held
  BY CountedMember DEF CountedOrNot, Held
<1>2. Cardinality(Counted) <= Cardinality(Held)
  BY <1>1, FS_Subset
<1> QED BY <1>1, <1>2 DEF Numbers, BudgetExact

-----------------------------------------------------------------------------
(* No more is fetched than a page for each worker *)

LEMMA FetchInit == Init => FetchInv
<1> SUFFICES ASSUME Init PROVE FetchInv
  OBVIOUS
<1>1. DOMAIN results = {} /\ out = {} /\ \A w \in Workers : found[w] = {}
  BY DEF Init
<1>2. Held = {}
  BY <1>1 DEF Held, Sent
<1>3. Cardinality({}) = 0 /\ IsFiniteSet({})
  BY FS_EmptySet
<1>4. 0 <= Limit /\ 0 <= Cardinality(Workers) * Limit
  BY SizesAssumption, Capacities
<1> QED BY <1>1, <1>2, <1>3, <1>4 DEF FetchInv

LEMMA FetchStep ==
    TypeInv /\ ApartInv /\ Numbers /\ FetchInv /\ [Next]_vars => FetchInv'
<1> SUFFICES ASSUME TypeInv, ApartInv, Numbers, FetchInv, [Next]_vars PROVE FetchInv'
  OBVIOUS
<1>0. /\ Limit \in Nat /\ budget \in Nat /\ found \in [Workers -> SUBSET Matches]
      /\ Cardinality({}) = 0
  BY SizesAssumption, FS_EmptySet DEF TypeInv, TypeOK
<1>1. CASE \E w \in Workers : SearchOk(w)
  <2>1. PICK w \in Workers : SearchOk(w)
    BY <1>1
  <2>2. /\ pc[w] = "check" /\ budget < Limit
        /\ found' = [found EXCEPT ![w] = SearchFile(job[w], Limit - budget)]
    BY <2>1 DEF SearchOk
  <2>3. Held' = Held \cup found'[w]
    BY <2>1, SetsStep
  <2>4. job[w] \in Files /\ tree \in Trees /\ Limit - budget \in 1..Limit
    BY <1>0, <2>2 DEF TypeInv, TypeOK
  <2>5. IsFiniteSet(found'[w]) /\ Cardinality(found'[w]) \in Nat /\ Cardinality(found'[w]) <= Limit - budget
    BY <1>0, <2>2, <2>4, SearchFileSize, SearchFileType
  <2> DEFINE adding == {v \in Workers : pc[v] = "add"}
             uncounted == UNION {found[v] : v \in adding}
  <2>6. /\ IsFiniteSet(adding) /\ Cardinality(adding) \in Nat /\ Cardinality(Workers) \in Nat
        /\ Cardinality(adding) + 1 <= Cardinality(Workers)
    <3>1. IsFiniteSet(adding) /\ w \notin adding /\ adding \cup {w} \in SUBSET Workers
      BY <2>2, WorkersAssumption, FS_Subset
    <3> HIDE DEF adding
    <3>2. Cardinality(adding \cup {w}) = Cardinality(adding) + 1
      BY <3>1, FS_AddElement
    <3>3. Cardinality(adding \cup {w}) <= Cardinality(Workers)
      BY <3>1, WorkersAssumption, FS_Subset
    <3> QED BY <3>1, <3>2, <3>3, WorkersAssumption, FS_CardinalityType
  <2>7. IsFiniteSet(uncounted) /\ Cardinality(uncounted) <= Cardinality(adding) * Limit
    <3>1. \A v \in adding : IsFiniteSet(found[v]) /\ Cardinality(found[v]) <= Limit
      BY DEF FetchInv, TypeInv, BatchesFinite
    <3> HIDE DEF adding
    <3> QED BY <1>0, <2>6, <3>1, UnionSize
  <2>8. Held = Counted \cup uncounted
    <3>1. \A m, v : v \in Workers /\ m \in found[v] => pc[v] \in {"add", "send"}
      BY DEF ApartInv, FoundApart
    <3>2. \A m : m \in Held <=> m \in Counted \/ m \in uncounted
      BY <3>1, CountedMember DEF CountedOrNot, Held
    <3> QED BY <3>2
  <2>9. /\ IsFiniteSet(Held')
        /\ Cardinality(Held') <= (budget + Cardinality(adding) * Limit) + (Limit - budget)
    <3>1. IsFiniteSet(Counted) /\ budget = Cardinality(Counted)
      BY DEF Numbers, BudgetExact
    <3> HIDE DEF uncounted, adding
    <3>2. /\ IsFiniteSet(Held) /\ Cardinality(Held) <= budget + Cardinality(uncounted)
          /\ Cardinality(Held) \in Nat
      BY <2>7, <2>8, <3>1, TogetherAtMost
    <3>3. /\ IsFiniteSet(Held') /\ Cardinality(Held') <= Cardinality(Held) + Cardinality(found'[w])
          /\ Cardinality(Held') \in Nat
      BY <2>3, <2>5, <3>2, TogetherAtMost
    <3>4. Cardinality(uncounted) \in Nat /\ Cardinality(adding) * Limit \in Nat
      BY <1>0, <2>6, <2>7, FS_CardinalityType
    <3> QED BY <1>0, <2>5, <2>7, <3>2, <3>3, <3>4
  <2>10. Cardinality(Held') <= Cardinality(Workers) * Limit
    <3>1. Cardinality(Held') \in Nat
      BY <2>9, FS_CardinalityType
    <3> HIDE DEF adding
    <3>2. \A a, c, k \in Nat : a + 1 <= c => a * k + k <= c * k
      OBVIOUS
    <3>3. Cardinality(adding) * Limit + Limit <= Cardinality(Workers) * Limit
      BY <1>0, <2>6, <3>2
    <3>4. Cardinality(adding) * Limit \in Nat /\ Cardinality(Workers) * Limit \in Nat
      BY <1>0, <2>6
    <3> QED BY <1>0, <2>9, <3>1, <3>3, <3>4
  <2>11. \A v \in Workers : Cardinality(found'[v]) <= Limit
    <3> TAKE v \in Workers
    <3>1. CASE v = w
      BY <1>0, <2>2, <2>5, <3>1
    <3>2. CASE v # w
      BY <1>0, <2>2, <3>2 DEF FetchInv
    <3> QED BY <3>1, <3>2
  <2> QED BY <2>9, <2>10, <2>11 DEF FetchInv
<1>2. CASE \A w \in Workers : ~SearchOk(w)
  <2>1. Held' = Held
    BY <1>2, SetsStep
  <2>2. \A w \in Workers : found'[w] \in {found[w], {}}
    <3>1. CASE \E w \in Workers : SendResults(w)
      BY <1>0, <3>1 DEF SendResults
    <3>2. CASE \A w \in Workers : ~SendResults(w)
      BY <1>2, <3>2 DEF Next, Walk, WalkSend, WalkStop, WalkError, WalkEnd, CloseJobs, Work, Recv,
         RecvClosed, GiveUp, SearchFails, SendError, AddBudget, CloseResults, Caller,
         Collect, CollectDone, TakeError, Return, vars, workVars
    <3> QED BY <3>1, <3>2
  <2>3. \A w \in Workers : Cardinality(found'[w]) <= Limit
    <3>1. Cardinality({}) <= Limit
      BY <1>0
    <3>2. \A w \in Workers : Cardinality(found[w]) <= Limit
      BY DEF FetchInv
    <3> QED BY Zenon, <2>2, <3>1, <3>2
  <2> QED BY <2>1, <2>3 DEF FetchInv
<1> QED BY <1>1, <1>2

LEMMA CountedInvariant == Spec => [](TypeInv /\ EndInv /\ ApartInv /\ Numbers /\ FetchInv)
<1>1. Init => TypeInv /\ EndInv /\ ApartInv /\ Numbers /\ FetchInv
  BY TypeInit, EndInit, ApartInit, NumbersInit, FetchInit
<1>2. (TypeInv /\ EndInv /\ ApartInv /\ Numbers /\ FetchInv) /\ [Next]_vars
        => (TypeInv /\ EndInv /\ ApartInv /\ Numbers /\ FetchInv)'
  BY TypeStep, EndStep, ApartStep, NumbersStep, FetchStep
<1> QED BY <1>1, <1>2, PTL DEF Spec

\* The shared counter is the number of distinct matches found and the page counter that
\* of the matches collected, whatever the order in which workers add, send and are
\* collected: none is counted twice, lost, or found by two workers (scanner.go:97-117).
THEOREM BudgetIsExact == Spec => []BudgetExact
<1>1. Numbers => BudgetExact
  BY DEF Numbers
<1> QED BY <1>1, CountedInvariant, PTL

\* Workers that read the counter before others have added to it fetch too much, but never
\* more than a page each, however many files they search (scanner.go:97-98).
THEOREM FetchIsBounded == Spec => []FetchBound
<1>1. TypeInv /\ Numbers /\ FetchInv => FetchBound
  <2> SUFFICES ASSUME TypeInv, Numbers, FetchInv PROVE FetchBound
    OBVIOUS
  <2>1. /\ budget <= Cardinality(Held) /\ Cardinality(Held) <= Cardinality(Workers) * Limit
        /\ IsFiniteSet(Held)
    BY CountedIsHeld DEF FetchInv
  <2>2. /\ budget \in Nat /\ Cardinality(Held) \in Nat /\ Limit \in Nat
        /\ Cardinality(Workers) * Limit \in Nat
    BY <2>1, FS_CardinalityType, SizesAssumption, Capacities DEF TypeInv, TypeOK
  <2> QED BY <2>1, <2>2 DEF FetchBound
<1> QED BY <1>1, CountedInvariant, PTL


-----------------------------------------------------------------------------
(* A short page is the whole answer *)

LEMMA ReasonsInit == Init => ExitReasons
  BY DEF Init, ExitReasons

LEMMA ReasonsStep == TypeInv /\ EndInv /\ ExitReasons /\ [Next]_vars => ExitReasons'
<1> SUFFICES ASSUME TypeInv, EndInv, ExitReasons, [Next]_vars PROVE ExitReasons'
  OBVIOUS
<1> USE DEF ExitReasons
<1>0. /\ pc \in [Workers -> PCs] /\ budget \in Nat /\ count \in Nat /\ Limit \in Nat
      /\ \A w \in Workers : Cardinality(found[w]) \in Nat
  BY SizesAssumption, FS_CardinalityType DEF TypeInv, TypeOK, BatchesFinite
<1>1. CASE Walk
  <2>1. UNCHANGED <<pc, budget, stop, count, main, results, firstErr, page, out>>
    BY <1>1 DEF Walk, WalkSend, WalkStop, WalkError, WalkEnd, CloseJobs, workVars, mainVars
  <2>2. walker' # "walk" => next' = N + 1 \/ stop
    BY <1>1 DEF Walk, WalkSend, WalkStop, WalkError, WalkEnd, CloseJobs, Visiting
  <2>3. walker = "done" /\ jobs = <<>> => walker' = "done" /\ jobs' = <<>>
    BY <1>1 DEF Walk, WalkSend, WalkStop, WalkError, WalkEnd, CloseJobs, Visiting
  <2> QED BY <2>1, <2>2, <2>3
<1>2. ASSUME NEW w \in Workers, Work(w) PROVE ExitReasons'
  <2>1. UNCHANGED <<walker, next, main, out, count, firstErr, page, stop>>
    BY <1>2 DEF Work, Recv, RecvClosed, GiveUp, SearchOk, SearchFails, SendError, AddBudget,
                SendResults, walkVars, mainVars
  <2>2. budget' \in Nat /\ budget' >= budget
    BY <1>0, <1>2 DEF Work, Recv, RecvClosed, GiveUp, SearchOk, SearchFails, SendError, AddBudget,
                SendResults
  <2>3. jobs = <<>> => jobs' = <<>>
    BY <1>2 DEF Work, Recv, RecvClosed, GiveUp, SearchOk, SearchFails, SendError, AddBudget,
                SendResults
  <2>4. /\ \A v \in Workers : v # w => pc'[v] = pc[v]
        /\ pc'[w] = "exited" => budget >= Limit \/ (walker = "done" /\ jobs = <<>>)
    <3>1. CASE SearchOk(w)
      BY <1>0, <3>1 DEF SearchOk
    <3>2. CASE ~SearchOk(w)
      BY <1>0, <1>2, <3>2 DEF Work, Recv, RecvClosed, GiveUp, SearchFails, SendError, AddBudget,
                SendResults
    <3> QED BY <3>1, <3>2
  <2>5. main # "collect" => results' = <<>>
    <3>1. ~Gone(w)
      BY <1>2 DEF Gone, Work, Recv, RecvClosed, GiveUp, SearchOk, SearchFails, SendError,
                  AddBudget, SendResults
    <3>2. main = "collect"
      BY <3>1 DEF EndInv, EndInOrder
    <3> QED BY <3>2
  <2>6. \A v \in Workers : pc'[v] = "exited" => budget' >= Limit \/ (walker' = "done" /\ jobs' = <<>>)
    BY <1>0, <2>1, <2>2, <2>3, <2>4
  <2> QED BY <2>1, <2>5, <2>6
<1>3. CASE Collect
  <2>1. /\ UNCHANGED <<walker, next, jobs, pc, budget, main, firstErr, page>>
        /\ main = "collect" /\ stop' = (stop \/ count' >= Limit)
        /\ count' = count + Cardinality(Head(results)) /\ results # <<>>
    BY <1>3 DEF Collect, walkVars, workVars
  <2>2. Cardinality(Head(results)) \in Nat
    BY <2>1, BatchTaken, FS_CardinalityType DEF TypeInv, BatchesFinite
  <2>3. stop' => count' >= Limit
    <3>1. count' >= count /\ count' \in Nat
      BY <1>0, <2>1, <2>2
    <3>2. CASE stop
      <4>1. count >= Limit
        BY <3>2
      <4> QED BY <1>0, <3>1, <4>1
    <3>3. CASE ~stop
      BY <2>1, <3>3
    <3> QED BY <3>2, <3>3
  <2> QED BY <2>1, <2>3
<1>4. CASE CollectDone
  BY <1>4 DEF CollectDone, walkVars, workVars
<1>5. CASE TakeError
  BY <1>5 DEF TakeError, walkVars
<1>6. CASE Return
  BY <1>6 DEF Return, walkVars, workVars
<1>7. CASE CloseResults \/ UNCHANGED vars
  BY <1>7 DEF CloseResults, vars, walkVars, workVars, mainVars
<1> QED BY <1>1, <1>2, <1>3, <1>4, <1>5, <1>6, <1>7 DEF Next, Caller

LEMMA WhereaboutsInit == Init => Whereabouts
<1> SUFFICES ASSUME Init PROVE Whereabouts
  OBVIOUS
<1>1. \A f \in Files : ~(f < next)
  BY SizesAssumption DEF Init, Files
<1> QED BY <1>1 DEF Whereabouts

LEMMA WhereaboutsStep ==
    TypeInv /\ ApartInv /\ Numbers /\ FetchInv /\ FetchInv' /\ Whereabouts /\ [Next]_vars
        => Whereabouts'
<1> SUFFICES ASSUME TypeInv, ApartInv, Numbers, FetchInv, FetchInv', Whereabouts, [Next]_vars,
                    HitsApart(tree)', ~(Cardinality(Held) >= Limit)',
                    NEW f \in Files, f < next', tree'[f].kind = "file"
             PROVE  Placed(f)'
  BY DEF Whereabouts, Placed
<1> USE DEF TypeInv
<1>0. /\ pc \in [Workers -> PCs] /\ job \in [Workers -> Files \cup {0}]
      /\ found \in [Workers -> SUBSET Matches] /\ budget \in Nat /\ Limit \in Nat
      /\ jobs \in Seq(Files) /\ next \in Nat
  BY SizesAssumption DEF TypeOK
<1>1. tree' = tree
  BY DEF Next, Walk, WalkSend, WalkStop, WalkError, WalkEnd, CloseJobs, Work, Recv, RecvClosed,
         GiveUp, SearchOk, SearchFails, SendError, AddBudget, SendResults, CloseResults, Caller,
         Collect, CollectDone, TakeError, Return, vars
<1>2. \A r : SearchFile(f, r)' = SearchFile(f, r)
  BY <1>1 DEF SearchFile
<1>3. Held \subseteq Held'
  <2>1. CASE \E w \in Workers : SearchOk(w)
    BY <2>1, SetsStep
  <2>2. CASE \A w \in Workers : ~SearchOk(w)
    BY <2>2, SetsStep
  <2> QED BY <2>1, <2>2
<1>4. /\ Cardinality(Held) <= Cardinality(Held') /\ Cardinality(Held) \in Nat
      /\ Cardinality(Held') \in Nat /\ Cardinality(Held') < Limit
  <2>1. IsFiniteSet(Held') /\ IsFiniteSet(Held)
    BY DEF FetchInv
  <2>2. Cardinality(Held') \in Nat /\ Cardinality(Held) \in Nat
    BY <2>1, FS_CardinalityType
  <2> QED BY <1>0, <1>3, <2>1, <2>2, FS_Subset
<1>5. f < next => Placed(f)
  BY <1>0, <1>1, <1>4 DEF Whereabouts, Placed
<1>6. budget < Limit
  <2>1. budget <= Cardinality(Held)
    BY CountedIsHeld DEF FetchInv
  <2> QED BY <1>0, <1>4, <2>1
<1>7. CASE UNCHANGED <<next, jobs, pc, job>>
  BY <1>2, <1>3, <1>5, <1>7 DEF Placed
<1>8. CASE WalkSend
  <2>1. jobs' = Append(jobs, next) /\ next' = next + 1 /\ UNCHANGED <<pc, job>>
    BY <1>8 DEF WalkSend, workVars
  <2>2. \A i \in DOMAIN jobs : i \in DOMAIN jobs' /\ jobs'[i] = jobs[i]
    BY <1>0, <2>1
  <2>3. Len(jobs) + 1 \in DOMAIN jobs' /\ jobs'[Len(jobs) + 1] = next
    BY <1>0, <2>1
  <2>4. CASE f < next
    BY <1>2, <1>3, <1>5, <2>1, <2>2, <2>4 DEF Placed
  <2>5. CASE ~(f < next)
    <3>1. f = next
      BY <1>0, <2>1, <2>5 DEF Files
    <3> QED BY <2>3, <3>1 DEF Placed
  <2> QED BY <2>4, <2>5
<1>9. CASE WalkError
  <2>1. tree[next].kind = "baddir" /\ next' = next + 1 /\ UNCHANGED <<jobs, pc, job>>
    BY <1>9 DEF WalkError, Visiting, workVars
  <2>2. f < next
    BY <1>0, <1>1, <2>1 DEF Files
  <2> QED BY <1>2, <1>3, <1>5, <2>1, <2>2 DEF Placed
<1>10. ASSUME NEW w \in Workers, Work(w) PROVE Placed(f)'
  <2>1. next' = next /\ Placed(f)
    BY <1>5, <1>10 DEF Work, Recv, RecvClosed, GiveUp, SearchOk, SearchFails, SendError, AddBudget,
                 SendResults, walkVars
  <2>2. CASE Recv(w)
    <3>1. /\ jobs # <<>> /\ job' = [job EXCEPT ![w] = Head(jobs)] /\ jobs' = Tail(jobs)
          /\ pc[w] = "recv" /\ pc' = [pc EXCEPT ![w] = "check"]
      BY <2>2 DEF Recv
    <3>2. /\ pc'[w] = "check" /\ job'[w] = jobs[1]
          /\ \A v \in Workers : v # w => pc'[v] = pc[v] /\ job'[v] = job[v]
      BY <1>0, <3>1
    <3>3. \A i \in DOMAIN jobs : i = 1 \/ (i - 1 \in DOMAIN jobs' /\ jobs'[i - 1] = jobs[i])
      BY <1>0, <3>1
    <3> QED BY <1>2, <1>3, <2>1, <3>1, <3>2, <3>3 DEF Placed
  <2>3. CASE SearchOk(w)
    <3>1. /\ UNCHANGED <<jobs, job>> /\ pc[w] = "check"
          /\ \A v \in Workers : v # w => pc'[v] = pc[v]
          /\ found'[w] = SearchFile(job[w], Limit - budget)
      BY <1>0, <2>3 DEF SearchOk
    <3>2. CASE f = job[w]
      <4>1. Limit - budget \in 1..Limit /\ tree \in Trees /\ HitsApart(tree)
        BY <1>0, <1>1, <1>6 DEF TypeOK, HitsApart, Files
      <4>2. found'[w] = SearchFile(f, Limit) \/ Cardinality(found'[w]) = Limit - budget
        BY <3>1, <3>2, <4>1, SearchFileSize
      <4>3. Held' = Held \cup found'[w] /\ Counted \cap found'[w] = {}
        BY <2>3, SetsStep
      <4>4. ASSUME Cardinality(found'[w]) = Limit - budget PROVE FALSE
        <5>1. IsFiniteSet(found'[w]) /\ IsFiniteSet(Counted) /\ budget = Cardinality(Counted)
          BY <3>1, <3>2, <4>1, SearchFileType DEF Numbers, BudgetExact
        <5>2. Cardinality(Counted \cup found'[w]) = budget + (Limit - budget)
          BY <4>3, <4>4, <5>1, TogetherAtMost
        <5>3. Counted \cup found'[w] \in SUBSET Held'
          BY <4>3, CountedIsHeld DEF FetchInv
        <5>4. Cardinality(Counted \cup found'[w]) <= Cardinality(Held')
          BY <5>3, FS_Subset DEF FetchInv
        <5> QED BY <1>0, <1>4, <5>2, <5>4
      <4> QED BY <1>2, <4>2, <4>3, <4>4 DEF Placed
    <3>3. CASE f # job[w]
      BY <1>2, <1>3, <2>1, <3>1, <3>3 DEF Placed
    <3> QED BY <3>2, <3>3
  <2>4. CASE SearchFails(w)
    <3>1. /\ UNCHANGED <<jobs, job>> /\ pc[w] = "check" /\ tree[job[w]].kind = "broken"
          /\ \A v \in Workers : v # w => pc'[v] = pc[v]
      BY <1>0, <2>4 DEF SearchFails
    <3>2. f # job[w]
      BY <1>1, <3>1
    <3> QED BY <1>2, <1>3, <2>1, <3>1, <3>2 DEF Placed
  <2>5. CASE GiveUp(w)
    BY <1>0, <1>6, <2>5 DEF GiveUp
  <2>6. CASE RecvClosed(w) \/ SendError(w) \/ AddBudget(w) \/ SendResults(w)
    <3>1. /\ UNCHANGED <<jobs, job>> /\ pc[w] # "check"
          /\ \A v \in Workers : v # w => pc'[v] = pc[v]
      BY <1>0, <2>6 DEF RecvClosed, SendError, AddBudget, SendResults
    <3> QED BY <1>2, <1>3, <2>1, <3>1 DEF Placed
  <2> QED BY <1>10, <2>2, <2>3, <2>4, <2>5, <2>6 DEF Work
<1>11. CASE WalkStop \/ WalkEnd \/ CloseJobs \/ CloseResults \/ Caller \/ UNCHANGED vars
  <2>1. UNCHANGED <<next, jobs, pc, job>>
    BY <1>11 DEF WalkStop, WalkEnd, CloseJobs, CloseResults, Caller, Collect, CollectDone, TakeError,
                 Return, vars, walkVars, workVars, mainVars
  <2> QED BY <1>7, <2>1
<1> QED BY <1>8, <1>9, <1>10, <1>11 DEF Next, Walk

LEMMA CountInvariant == Spec => [](TypeInv /\ EndInv /\ CountInv)
<1>1. Init => TypeInv /\ EndInv /\ CountInv
  BY TypeInit, EndInit, ApartInit, NumbersInit, FetchInit, ReasonsInit, WhereaboutsInit DEF CountInv
<1>2. (TypeInv /\ EndInv /\ CountInv) /\ [Next]_vars => (TypeInv /\ EndInv /\ CountInv)'
  BY TypeStep, EndStep, ApartStep, NumbersStep, FetchStep, ReasonsStep, WhereaboutsStep DEF CountInv
<1> QED BY <1>1, <1>2, PTL DEF Spec

\* The matches as a page orders them.
PageOrder == {p \in Matches \X Matches : Before(p[1], p[2])}

LEMMA PageSize ==
    ASSUME NEW S \in SUBSET Matches, IsFiniteSet(S)
    PROVE  /\ Limit >= Cardinality(S) => FirstOf(S, Limit) = S
           /\ Limit <= Cardinality(S) => Cardinality(FirstOf(S, Limit)) = Limit
<1>1. \A m \in Matches : m[1] \in Files /\ m[2] \in Nat /\ m = <<m[1], m[2]>> /\ Rank[m[1]] \in Nat
  BY TreesAssumption DEF Matches, Blocks
<1>2. Orders(PageOrder, S)
  <2>1. \A m, n \in Matches : <<m, n>> \in PageOrder <=> Before(m, n)
    BY DEF PageOrder
  <2>2. \A m \in S : ~Before(m, m)
    BY <1>1 DEF Before
  <2>3. \A m, n \in S : m # n => Before(m, n) \/ Before(n, m)
    <3> SUFFICES ASSUME NEW m \in S, NEW n \in S, ~Before(m, n), ~Before(n, m) PROVE m = n
      OBVIOUS
    <3>1. Rank[m[1]] = Rank[n[1]]
      BY <1>1 DEF Before
    <3>2. m[1] = n[1]
      BY <1>1, <3>1, TreesAssumption
    <3>3. m[2] = n[2]
      BY <1>1, <3>2 DEF Before
    <3> QED BY <1>1, <3>2, <3>3
  <2>4. \A m, n, o \in S : Before(m, n) /\ Before(n, o) => Before(m, o)
    BY <1>1 DEF Before
  <2> QED BY <2>1, <2>2, <2>3, <2>4 DEF Orders
<1>3. \A m \in S : {n \in S : Before(n, m)} = {n \in S : <<n, m>> \in PageOrder}
  BY DEF PageOrder
<1>4. FirstOf(S, Limit) = Leading(PageOrder, S, Limit)
  BY <1>3 DEF FirstOf, Leading
<1> QED BY <1>2, <1>4, LeadingSize, SizesAssumption

\* A page that is not full lists every match of the tree, whatever share of the budget
\* each worker read: a search that was cut short, a worker that gave up and a walk that
\* was stopped all mean that the page is full (scanner.go:97-117, 138-146, tool.go:245).
THEOREM ShortPagesAreComplete == Spec => []ShortPageComplete
<1>1. TypeInv /\ EndInv /\ CountInv => ShortPageComplete
  <2> SUFFICES ASSUME TypeInv, EndInv, CountInv, main = "returned", ~firstErr, HitsApart(tree),
                      Cardinality(page) < Limit
               PROVE  AllMatches \subseteq page
    BY DEF ShortPageComplete
  <2>1. page = FirstOf(out, Limit) /\ results = <<>> /\ IsFiniteSet(out) /\ out \in SUBSET Matches
    BY DEF CountInv, ExitReasons, Numbers, TypeInv, TypeOK
  <2>2. Limit \in Nat /\ Cardinality(out) \in Nat
    BY <2>1, SizesAssumption, FS_CardinalityType
  <2>3. page = out /\ Cardinality(out) < Limit
    BY <2>1, <2>2, PageSize
  <2>4. \A w \in Workers : pc[w] = "exited"
    BY DEF EndInv, EndInOrder, ErrorKept, Gone
  <2>5. Sent = out /\ \A w \in Workers : found[w] = {}
    <3>1. DOMAIN results = {}
      BY <2>1
    <3> QED BY <2>4, <3>1 DEF Sent, CountInv, ApartInv, FoundApart
  <2>6. Held = out /\ Counted = out
    <3>1. \A m : m \in Counted <=> m \in out
      BY <2>5, CountedMember DEF CountedOrNot
    <3> QED BY <2>5, <3>1 DEF Held
  <2>7. budget < Limit /\ count < Limit
    BY <2>3, <2>6 DEF CountInv, Numbers, BudgetExact
  <2>8. walker = "done" /\ jobs = <<>>
    <3>1. PICK w \in Workers : TRUE
      BY WorkersAssumption
    <3> QED BY <2>2, <2>4, <2>7, <3>1 DEF CountInv, ExitReasons, TypeInv, TypeOK
  <2>9. next = N + 1
    BY <2>2, <2>7, <2>8 DEF CountInv, ExitReasons, TypeInv, TypeOK
  <2>10. \A f \in Files : tree[f].kind = "file" => SearchFile(f, Limit) \subseteq page
    <3> SUFFICES ASSUME NEW f \in Files, tree[f].kind = "file"
                 PROVE  SearchFile(f, Limit) \subseteq page
      OBVIOUS
    <3>1. f < next
      BY <2>9, SizesAssumption DEF Files
    <3>2. ~(Cardinality(Held) >= Limit)
      BY <2>2, <2>3, <2>6
    <3>3. /\ ~\E i \in DOMAIN jobs : jobs[i] = f
          /\ ~\E w \in Workers : pc[w] = "check" /\ job[w] = f
      BY <2>4, <2>8
    <3>4. SearchFile(f, Limit) \subseteq Held
      BY <3>1, <3>2, <3>3 DEF CountInv, Whereabouts, Placed
    <3> QED BY <2>3, <2>6, <3>4
  <2> QED BY <2>10 DEF AllMatches
<1> QED BY <1>1, CountInvariant, PTL

=============================================================================
