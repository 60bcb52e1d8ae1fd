-------------------------- MODULE ProjectRootProof --------------------------
(***************************************************************************)
(* Proofs about ProjectRoot: type correctness, and that a lock always       *)
(* protects a directory.                                                    *)
(***************************************************************************)
EXTENDS ProjectRoot, TLAPS

\* The messages a client sends are messages.
LEMMA Messages ==
    /\ \A k \in {"initialize", "initialized", "changed", "list"}, d \in MaybeRoot :
          Msg(k, d) \in Message
    /\ \A k \in {"cwd", "path", "memory"}, d \in Roots : Msg(k, d) \in Message
    /\ \A i \in Requests, d \in MaybeRoot : [kind |-> "answer", dir |-> d, id |-> i] \in Message
  BY DEF Msg, Message

\* The inbox remains a queue of messages when one is sent.
LEMMA SendType ==
    ASSUME inbox \in Seq(Message), NEW m \in Message, Send(m) PROVE inbox' \in Seq(Message)
  BY DEF Send

\* The type invariant holds initially.
LEMMA TypeInit == Init => TypeOK
<1> SUFFICES ASSUME Init PROVE TypeOK
    OBVIOUS
<1>1. workspace \in MaybeRoot /\ NoRoot \in MaybeRoot
    BY DEF Init, MaybeRoot
<1>2. /\ start \in [names : MaybeRoot, env : EnvRoots]
      /\ inbox \in Seq(Message) /\ msg \in Message
    BY <1>1, Messages DEF Init
<1>3. changes \in 0..client.changes /\ calls \in 0..client.calls
    BY BoundsAssumption DEF Init
<1>4. /\ req \in [Requests -> {"none", "started", "waiting", "answered", "done"}]
      /\ answer \in [Requests -> MaybeRoot]
    BY <1>1 DEF Init
<1> QED
    BY <1>1, <1>2, <1>3, <1>4 DEF Init, TypeOK

\* A step of the client keeps the type invariant.
LEMMA TypeClient == TypeOK /\ Client => TypeOK'
<1> SUFFICES ASSUME TypeOK, Client PROVE TypeOK'
    OBVIOUS
<1> USE DEF clientVars, runVars
<1>0. NoRoot \in MaybeRoot /\ Roots \subseteq MaybeRoot
    BY DEF MaybeRoot
<1>1. CASE ClientReady
  <2>1. inbox' \in Seq(Message)
    BY <1>0, <1>1, Messages, SendType DEF TypeOK, ClientReady
  <2> QED
    BY <1>1, <2>1 DEF TypeOK, ClientReady
<1>2. CASE ClientChange
  <2>1. inbox' \in Seq(Message)
    <3>1. CASE hasRoots
      BY <1>0, <1>2, <3>1, Messages, SendType DEF TypeOK, ClientChange
    <3>2. CASE ~hasRoots
      BY <1>2, <3>2 DEF TypeOK, ClientChange
    <3> QED
      BY <3>1, <3>2
  <2>2. changes' \in 0..client.changes /\ workspace' \in Roots
    BY <1>2, BoundsAssumption DEF TypeOK, ClientChange
  <2>3. client' = client
    BY <1>2 DEF ClientChange
  <2> QED
    BY <1>2, <2>1, <2>2, <2>3 DEF TypeOK, ClientChange
<1>3. CASE ClientCall
  <2>1. inbox' \in Seq(Message)
    BY <1>3, Messages, SendType, BoundsAssumption DEF TypeOK, ClientCall
  <2>2. calls' \in 0..client.calls
    BY <1>3, BoundsAssumption DEF TypeOK, ClientCall
  <2>3. client' = client
    BY <1>3 DEF ClientCall
  <2> QED
    BY <1>3, <2>1, <2>2, <2>3 DEF TypeOK, ClientCall
<1>4. CASE ClientList
  <2>1. inbox' \in Seq(Message)
    BY <1>0, <1>4, Messages, SendType DEF TypeOK, ClientList
  <2> QED
    BY <1>4, <2>1 DEF TypeOK, ClientList
<1>5. ASSUME NEW i \in Requests, ClientAnswer(i) \/ ClientDecline(i) PROVE TypeOK'
  <2>1. inbox' \in Seq(Message)
    BY <1>0, <1>5, Messages, SendType DEF TypeOK, ClientAnswer, ClientDecline
  <2> QED
    BY <1>5, <2>1 DEF TypeOK, ClientAnswer, ClientDecline
<1> QED
    BY <1>1, <1>2, <1>3, <1>4, <1>5 DEF Client

\* A step of the Run goroutine keeps the type invariant.
LEMMA TypeRun == TypeOK /\ Run => TypeOK'
<1> SUFFICES ASSUME TypeOK, Run PROVE TypeOK'
    OBVIOUS
<1> USE DEF clientVars, runVars
<1>0. /\ NoRoot \in MaybeRoot /\ Roots \subseteq MaybeRoot
      /\ Fallbacks \subseteq MaybeRoot /\ start.env \in MaybeRoot
    BY RootsAssumption DEF MaybeRoot, TypeOK
<1>1. \A m \in Message : /\ m.dir \in MaybeRoot
                         /\ m.kind = "answer" => m.id \in Requests
                         /\ m.kind \in {"cwd", "path", "memory"} => m.dir \in Roots
    BY <1>0 DEF Message
<1>2. CASE RouteAnswer
  <2>1. Head(inbox) \in Message /\ inbox' \in Seq(Message)
    BY <1>2 DEF TypeOK, RouteAnswer
  <2>2. /\ req' \in [Requests -> {"none", "started", "waiting", "answered", "done"}]
        /\ answer' \in [Requests -> MaybeRoot]
    BY <1>1, <1>2, <2>1 DEF TypeOK, RouteAnswer
  <2> QED
    BY <1>2, <2>1, <2>2 DEF TypeOK, RouteAnswer
<1>3. CASE TakeMessage
    BY <1>3 DEF TypeOK, TakeMessage
<1>4. CASE ApplyPendingRoot
    BY <1>0, <1>4 DEF TypeOK, ApplyPendingRoot
<1>5. CASE Initialize
  <2>1. root' \in MaybeRoot /\ locked' \in BOOLEAN /\ clientRoots' \in BOOLEAN
    <3>1. msg.dir \in MaybeRoot /\ hasRoots \in BOOLEAN /\ locked \in BOOLEAN
      BY <1>1 DEF TypeOK
    <3> QED
      BY <1>0, <1>5, <3>1 DEF Initialize
  <2> QED
    BY <1>5, <2>1 DEF TypeOK, Initialize
<1>6. CASE Initialized
    BY <1>6 DEF TypeOK, Initialized, Handling, StartRequest, Unstarted
<1>7. CASE ListChanged
    BY <1>7 DEF TypeOK, ListChanged, Handling, StartRequest, Unstarted
<1>8. CASE Other
    BY <1>8 DEF TypeOK, Other
<1>9. CASE ToolCall
  <2>1. msg.dir \in MaybeRoot /\ root \in MaybeRoot /\ locked \in BOOLEAN
    BY <1>1 DEF TypeOK
  <2>2. root' \in MaybeRoot
    BY <1>9, <2>1 DEF ToolCall, CwdCall, PathCall, MemoryCall
  <2>3. locked' \in BOOLEAN
    <3>1. CASE PathCall
      BY <2>1, <3>1 DEF PathCall
    <3>2. CASE CwdCall \/ MemoryCall
      BY <2>1, <3>2 DEF CwdCall, MemoryCall
    <3> QED
      BY <1>9, <3>1, <3>2 DEF ToolCall
  <2> QED
    BY <1>9, <2>2, <2>3 DEF TypeOK, ToolCall, CwdCall, PathCall, MemoryCall
<1> QED
    BY <1>2, <1>3, <1>4, <1>5, <1>6, <1>7, <1>8, <1>9 DEF Run

\* So does every step, the stuttering one included.
LEMMA TypeStep == TypeOK /\ [Next]_vars => TypeOK'
<1> SUFFICES ASSUME TypeOK, [Next]_vars PROVE TypeOK'
    OBVIOUS
<1>1. CASE Client
    BY <1>1, TypeClient
<1>2. CASE Run
    BY <1>2, TypeRun
<1>3. ASSUME NEW i \in Requests, Request(i) PROVE TypeOK'
  <2> USE DEF clientVars, runVars
  <2>1. CASE Ask(i)
    <3>1. /\ req' \in [Requests -> {"none", "started", "waiting", "answered", "done"}]
          /\ asked' \subseteq Requests
          /\ \A k \in asked' : req'[k] \notin {"none", "started"}
      BY <2>1 DEF TypeOK, Ask
    <3> QED
      BY <2>1, <3>1 DEF TypeOK, Ask
  <2>2. CASE Timeout(i)
    BY <2>2 DEF TypeOK, Timeout
  <2>3. CASE Queue(i)
    BY <2>3 DEF TypeOK, Queue
  <2> QED
    BY <1>3, <2>1, <2>2, <2>3 DEF Request
<1>4. CASE UNCHANGED vars
    BY <1>4 DEF TypeOK, vars
<1> QED
    BY <1>1, <1>2, <1>3, <1>4 DEF Next

-----------------------------------------------------------------------------

\* Until the handshake is handled nothing is settled, and a lock protects a root.
LEMMA RootInit == Init => LockHasRoot /\ HandshakeFirst
<1> SUFFICES ASSUME Init PROVE LockHasRoot /\ HandshakeFirst
    OBVIOUS
<1>1. Len(inbox) = 1
    BY DEF Init
<1> QED
    BY <1>1 DEF Init, LockHasRoot, HandshakeFirst, Fresh

\* A message that is sent goes behind those in the inbox, and is no handshake.
LEMMA SendKeepsHandshake ==
    ASSUME inbox \in Seq(Message), NEW m \in Message, m.kind # "initialize", Send(m),
           NEW k \in DOMAIN inbox', inbox'[k].kind = "initialize"
    PROVE  k \in DOMAIN inbox /\ inbox[k].kind = "initialize"
  BY DEF Send

\* The client's steps leave the state of the Run goroutine alone.
LEMMA RootClient == TypeOK /\ LockHasRoot /\ HandshakeFirst /\ Client
                        => (LockHasRoot /\ HandshakeFirst)'
<1> SUFFICES ASSUME TypeOK, LockHasRoot, HandshakeFirst, Client
             PROVE  LockHasRoot' /\ HandshakeFirst'
    OBVIOUS
<1>1. UNCHANGED <<runVars, pendingRoot, req>>
    BY DEF Client, ClientReady, ClientChange, ClientCall, ClientList, ClientAnswer, ClientDecline
<1>2. inbox \in Seq(Message) /\ locked \in BOOLEAN
    BY DEF TypeOK
<1>3. \/ UNCHANGED inbox
      \/ \E m \in Message : m.kind # "initialize" /\ Send(m)
  <2>0. NoRoot \in MaybeRoot /\ Roots \subseteq MaybeRoot /\ workspace \in MaybeRoot
      BY DEF MaybeRoot, TypeOK
  <2>1. CASE ClientReady \/ ClientList
      BY <2>0, <2>1, Messages DEF ClientReady, ClientList, Msg
  <2>2. CASE ClientChange
      BY <2>0, <2>2, Messages DEF ClientChange, Msg
  <2>3. CASE ClientCall
      BY <2>0, <2>3, Messages, BoundsAssumption DEF ClientCall, Msg
  <2>4. ASSUME NEW i \in Requests, ClientAnswer(i) \/ ClientDecline(i)
        PROVE  \E m \in Message : m.kind # "initialize" /\ Send(m)
      BY <2>0, <2>4, Messages DEF ClientAnswer, ClientDecline
  <2> QED
      BY <2>1, <2>2, <2>3, <2>4 DEF Client
<1>4. \A k \in DOMAIN inbox' : inbox'[k].kind = "initialize"
          => k \in DOMAIN inbox /\ inbox[k].kind = "initialize"
    BY <1>2, <1>3, SendKeepsHandshake
<1>5. LockHasRoot'
    BY <1>1, <1>2 DEF LockHasRoot, runVars
<1>6. Fresh => Fresh'
    BY <1>1, <1>2 DEF Fresh, runVars
<1>7. HandshakeFirst'
    BY <1>1, <1>4, <1>6 DEF HandshakeFirst, runVars
<1> QED
    BY <1>5, <1>7

\* A message that is taken was the first one.
LEMMA TailKeepsHandshake ==
    ASSUME inbox \in Seq(Message), inbox # <<>>, inbox' = Tail(inbox), HandshakeFirst,
           NEW k \in DOMAIN inbox', inbox'[k].kind = "initialize"
    PROVE  FALSE
<1>1. k + 1 \in DOMAIN inbox /\ inbox'[k] = inbox[k + 1] /\ k + 1 # 1
    OBVIOUS
<1> QED
    BY <1>1 DEF HandshakeFirst

\* A message the Run goroutine takes, routes or handles leaves the invariant true.
LEMMA RootRun == TypeOK /\ LockHasRoot /\ HandshakeFirst /\ Run
                     => (LockHasRoot /\ HandshakeFirst)'
<1> SUFFICES ASSUME TypeOK, LockHasRoot, HandshakeFirst, Run
             PROVE  LockHasRoot' /\ HandshakeFirst'
    OBVIOUS
<1> USE DEF clientVars, runVars
<1>0. /\ inbox \in Seq(Message) /\ locked \in BOOLEAN
      /\ msg.kind \in {"cwd", "path", "memory"} => msg.dir # NoRoot
    BY RootsAssumption DEF TypeOK, Message
<1>1. CASE RouteAnswer
  <2>1. \A k \in DOMAIN inbox' : inbox'[k].kind # "initialize"
    BY <1>0, <1>1, TailKeepsHandshake DEF RouteAnswer
  <2>2. pc' = "idle"
    BY <1>1 DEF RouteAnswer
  <2> QED
    BY <1>0, <1>1, <2>1, <2>2 DEF RouteAnswer, LockHasRoot, HandshakeFirst
<1>2. CASE TakeMessage
  <2>1. \A k \in DOMAIN inbox' : inbox'[k].kind # "initialize"
    BY <1>0, <1>2, TailKeepsHandshake DEF TakeMessage
  <2>2. ASSUME msg'.kind = "initialize" PROVE pc' = "handle" /\ Fresh'
    <3>1. 1 \in DOMAIN inbox /\ inbox[1] = Head(inbox)
      BY <1>0, <1>2 DEF TakeMessage
    <3>2. Fresh
      BY <1>2, <2>2, <3>1 DEF TakeMessage, HandshakeFirst
    <3> QED
      BY <1>2, <3>2 DEF TakeMessage, Fresh
  <2>3. LockHasRoot'
    BY <1>0, <1>2 DEF TakeMessage, LockHasRoot
  <2> QED
    BY <2>1, <2>2, <2>3 DEF HandshakeFirst
<1>3. ASSUME pc # "idle", UNCHANGED inbox
      PROVE  \A k \in DOMAIN inbox' : inbox'[k].kind # "initialize"
    BY <1>3 DEF HandshakeFirst
<1>4. CASE ApplyPendingRoot
  <2>1. LockHasRoot'
    BY <1>4 DEF ApplyPendingRoot, LockHasRoot
  <2>2. msg'.kind # "initialize"
    BY <1>4 DEF ApplyPendingRoot, HandshakeFirst
  <2> QED
    BY <1>3, <1>4, <2>1, <2>2 DEF ApplyPendingRoot, HandshakeFirst
<1>5. CASE Initialize
  <2>1. ~locked
    BY <1>5 DEF Initialize, Handling, HandshakeFirst, Fresh
  <2>2. locked' => root' # NoRoot
    BY <1>5, <2>1 DEF Initialize
  <2> QED
    BY <1>3, <1>5, <2>2 DEF Initialize, Handling, LockHasRoot, HandshakeFirst
<1>6. CASE Initialized \/ ListChanged \/ Other
    BY <1>0, <1>3, <1>6 DEF Initialized, ListChanged, Other, Handling, LockHasRoot, HandshakeFirst
<1>7. CASE ToolCall
  <2>1. locked' => root' # NoRoot
    BY <1>0, <1>7 DEF ToolCall, CwdCall, PathCall, MemoryCall, Handling, LockHasRoot
  <2> QED
    BY <1>3, <1>7, <2>1 DEF ToolCall, CwdCall, PathCall, MemoryCall, Handling,
                            LockHasRoot, HandshakeFirst
<1> QED
    BY <1>1, <1>2, <1>4, <1>5, <1>6, <1>7 DEF Run

\* The steps of the requests and the stuttering step included.
LEMMA RootStep == TypeOK /\ LockHasRoot /\ HandshakeFirst /\ [Next]_vars
                      => (LockHasRoot /\ HandshakeFirst)'
<1> SUFFICES ASSUME TypeOK, LockHasRoot, HandshakeFirst, [Next]_vars
             PROVE  LockHasRoot' /\ HandshakeFirst'
    OBVIOUS
<1>1. CASE Client
    BY <1>1, RootClient
<1>2. CASE Run
    BY <1>2, RootRun
<1>3. ASSUME NEW i \in Requests, Request(i) PROVE LockHasRoot' /\ HandshakeFirst'
  <2>1. UNCHANGED <<runVars, inbox>> /\ ~Fresh
    BY <1>3 DEF Request, Ask, Timeout, Queue, Fresh
  <2>2. locked \in BOOLEAN
    BY DEF TypeOK
  <2> QED
    BY <2>1, <2>2 DEF runVars, LockHasRoot, HandshakeFirst
<1>4. CASE UNCHANGED vars
    BY <1>4 DEF TypeOK, vars, LockHasRoot, HandshakeFirst, Fresh
<1> QED
    BY <1>1, <1>2, <1>3, <1>4 DEF Next

-----------------------------------------------------------------------------

\* Every variable of the server and its client stays in its range.
THEOREM TypeCorrect == Spec => []TypeOK
<1>1. Init => TypeOK
    BY TypeInit
<1>2. TypeOK /\ [Next]_vars => TypeOK'
    BY TypeStep
<1> QED
    BY <1>1, <1>2, PTL DEF Spec, SilentSpec

\* A lock always protects a directory, so that CheckBounds never checks against an
\* empty root once a root is locked (server.go:293-326, 372-413, 908-931).
THEOREM LockProtectsRoot == Spec => []LockHasRoot
<1>1. Init => LockHasRoot /\ HandshakeFirst
    BY RootInit
<1>2. TypeOK /\ LockHasRoot /\ HandshakeFirst /\ [Next]_vars => (LockHasRoot /\ HandshakeFirst)'
    BY RootStep
<1> QED
    BY <1>1, <1>2, TypeCorrect, PTL DEF Spec, SilentSpec
=============================================================================
