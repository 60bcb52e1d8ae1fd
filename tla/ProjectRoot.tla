----------------------------- MODULE ProjectRoot -----------------------------
(***************************************************************************)
(* How the server settles on a project root (server/server.go).  The Run    *)
(* goroutine reads messages one at a time and is the only one to write      *)
(* ProjectRoot; roots/list requests to the client run on goroutines of      *)
(* their own, which queue the answer in the atomic pendingRoot for Run to   *)
(* apply with the next message.  The client opens a workspace, may change   *)
(* it, answers roots/list with the workspace it has at that moment, and     *)
(* calls tools.                                                             *)
(*                                                                         *)
(* A directory is a member of Roots; a path argument is the directory it    *)
(* belongs to, and Marked holds the directories a marker such as .git makes *)
(* recognisable.                                                            *)
(***************************************************************************)
EXTENDS Integers, Sequences, FiniteSets

CONSTANTS
    Roots,        \* directories
    Marked,       \* those with a project marker
    NoRoot,       \* the empty root
    Fallbacks,    \* what discoverRootFromFallbacks may find
    EnvRoots,     \* what the PROJECT_ROOT environment variable may hold, NoRoot when unset
    MaxRequests,  \* bound: roots/list requests
    CallKinds,    \* the tool calls the client makes
    Clients       \* the clients considered: whether they are patient, and, as bounds, how often
                  \* they change the workspace and call a tool that names a directory

ASSUME RootsAssumption == /\ Marked \subseteq Roots /\ NoRoot \notin Roots
                          /\ Fallbacks \subseteq Roots \cup {NoRoot} /\ Fallbacks # {}
                          /\ EnvRoots \subseteq Roots \cup {NoRoot} /\ EnvRoots # {}
ASSUME BoundsAssumption == /\ MaxRequests \in Nat
                           /\ Clients \subseteq [patient : BOOLEAN, changes : Nat, calls : Nat]
                           /\ \A who \in Clients : who.changes < MaxRequests
                           /\ CallKinds \subseteq {"cwd", "path", "memory"}

Requests == 1..MaxRequests
MaybeRoot == Roots \cup {NoRoot}

VARIABLES
    workspace,    \* the client's workspace
    hasRoots,     \* the client has the roots capability
    client,       \* the client: a patient one changes the workspace only when nothing is under
                  \* way, and answers every request, in time and with a root
    start,        \* the directory the handshake names, and PROJECT_ROOT
    ready,        \* the client has sent notifications/initialized
    asked,        \* roots/list requests the client has yet to answer
    changes,      \* workspace changes so far
    calls,        \* tool calls so far
    inbox,        \* messages on the server's stdin
    pc,           \* where the Run goroutine is
    msg,          \* the message it handles
    queued,       \* the root it loaded from pendingRoot
    root,         \* ProjectRoot
    locked,       \* projectRootLocked
    clientRoots,  \* s.clientHasRoots
    pendingRoot,  \* the root queued by a request
    req,          \* the state of each requestRoots goroutine
    answer        \* the answer each has received

clientVars == <<workspace, hasRoots, client, start, ready, asked, changes, calls>>
runVars == <<pc, msg, queued, root, locked, clientRoots>>
vars == <<workspace, hasRoots, client, start, ready, asked, changes, calls, inbox, pc, msg, queued, root,
          locked, clientRoots, pendingRoot, req, answer>>

\* A call names a directory, a handshake or an answer may name none.
Message == [kind : {"initialize", "initialized", "changed", "list"}, dir : MaybeRoot, id : {0}]
               \cup [kind : {"cwd", "path", "memory"}, dir : Roots, id : {0}]
               \cup [kind : {"answer"}, dir : MaybeRoot, id : Requests]
Msg(kind, dir) == [kind |-> kind, dir |-> dir, id |-> 0]

Send(m) == inbox' = Append(inbox, m)

\* The initialize message names the workspace or nothing.
Init ==
    /\ workspace \in Roots /\ hasRoots \in BOOLEAN /\ client \in Clients
    /\ ready = FALSE /\ asked = {} /\ changes = 0 /\ calls = 0
    /\ start \in [names : {workspace, NoRoot}, env : EnvRoots]
    /\ inbox = <<Msg("initialize", start.names)>>
    /\ pc = "idle" /\ msg = Msg("list", NoRoot) /\ queued = NoRoot
    /\ root = NoRoot /\ locked = FALSE /\ clientRoots = FALSE
    /\ pendingRoot = NoRoot
    /\ req = [i \in Requests |-> "none"]
    /\ answer = [i \in Requests |-> NoRoot]

-----------------------------------------------------------------------------
(* The client *)

ClientReady ==
    /\ ~ready
    /\ ready' = TRUE
    /\ Send(Msg("initialized", NoRoot))
    /\ UNCHANGED <<workspace, hasRoots, client, start, asked, changes, calls, runVars, pendingRoot, req, answer>>

\* No root is being negotiated.
Settled == /\ inbox = <<>> /\ pc = "idle" /\ asked = {} /\ pendingRoot = NoRoot
           /\ \A i \in Requests : req[i] \in {"none", "done"}

\* Another workspace is opened, and the server told when the client has the capability.
ClientChange ==
    /\ ready /\ changes < client.changes /\ (client.patient => Settled)
    /\ \E w \in Roots \ {workspace} : workspace' = w
    /\ changes' = changes + 1
    /\ IF hasRoots THEN Send(Msg("changed", NoRoot)) ELSE UNCHANGED inbox
    /\ UNCHANGED <<hasRoots, client, start, ready, asked, calls, runVars, pendingRoot, req, answer>>

ClientCall ==
    /\ ready /\ calls < client.calls
    /\ \E k \in CallKinds, d \in Roots : Send(Msg(k, d))
    /\ calls' = calls + 1
    /\ UNCHANGED <<workspace, hasRoots, client, start, ready, asked, changes, runVars, pendingRoot, req, answer>>

\* Some request without a directory, so that a queued root is applied.
ClientList ==
    /\ ready /\ inbox = <<>>
    /\ Send(Msg("list", NoRoot))
    /\ UNCHANGED <<clientVars, runVars, pendingRoot, req, answer>>

ClientAnswer(i) ==
    /\ i \in asked
    /\ asked' = asked \ {i}
    /\ Send([kind |-> "answer", dir |-> workspace, id |-> i])
    /\ UNCHANGED <<workspace, hasRoots, client, start, ready, changes, calls, runVars, pendingRoot, req, answer>>

\* It has no root to name.
ClientDecline(i) ==
    /\ ~client.patient /\ i \in asked
    /\ asked' = asked \ {i}
    /\ Send([kind |-> "answer", dir |-> NoRoot, id |-> i])
    /\ UNCHANGED <<workspace, hasRoots, client, start, ready, changes, calls, runVars, pendingRoot, req, answer>>

-----------------------------------------------------------------------------
(* Faulty variants of the steps below: each leaves out or misplaces one thing  *)
(* the code does, and some property fails on it.                               *)

\* A root from roots/list does not replace one that is locked.
ApplyUnlessLocked ==
    /\ pc = "apply"
    /\ pendingRoot' = NoRoot
    /\ IF ~locked
       THEN root' = queued /\ locked' = TRUE
       ELSE UNCHANGED <<root, locked>>
    /\ pc' = "handle"
    /\ UNCHANGED <<clientVars, inbox, msg, queued, clientRoots, req, answer>>

\* The handshake locks whatever it has found.
InitializeLocks ==
    /\ pc = "handle" /\ msg.kind = "initialize"
    /\ clientRoots' = hasRoots
    /\ LET given == IF msg.dir # NoRoot THEN msg.dir ELSE start.env
       IN  root' \in IF given # NoRoot THEN {given} ELSE Fallbacks
    /\ locked' = TRUE
    /\ pc' = "idle"
    /\ UNCHANGED <<clientVars, inbox, msg, queued, pendingRoot, req, answer>>

\* The request is written before it is registered.
AskUnregistered(i) ==
    /\ req[i] = "started" /\ i \notin asked
    /\ asked' = asked \cup {i}
    /\ UNCHANGED <<workspace, hasRoots, client, start, ready, changes, calls, inbox, runVars, pendingRoot, req,
                   answer>>

\* The timer starts with the client's answer.
TimeoutAfterAnswer(i) ==
    /\ ~client.patient /\ req[i] = "waiting" /\ i \notin asked
    /\ req' = [req EXCEPT ![i] = "done"]
    /\ UNCHANGED <<clientVars, inbox, runVars, pendingRoot, answer>>

-----------------------------------------------------------------------------
(* The Run goroutine *)

\* A response goes to the goroutine that waits for it, or nowhere.
RouteAnswer ==
    /\ pc = "idle" /\ inbox # <<>> /\ Head(inbox).kind = "answer"
    /\ LET m == Head(inbox)
       IN  IF req[m.id] = "waiting"
           THEN /\ req' = [req EXCEPT ![m.id] = "answered"]
                /\ answer' = [answer EXCEPT ![m.id] = m.dir]
           ELSE UNCHANGED <<req, answer>>
    /\ inbox' = Tail(inbox)
    /\ UNCHANGED <<clientVars, runVars, pendingRoot>>

\* Any other message: load what roots/list has queued.
TakeMessage ==
    /\ pc = "idle" /\ inbox # <<>> /\ Head(inbox).kind # "answer"
    /\ msg' = Head(inbox) /\ inbox' = Tail(inbox)
    /\ queued' = pendingRoot
    /\ pc' = IF pendingRoot = NoRoot THEN "handle" ELSE "apply"
    /\ UNCHANGED <<clientVars, root, locked, clientRoots, pendingRoot, req, answer>>

\* applyPendingRoot: clear the queue, then pin and lock the root that was loaded.
ApplyPendingRoot ==
    /\ pc = "apply"
    /\ pendingRoot' = NoRoot
    /\ IF queued # root \/ ~locked
       THEN root' = queued /\ locked' = TRUE
       ELSE UNCHANGED <<root, locked>>
    /\ pc' = "handle"
    /\ UNCHANGED <<clientVars, inbox, msg, queued, clientRoots, req, answer>>

Handling(kinds) == pc = "handle" /\ msg.kind \in kinds

\* The handshake: the client's root, or the environment's, is locked; a fallback is not.
Initialize ==
    /\ Handling({"initialize"})
    /\ clientRoots' = hasRoots
    /\ LET given == IF msg.dir # NoRoot THEN msg.dir ELSE start.env
       IN  IF given # NoRoot THEN root' = given /\ locked' = TRUE
           ELSE root' \in Fallbacks /\ UNCHANGED locked
    /\ pc' = "idle"
    /\ UNCHANGED <<clientVars, inbox, msg, queued, pendingRoot, req, answer>>

Unstarted == {i \in Requests : req[i] = "none"}

\* go s.requestRoots()
StartRequest ==
    /\ Unstarted # {}
    /\ \E i \in Unstarted : /\ \A j \in Unstarted : i <= j
                            /\ req' = [req EXCEPT ![i] = "started"]

Initialized ==
    /\ Handling({"initialized"})
    /\ IF ~locked /\ clientRoots THEN StartRequest ELSE UNCHANGED req
    /\ pc' = "idle"
    /\ UNCHANGED <<clientVars, inbox, msg, queued, root, locked, clientRoots, pendingRoot, answer>>

ListChanged ==
    /\ Handling({"changed"})
    /\ StartRequest
    /\ pc' = "idle"
    /\ UNCHANGED <<clientVars, inbox, msg, queued, root, locked, clientRoots, pendingRoot, answer>>

Other ==
    /\ Handling({"list"})
    /\ pc' = "idle"
    /\ UNCHANGED <<clientVars, inbox, msg, queued, root, locked, clientRoots, pendingRoot, req,
                   answer>>

\* applyCwdOverride: a cwd argument counts only until a root exists.
CwdCall ==
    /\ Handling({"cwd"})
    /\ root' = IF locked \/ root # NoRoot THEN root ELSE msg.dir
    /\ pc' = "idle"
    /\ UNCHANGED <<clientVars, inbox, msg, queued, locked, clientRoots, pendingRoot, req, answer>>

\* reorientRoot: an absolute path inside the root locks it; one outside moves a root
\* that is not locked, and locks it when the directory is marked.
PathCall ==
    /\ Handling({"path"})
    /\ IF root = msg.dir THEN locked' = TRUE /\ UNCHANGED root
       ELSE IF locked THEN UNCHANGED <<root, locked>>
       ELSE root' = msg.dir /\ locked' = IF msg.dir \in Marked THEN TRUE ELSE locked
    /\ pc' = "idle"
    /\ UNCHANGED <<clientVars, inbox, msg, queued, clientRoots, pendingRoot, req, answer>>

\* The memory tool's resolveProject pins the directory of its path argument.
MemoryCall ==
    /\ Handling({"memory"})
    /\ root' = msg.dir
    /\ pc' = "idle"
    /\ UNCHANGED <<clientVars, inbox, msg, queued, locked, clientRoots, pendingRoot, req, answer>>

ToolCall == CwdCall \/ PathCall \/ MemoryCall
Run == RouteAnswer \/ TakeMessage \/ ApplyPendingRoot \/ Initialize \/ Initialized
           \/ ListChanged \/ Other \/ ToolCall

-----------------------------------------------------------------------------
(* A requestRoots goroutine *)

\* sendToClient registers the request and writes it.
Ask(i) ==
    /\ req[i] = "started"
    /\ req' = [req EXCEPT ![i] = "waiting"]
    /\ asked' = asked \cup {i}
    /\ UNCHANGED <<workspace, hasRoots, client, start, ready, changes, calls, inbox, runVars, pendingRoot, answer>>

\* The timer fires first; the registration is deleted.
Timeout(i) ==
    /\ ~client.patient /\ req[i] = "waiting"
    /\ req' = [req EXCEPT ![i] = "done"]
    /\ UNCHANGED <<clientVars, inbox, runVars, pendingRoot, answer>>

\* Queue the root that was answered, if any.
Queue(i) ==
    /\ req[i] = "answered"
    /\ pendingRoot' = IF answer[i] = NoRoot THEN pendingRoot ELSE answer[i]
    /\ req' = [req EXCEPT ![i] = "done"]
    /\ UNCHANGED <<clientVars, inbox, runVars, answer>>

Client == ClientReady \/ ClientChange \/ ClientCall \/ ClientList
              \/ \E i \in Requests : ClientAnswer(i) \/ ClientDecline(i)
Request(i) == Ask(i) \/ Timeout(i) \/ Queue(i)

Next == Client \/ Run \/ \E i \in Requests : Request(i)

\* Goroutines that can run do, timers fire, the client finishes the handshake and
\* goes on sending requests.  Whether it answers roots/list is left open.
SilentSpec == /\ Init /\ [][Next]_vars
              /\ WF_vars(Run) /\ WF_vars(ClientReady) /\ WF_vars(ClientList)
              /\ \A i \in Requests : WF_vars(Request(i))

\* A patient client answers every roots/list as well.
Spec == SilentSpec /\ \A i \in Requests : WF_vars(client.patient /\ ClientAnswer(i))

-----------------------------------------------------------------------------
(* Properties *)

\* Every variable stays in its range, and the client is asked nothing the server has
\* not registered (server.go:601-605), so no answer of its is thrown away.
TypeOK ==
    /\ workspace \in Roots /\ hasRoots \in BOOLEAN /\ client \in Clients /\ ready \in BOOLEAN
    /\ start \in [names : MaybeRoot, env : EnvRoots]
    /\ asked \subseteq Requests /\ changes \in 0..client.changes /\ calls \in 0..client.calls
    /\ inbox \in Seq(Message) /\ msg \in Message
    /\ pc \in {"idle", "apply", "handle"}
    /\ queued \in MaybeRoot /\ root \in MaybeRoot /\ locked \in BOOLEAN
    /\ clientRoots \in BOOLEAN /\ pendingRoot \in MaybeRoot
    /\ req \in [Requests -> {"none", "started", "waiting", "answered", "done"}]
    /\ answer \in [Requests -> MaybeRoot]
    /\ \A i \in asked : req[i] \notin {"none", "started"}

\* A lock always protects a directory, and a root about to be applied is one
\* (server.go:295, 317-320): CheckBounds passes everything when the root is empty.
LockHasRoot == (locked => root # NoRoot) /\ (pc = "apply" => queued # NoRoot)

\* Nothing has been settled before the handshake.
Fresh == ~locked /\ pendingRoot = NoRoot /\ \A i \in Requests : req[i] = "none"

\* The handshake is handled before anything else (server.go:329-372), which makes
\* LockHasRoot inductive: a fallback may be no root at all, and must not come under a
\* lock that is already set.
HandshakeFirst ==
    /\ \A k \in DOMAIN inbox : inbox[k].kind = "initialize" => k = 1 /\ pc = "idle" /\ Fresh
    /\ pc # "idle" /\ msg.kind = "initialize" => pc = "handle" /\ Fresh

\* Once its workspace no longer changes, a client that answers roots/list has it as the
\* root (server.go:256-326, 632-664): a fallback, a cwd or an absolute path that was
\* taken before gives way, and none is taken after.  Three things stand in its way.
\* PROJECT_ROOT is locked when the handshake names nothing, and holds until the first
\* change.  A memory call moves the root, locked or not, until a roots/list request that
\* comes after it.  And two requests under way at once may be answered in any order, or
\* one be lost: the client is taken to be patient.
MemoryFollowed == [](Handling({"memory"}) => <>(\E i \in Requests : req[i] = "started"))
EnvironmentWins == changes = 0 /\ start.names = NoRoot /\ start.env # NoRoot /\ root = start.env
RootFollowsWorkspace ==
    client.patient /\ hasRoots /\ MemoryFollowed => <>[](root = workspace \/ EnvironmentWins)

\* "A locked root is the server's trust boundary: tool arguments must never relocate it"
\* (server.go:904-905): no call of a tool moves a root that is locked.
LockedRootStays ==
    [][locked /\ Handling({"cwd", "path", "memory"}) => root' = root]_vars

\* "pendingRoot queues a root from roots/list to be applied by the Run loop"
\* (server.go:791): Run takes out of the queue only the root it goes on to apply.
QueuedRootApplied ==
    [][pendingRoot # NoRoot /\ pendingRoot' = NoRoot => queued = pendingRoot]_vars

\* A roots/list request comes to an end whether or not the client answers it, and a
\* late answer finds nobody (server.go:598-618).
RequestsEnd == \A i \in Requests : req[i] = "started" ~> req[i] = "done"
=============================================================================
