---------------------------- MODULE BrokerService ----------------------------
(***************************************************************************)
(* The broker service of both platforms: the loop over connections         *)
(* (brokerservice and brokerhost), the listener (brokeripc) and the Close  *)
(* that ends it all.                                                       *)
(*                                                                         *)
(* Two threads.  The loop accepts one connection, runs one session on it   *)
(* and closes it.  The service starts the runtime and closes it: on        *)
(* Windows beside the loop, when the service manager asks; on Linux after  *)
(* the loop, in the same thread.  Platform is chosen initially.            *)
(*                                                                         *)
(* A connection is the server's end of a Unix socket or one instance of    *)
(* the named pipe, which exists before its client.  An I/O on it runs      *)
(* under the connection's mutex from openHandle to its end, and close()    *)
(* waits for it; on Linux nothing closes a connection beside its I/O.      *)
(* Clients are the environment: they connect, speak, stall or leave.  What *)
(* a session says is BrokerExchange's business: here it reads a request,   *)
(* runs it and writes a response.  Time is a choice: a deadline may pass   *)
(* whenever an I/O with a deadline is under way.                           *)
(***************************************************************************)
EXTENDS Naturals

CONSTANTS
    Conns,      \* bound: connections and pipe instances of one service life
    None        \* no connection

ASSUME ConnsAssumption == None \notin Conns

VARIABLES
    platform,       \* "linux" or "windows"
    scm,            \* where the service thread is
    exit,           \* how the service ended
    cancelled,      \* the service's context is done
    closed,         \* Runtime.closed
    active,         \* Runtime.active
    snapshot,       \* Close's copy of active
    closeErr,       \* Close met an error
    runnerClosed,   \* executor.Close returned nil
    serverClosed,   \* Server.closed
    socket,         \* the socket's path (Linux)
    pending,        \* the pipe instance that waits for a client (Windows)
    loop,           \* where the loop is
    mine,           \* the connection HandleOne works on
    stage,          \* of the session
    failure,        \* the rules of HandleOne's error; {} is nil
    io,             \* the I/O on mine
    connClosed,     \* connections whose close() was called
    conn,           \* the kernel's object
    peer,           \* the account at the other end
    preface,        \* what the client sent first (Windows)
    closes,         \* history: times a handle was closed
    unclosed,       \* history: connections whose deferred Close failed
    infra           \* history: the operating system refused something

serviceVars == <<scm, exit, cancelled>>
hostVars == <<closed, active, snapshot, closeErr, runnerClosed>>
serverVars == <<serverClosed, socket, pending>>
loopVars == <<loop, mine, stage, failure, io>>
connVars == <<connClosed, conn, peer, preface>>
historyVars == <<closes, unclosed, infra>>
vars == <<platform, serviceVars, hostVars, serverVars, loopVars, connVars, historyVars>>

Linux == platform = "linux"
Windows == platform = "windows"

Rules == {"runtime-closed", "accept-failed", "accept-cancelled", "server-closed",
          "preface-invalid", "peer-mismatch", "session-failed", "close-failed"}

Handles == {"listening", "connected", "left"}       \* open at the server's end

TypeOK ==
    /\ platform \in {"linux", "windows"}
    /\ scm \in {"starting", "running", "stopping", "listener", "active", "waiting", "runner",
                "joining", "exited"}
    /\ exit \in {"none", "clean", "startup", "runtime", "shutdown", "revert"}
    /\ cancelled \in BOOLEAN /\ closed \in BOOLEAN /\ closeErr \in BOOLEAN
    /\ runnerClosed \in BOOLEAN /\ serverClosed \in BOOLEAN
    /\ active \in Conns \cup {None} /\ snapshot \in Conns \cup {None}
    /\ socket \in {"absent", "stale", "foreign", "bound"}
    /\ pending \in Conns \cup {None} /\ mine \in Conns \cup {None}
    /\ loop \in {"idle", "top", "handle", "accept", "connect", "connecting", "preface",
                 "prefacing", "verify", "transfer", "register", "session", "unregister",
                 "closing", "judge", "done"}
    /\ stage \in {"request", "run", "respond"}
    /\ failure \subseteq Rules
    /\ io \in {"none", "locked", "pending", "aborted"}
    /\ connClosed \subseteq Conns /\ unclosed \subseteq Conns
    /\ conn \in [Conns -> Handles \cup {"unused", "queued", "closed"}]
    /\ peer \in [Conns -> {"control", "other"}]
    /\ preface \in [Conns -> {"none", "good", "bad"}]
    /\ closes \in [Conns -> Nat]
    /\ infra \in BOOLEAN

\* A broker that died left its socket behind; an object that is no socket of
\* root's may stand at the path too.
Init ==
    /\ platform \in {"linux", "windows"}
    /\ scm = "starting" /\ exit = "none" /\ cancelled = FALSE
    /\ closed = FALSE /\ active = None /\ snapshot = None /\ closeErr = FALSE
    /\ runnerClosed = FALSE /\ serverClosed = FALSE
    /\ socket \in IF Linux THEN {"absent", "stale", "foreign"} ELSE {"absent"}
    /\ pending = None
    /\ loop = "idle" /\ mine = None /\ stage = "request" /\ failure = {} /\ io = "none"
    /\ connClosed = {}
    /\ conn = [c \in Conns |-> "unused"]
    /\ peer = [c \in Conns |-> "control"]
    /\ preface = [c \in Conns |-> "none"]
    /\ closes = [c \in Conns |-> 0] /\ unclosed = {} /\ infra = FALSE

-----------------------------------------------------------------------------
(***************************************************************************)
(* The kernel's side of a connection, and the clients.                     *)
(***************************************************************************)
\* DisconnectNamedPipe and CloseHandle, or close(2).  A CloseHandle that fails
\* leaves the handle open; close(2) releases the descriptor even then.
Release(c, done) ==
    /\ closes' = [closes EXCEPT ![c] = @ + 1]
    /\ conn' = IF done \/ Linux THEN [conn EXCEPT ![c] = "closed"] ELSE conn

ClientConnects(c) ==
    /\ \/ Linux /\ socket = "bound" /\ conn[c] = "unused"
          /\ conn' = [conn EXCEPT ![c] = "queued"]
       \/ Windows /\ conn[c] = "listening"
          /\ conn' = [conn EXCEPT ![c] = "connected"]
    /\ peer' \in {[peer EXCEPT ![c] = p] : p \in {"control", "other"}}
    /\ UNCHANGED <<platform, serviceVars, hostVars, serverVars, loopVars, connClosed, preface,
                   historyVars>>

ClientSendsPreface(c) ==
    /\ Windows /\ conn[c] = "connected" /\ preface[c] = "none"
    /\ preface' \in {[preface EXCEPT ![c] = p] : p \in {"good", "bad"}}
    /\ UNCHANGED <<platform, serviceVars, hostVars, serverVars, loopVars, connClosed, conn, peer,
                   historyVars>>

ClientLeaves(c) ==
    /\ conn[c] = "connected"
    /\ conn' = [conn EXCEPT ![c] = "left"]
    /\ UNCHANGED <<platform, serviceVars, hostVars, serverVars, loopVars, connClosed, peer,
                   preface, historyVars>>

-----------------------------------------------------------------------------
(***************************************************************************)
(* The loop: serve and Run.                                                *)
(***************************************************************************)
LoopTop ==
    /\ loop = "top"
    /\ loop' = IF cancelled THEN "done" ELSE "handle"
    /\ UNCHANGED <<platform, serviceVars, hostVars, serverVars, mine, stage, failure, io,
                   connVars, historyVars>>

\* HandleOne returns an error of these rules.
Fails(rules) == failure' = rules /\ loop' = "judge" /\ mine' = None

EnterHandleOne ==
    /\ loop = "handle"
    /\ \/ closed /\ Fails({"runtime-closed"})
       \/ ~closed /\ loop' = "accept" /\ UNCHANGED <<mine, failure>>
    /\ UNCHANGED <<platform, serviceVars, hostVars, serverVars, stage, io, connVars, historyVars>>

(***************************************************************************)
(* IsRecoverableConnectionError.  Windows wants every joined error to be   *)
(* confined to its connection; Linux takes the first host error it finds,  *)
(* which is the session's.                                                 *)
(***************************************************************************)
Confined == {"session-failed", "preface-invalid", "peer-mismatch"}

RecoverableOnWindows(rules) == rules # {} /\ rules \subseteq Confined
RecoverableOnLinux(rules) == "session-failed" \in rules \/ rules = {"peer-mismatch"}

Recoverable(rules) ==
    IF Windows THEN RecoverableOnWindows(rules) ELSE RecoverableOnLinux(rules)

JudgeFailure ==
    /\ loop = "judge"
    /\ \/ cancelled /\ loop' = "done" /\ failure' = {}
       \/ ~cancelled /\ (failure = {} \/ Recoverable(failure)) /\ loop' = "top" /\ failure' = {}
       \/ ~cancelled /\ failure # {} /\ ~Recoverable(failure) /\ loop' = "done"
          /\ UNCHANGED failure
    /\ UNCHANGED <<platform, serviceVars, hostVars, serverVars, mine, stage, io, connVars,
                   historyVars>>

-----------------------------------------------------------------------------
\* The credentials the kernel keeps of the other end.
IsControl(c) == peer[c] = "control"

(***************************************************************************)
(* Accept on Linux: polls until a connection comes or the context ends.    *)
(***************************************************************************)
AcceptSocket(c) ==
    /\ loop = "accept" /\ Linux /\ conn[c] = "queued"
    /\ \/ /\ IsControl(c)
          /\ conn' = [conn EXCEPT ![c] = "connected"]
          /\ mine' = c /\ loop' = "register"
          /\ UNCHANGED <<failure, closes>>
       \/ /\ ~IsControl(c)
          /\ Fails({"peer-mismatch"})
          /\ Release(c, TRUE)
    /\ UNCHANGED <<platform, serviceVars, hostVars, serverVars, stage, io, connClosed, peer,
                   preface, unclosed, infra>>

\* Fault: the context is not asked between two polls.
AcceptPollsOn ==
    /\ loop = "accept" /\ Linux /\ socket # "bound"
    /\ Fails({"accept-cancelled"})
    /\ UNCHANGED <<platform, serviceVars, hostVars, serverVars, stage, io, connVars, historyVars>>

AcceptCancelled ==
    /\ loop = "accept" /\ Linux /\ cancelled
    /\ Fails({"accept-cancelled"})
    /\ UNCHANGED <<platform, serviceVars, hostVars, serverVars, stage, io, connVars, historyVars>>

\* accept(2), or CreateNamedPipe in pendingHandle, is refused.
ListenerBreaks ==
    /\ loop = "accept" /\ (Windows => ~serverClosed /\ pending = None)
    /\ Fails({"accept-failed"})
    /\ infra' = TRUE
    /\ UNCHANGED <<platform, serviceVars, hostVars, serverVars, stage, io, connVars, closes,
                   unclosed>>

(***************************************************************************)
(* Accept on Windows: serverNative.accept.  pendingHandle makes the next   *)
(* instance; FIRST_PIPE_INSTANCE refuses a second one beside another.      *)
(***************************************************************************)
CreatePipe(c) ==
    /\ conn[c] = "unused"
    /\ conn' = [conn EXCEPT ![c] = "listening"]
    /\ pending' = c
    /\ mine' = c /\ loop' = "connect"
    /\ UNCHANGED failure

PendingHandle ==
    /\ loop = "accept" /\ Windows
    /\ \/ /\ serverClosed
          /\ Fails({"server-closed"})
          /\ UNCHANGED <<pending, conn>>
       \/ /\ ~serverClosed /\ pending # None
          /\ mine' = pending /\ loop' = "connect"
          /\ UNCHANGED <<failure, pending, conn>>
       \/ /\ ~serverClosed /\ pending = None
          /\ \A c \in Conns : conn[c] \notin Handles
          /\ \E c \in Conns : CreatePipe(c)
    /\ UNCHANGED <<platform, serviceVars, hostVars, serverClosed, socket, stage, io, connClosed,
                   peer, preface, historyVars>>

\* Fault: whoever took it.
DiscardAnyPending ==
    /\ pending' = None
    /\ \E done \in BOOLEAN : Release(mine, done)

\* discardPending closes the instance unless server.close() took it.
DiscardPending ==
    IF pending = mine
    THEN /\ pending' = None
         /\ \E done \in BOOLEAN : Release(mine, done)
    ELSE UNCHANGED <<pending, conn, closes>>

AcceptFails(rule) == DiscardPending /\ Fails({rule})

unchangedByPeer == <<platform, serviceVars, hostVars, serverClosed, socket, stage, io,
                     connClosed, peer, preface, unclosed>>
unchangedByAccept == <<unchangedByPeer, infra>>

Moves(to) == loop' = to /\ UNCHANGED <<pending, mine, failure, conn, closes>>

\* connectPipe.  A client may have come, and even left, before it is called.
ConnectPipe ==
    /\ loop = "connect"
    /\ \/ cancelled /\ AcceptFails("accept-cancelled")
       \/ ~cancelled /\ conn[mine] = "connected" /\ Moves("preface")
       \/ ~cancelled /\ conn[mine] = "listening" /\ Moves("connecting")
       \/ ~cancelled /\ conn[mine] \in {"left", "closed"} /\ AcceptFails("accept-failed")
    /\ UNCHANGED unchangedByAccept

PipeConnected ==
    /\ loop = "connecting"
    /\ \/ conn[mine] \in {"connected", "left"} /\ Moves("preface")
       \/ conn[mine] = "closed" /\ AcceptFails("accept-cancelled")
       \/ cancelled /\ AcceptFails("accept-cancelled")
    /\ UNCHANGED unchangedByAccept

\* The preface is read under the service's context, which has no deadline.
StartPreface ==
    /\ loop = "preface"
    /\ \/ (cancelled \/ conn[mine] = "closed") /\ AcceptFails("preface-invalid")
       \/ ~cancelled /\ conn[mine] # "closed" /\ Moves("prefacing")
    /\ UNCHANGED unchangedByAccept

ReadPreface ==
    /\ loop = "prefacing"
    /\ \/ preface[mine] # "none" /\ conn[mine] \in Handles /\ Moves("verify")
       \/ preface[mine] = "none" /\ conn[mine] = "left" /\ AcceptFails("preface-invalid")
       \/ (cancelled \/ conn[mine] = "closed") /\ AcceptFails("preface-invalid")
    /\ UNCHANGED unchangedByAccept

VerifyPeer ==
    /\ loop = "verify"
    /\ \/ /\ conn[mine] = "closed"
          /\ AcceptFails("accept-failed")
       \/ /\ conn[mine] # "closed"
          /\ \/ ~IsControl(mine) /\ AcceptFails("peer-mismatch")
             \/ IsControl(mine) /\ preface[mine] # "good" /\ AcceptFails("preface-invalid")
             \/ IsControl(mine) /\ preface[mine] = "good" /\ Moves("transfer")
    /\ UNCHANGED unchangedByAccept

\* The token of the peer cannot be read.
VerifyPeerFails ==
    /\ loop = "verify"
    /\ AcceptFails("accept-failed")
    /\ infra' = TRUE
    /\ UNCHANGED unchangedByPeer

\* RevertToSelf failed: the process ends rather than go on as its client.
RevertFails ==
    /\ loop = "verify" /\ scm # "exited"
    /\ loop' = "done" /\ scm' = "exited" /\ exit' = "revert"
    /\ conn' = [c \in Conns |-> IF conn[c] \in Handles THEN "closed" ELSE conn[c]]
    /\ pending' = None /\ active' = None /\ infra' = TRUE
    /\ UNCHANGED <<platform, cancelled, closed, snapshot, closeErr, runnerClosed, serverClosed,
                   socket, mine, stage, failure, io, connClosed, peer, preface, closes, unclosed>>

TransferPending ==
    /\ loop = "transfer"
    /\ \/ /\ serverClosed \/ pending # mine
          /\ Fails({"server-closed"})
          /\ UNCHANGED <<pending, conn, closes>>
       \/ /\ ~serverClosed /\ pending = mine
          /\ pending' = None /\ loop' = "register"
          /\ UNCHANGED <<mine, failure, conn, closes>>
    /\ UNCHANGED unchangedByAccept

-----------------------------------------------------------------------------
(***************************************************************************)
(* HandleOne with its connection, and the session's I/O.                   *)
(***************************************************************************)
Register ==
    /\ loop = "register"
    /\ \/ /\ closed
          /\ Fails({"runtime-closed"})
          /\ connClosed' = connClosed \cup {mine}
          /\ \E done \in BOOLEAN : Release(mine, done)
          /\ UNCHANGED <<active, stage>>
       \/ /\ ~closed
          /\ active' = mine
          /\ loop' = "session" /\ stage' = "request"
          /\ UNCHANGED <<mine, failure, connClosed, conn, closes>>
    /\ UNCHANGED <<platform, serviceVars, closed, snapshot, closeErr, runnerClosed, serverVars, io,
                   peer, preface, unclosed, infra>>

unchangedBySession == <<platform, serviceVars, hostVars, serverVars, mine, connVars, historyVars>>

InIO(step) == loop = "session" /\ stage \in {"request", "respond"} /\ io = step

\* A request that cannot be read or is refused is answered by a rejection.
Succeeds ==
    /\ io' = "none"
    /\ \/ stage = "request" /\ ~cancelled /\ stage' = "run" /\ UNCHANGED <<loop, failure>>
       \/ stage = "request" /\ stage' = "respond" /\ UNCHANGED <<loop, failure>>
       \/ stage = "respond" /\ loop' = "unregister" /\ failure' = {} /\ UNCHANGED stage

Breaks ==
    /\ io' = "none"
    /\ \/ stage = "request" /\ stage' = "respond" /\ UNCHANGED <<loop, failure>>
       \/ stage = "respond" /\ loop' = "unregister" /\ failure' = {"session-failed"}
          /\ UNCHANGED stage

\* The mutex is taken and openHandle asked.
StartIO ==
    /\ InIO("none")
    /\ \/ mine \in connClosed /\ Breaks
       \/ mine \notin connClosed /\ io' = "locked" /\ UNCHANGED <<loop, stage, failure>>
    /\ UNCHANGED unchangedBySession

\* Only the request is read under the service's context, which only Windows
\* asks before and during an I/O.
Interrupted == Windows /\ cancelled /\ stage = "request"

IssueIO ==
    /\ InIO("locked")
    /\ \/ (Interrupted \/ conn[mine] = "left") /\ Breaks
       \/ ~Interrupted /\ conn[mine] # "left" /\ io' = "pending"
          /\ UNCHANGED <<loop, stage, failure>>
    /\ UNCHANGED unchangedBySession

CompleteIO ==
    /\ InIO("pending") /\ conn[mine] = "connected"
    /\ Succeeds
    /\ UNCHANGED unchangedBySession

AbortIO ==
    /\ \/ InIO("aborted")
       \/ InIO("pending") /\ (Interrupted \/ conn[mine] = "left")
    /\ Breaks
    /\ UNCHANGED unchangedBySession

\* The deadline of the read, the write or the acknowledgement passes.
ExpireIO ==
    /\ InIO("pending")
    /\ Breaks
    /\ UNCHANGED unchangedBySession

RunReturns ==
    /\ loop = "session" /\ stage = "run"
    /\ stage' = "respond"
    /\ UNCHANGED <<loop, failure, io>> /\ UNCHANGED unchangedBySession

Unregister ==
    /\ loop = "unregister"
    /\ active' = None
    /\ loop' = "closing"
    /\ UNCHANGED <<platform, serviceVars, closed, snapshot, closeErr, runnerClosed, serverVars,
                   mine, stage, failure, io, connVars, historyVars>>

\* close() does nothing the second time.  Its failure is joined to the
\* session's.
CloseConnection ==
    /\ loop = "closing"
    /\ loop' = "judge" /\ mine' = None
    /\ \/ mine \in connClosed /\ UNCHANGED <<failure, connClosed, conn, closes, unclosed>>
       \/ /\ mine \notin connClosed
          /\ connClosed' = connClosed \cup {mine}
          /\ \E done \in BOOLEAN :
                /\ Release(mine, done)
                /\ failure' = IF done THEN failure ELSE failure \cup {"close-failed"}
                /\ unclosed' = IF done THEN unclosed ELSE unclosed \cup {mine}
    /\ UNCHANGED <<platform, serviceVars, hostVars, serverVars, stage, io, peer, preface, infra>>

LoopStep ==
    \/ LoopTop \/ EnterHandleOne \/ JudgeFailure
    \/ (\E c \in Conns : AcceptSocket(c)) \/ AcceptCancelled
    \/ PendingHandle \/ ConnectPipe \/ PipeConnected \/ StartPreface \/ ReadPreface
    \/ VerifyPeer \/ TransferPending
    \/ Register \/ StartIO \/ IssueIO \/ AbortIO \/ ExpireIO \/ RunReturns
    \/ Unregister \/ CloseConnection

-----------------------------------------------------------------------------
(***************************************************************************)
(* The service thread: Execute with stopService, and Run around its loop.  *)
(***************************************************************************)
\* A stale socket of root's is removed, any other object at the path refuses.
PathFree == socket # "foreign"
BindSocket == PathFree /\ socket' = "bound"

CreateFirstPipe(c) ==
    /\ pending' = c
    /\ conn' = [conn EXCEPT ![c] = "listening"]

Start ==
    /\ scm = "starting"
    /\ scm' = "running" /\ loop' = "top"
    /\ \/ Linux /\ BindSocket /\ UNCHANGED <<pending, conn>>
       \/ Windows /\ (\E c \in Conns : CreateFirstPipe(c)) /\ UNCHANGED socket
    /\ UNCHANGED <<platform, exit, cancelled, hostVars, serverClosed, mine, stage, failure, io,
                   connClosed, peer, preface, historyVars>>

\* Also when the policy of the new socket cannot be set: it is removed again.
StartFails ==
    /\ scm = "starting"
    /\ scm' = "exited" /\ exit' = "startup"
    /\ socket' \in IF socket = "stale" THEN {"stale", "absent"} ELSE {socket}
    /\ infra' = TRUE
    /\ UNCHANGED <<platform, cancelled, hostVars, serverClosed, pending, loopVars, connVars,
                   closes, unclosed>>

\* SIGTERM, or Stop and Shutdown of the service manager.
Stop ==
    /\ scm = "running" /\ ~cancelled
    /\ cancelled' = TRUE
    /\ scm' = IF Windows THEN "stopping" ELSE scm
    /\ UNCHANGED <<platform, exit, hostVars, serverVars, loopVars, connVars, historyVars>>

\* Runtime.Close: marks the host closed and takes the active connection.
BeginClose ==
    /\ scm = "stopping" \/ (scm = "running" /\ loop = "done")
    /\ closed' = TRUE /\ snapshot' = active
    /\ scm' = "listener"
    /\ UNCHANGED <<platform, exit, cancelled, active, closeErr, runnerClosed, serverVars,
                   loopVars, connVars, historyVars>>

\* The listening socket takes its path and its queue with it.
CloseSocket ==
    /\ socket' = "absent"
    /\ conn' = [c \in Conns |-> IF conn[c] = "queued" THEN "closed" ELSE conn[c]]
    /\ UNCHANGED <<pending, closes, closeErr>>

\* server.close() takes the pending instance from accept and closes it.
ClosePipe ==
    /\ pending' = None
    /\ IF pending = None THEN UNCHANGED <<conn, closes, closeErr>>
       ELSE \E done \in BOOLEAN : Release(pending, done) /\ closeErr' = ~done
    /\ UNCHANGED socket

CloseListener ==
    /\ scm = "listener"
    /\ scm' = "active"
    /\ serverClosed' = TRUE
    /\ IF Linux THEN CloseSocket ELSE ClosePipe
    /\ UNCHANGED <<platform, exit, cancelled, closed, active, snapshot, runnerClosed, loopVars,
                   connClosed, peer, preface, unclosed, infra>>

\* connNative.close of the active connection: CancelIoEx reaches an I/O that
\* was issued.
CloseActive ==
    /\ scm = "active"
    /\ \/ /\ snapshot = None \/ snapshot \in connClosed
          /\ scm' = "runner"
          /\ UNCHANGED <<connClosed, io>>
       \/ /\ snapshot # None /\ snapshot \notin connClosed
          /\ scm' = "waiting"
          /\ connClosed' = connClosed \cup {snapshot}
          /\ io' = IF io = "pending" THEN "aborted" ELSE io
    /\ UNCHANGED <<platform, exit, cancelled, hostVars, serverVars, loop, mine, stage, failure,
                   conn, peer, preface, historyVars>>

\* Then the mutexes are waited for, and the handle closed.
FinishActive ==
    /\ scm = "waiting"
    /\ io = "none"
    /\ scm' = "runner"
    /\ \E done \in BOOLEAN : Release(snapshot, done) /\ closeErr' = (closeErr \/ ~done)
    /\ UNCHANGED <<platform, exit, cancelled, closed, active, snapshot, runnerClosed, serverVars,
                   loopVars, connClosed, peer, preface, unclosed, infra>>

\* executor.Close has fifteen seconds.
CloseRunner ==
    /\ scm = "runner"
    /\ scm' = "joining"
    /\ \/ runnerClosed' = TRUE /\ UNCHANGED closeErr
       \/ closeErr' = TRUE /\ UNCHANGED runnerClosed
    /\ UNCHANGED <<platform, exit, cancelled, closed, active, snapshot, serverVars, loopVars,
                   connVars, historyVars>>

\* Fault: the loop is not waited for.
ExitAtOnce ==
    /\ scm = "joining"
    /\ scm' = "exited"
    /\ exit' = IF failure # {} \/ (Windows /\ ~cancelled) THEN "runtime"
               ELSE IF closeErr THEN "shutdown" ELSE "clean"
    /\ UNCHANGED <<platform, cancelled, hostVars, serverVars, loopVars, connVars, historyVars>>

\* stopService waits for the loop; the other ways out come after it.
Exit ==
    /\ scm = "joining" /\ loop = "done"
    /\ scm' = "exited"
    /\ exit' = IF failure # {} \/ (Windows /\ ~cancelled) THEN "runtime"
               ELSE IF closeErr THEN "shutdown" ELSE "clean"
    /\ UNCHANGED <<platform, cancelled, hostVars, serverVars, loopVars, connVars, historyVars>>

ServiceStep ==
    \/ Start \/ BeginClose \/ CloseListener \/ CloseActive \/ FinishActive
    \/ CloseRunner \/ Exit

ClientStep ==
    \E c \in Conns : ClientConnects(c) \/ ClientSendsPreface(c) \/ ClientLeaves(c)

\* What the operating system may refuse.
Fault == ListenerBreaks \/ VerifyPeerFails \/ RevertFails \/ StartFails

Next == LoopStep \/ CompleteIO \/ ServiceStep \/ ClientStep \/ Stop \/ Fault

Spec == Init /\ [][Next]_vars

\* The program's threads run, and a deadline passes when nothing else ends an
\* I/O.  A client owes nothing, not even its part of an I/O, and nobody need
\* stop the service.
Fairness == WF_vars(LoopStep) /\ WF_vars(ServiceStep)

FairSpec == Spec /\ Fairness

-----------------------------------------------------------------------------
\* Each handle is closed once, whoever takes it: the accept, the session or
\* one of the two closes; and none under an I/O on an accepted connection.
\* On Windows the loop never goes on after a connection that would not close.
\* (discardPending, transferPending, connNative.close,
\* IsRecoverableConnectionError)
HandlesOwned ==
    /\ \A c \in Conns : closes[c] <= 1
    /\ io # "none" => conn[mine] \in Handles
    /\ Windows /\ unclosed # {} => loop \in {"judge", "done"}

\* A service that reports a clean end has no thread in a connection, no
\* listener, no socket and no background process left, and has closed every
\* handle.  (stopService, Runtime.Close, Server.Close)
CleanEndIsQuiet ==
    exit = "clean" =>
        /\ loop = "done" /\ io = "none" /\ active = None /\ pending = None
        /\ serverClosed /\ runnerClosed /\ socket = "absent"
        /\ \A c \in Conns : conn[c] \in Handles => closes[c] = 1

\* A stop ends the service, whatever a client does or fails to do, also when
\* its close comes between the lock and the issue of an I/O.
\* (stopService, connNative.close)
StopCompletes == cancelled ~> scm = "exited"

\* On Linux no client keeps another one out: who is queued is accepted, or
\* the service ends.  (Server.Accept and the deadlines of a session)
QueuedAreServed ==
    \A c \in Conns : conn[c] = "queued" ~> conn[c] # "queued" \/ scm = "exited"

\* The loop is never held for good, by a client or by its own stop
\* (Runtime.HandleOne, stopService).
ServiceAnswers == StopCompletes /\ QueuedAreServed

\* A statement of the documentation that a client refutes which leaves before
\* ConnectNamedPipe: README, "Disagreements".
\* ADR 0015: "Bad peers cannot execute and do not permanently stop the
\* listener".  (connectPipe)
BadPeersDoNotStopTheListener == exit = "runtime" => infra \/ unclosed # {}
=============================================================================
