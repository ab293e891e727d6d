------------------------- MODULE BackgroundRegistry -------------------------
(***************************************************************************)
(* The in-memory registry of background process trees kept by the broker:  *)
(* src/internal/executionrun/background.go, over the Process contract of   *)
(* src/internal/executionrun/types.go.                                     *)
(*                                                                         *)
(* Threads: a handler runs one lifecycle request at a time (start, status, *)
(* logs or stop); every started entry has a monitor goroutine and a native *)
(* process tree; the closer is Runner.Close, called once after the service *)
(* context is cancelled.  backgroundMu is held by startBackground across   *)
(* launcher.Start and by nobody else for more than one step; entry.mu is   *)
(* never held across a step.                                               *)
(*                                                                         *)
(* Abstractions.  A key is the pair (session, process id).  Entries is the *)
(* pool of *backgroundProcess objects a behaviour may allocate.  Captured  *)
(* output and timestamps are left out.  Neither launcher of the repository *)
(* returns a process together with an error, a nil Exit channel or a nil   *)
(* timer, so those branches of the code are unreachable here.              *)
(***************************************************************************)
EXTENDS Integers, FiniteSets

CONSTANTS
    Keys,           \* backgroundKey(session, process)
    Dirs,           \* canonical working directories
    Entries,        \* entry objects that may be allocated
    Handlers,       \* threads that may call Runner.Run
    MaxBackground,  \* maxBackgroundProcesses (32 in the code)
    FailingSites,   \* callers whose TerminateTree may return an error
    NoEntry,        \* the nil entry
    NoHandler       \* backgroundMu is free

Sites == {"stop", "lifetime", "close"}

ASSUME ConstantsAssumption ==
    /\ MaxBackground \in Nat \ {0}
    /\ FailingSites \subseteq Sites
    /\ NoEntry \notin Entries
    /\ NoHandler \notin Handlers

VARIABLES
    background,        \* runner.background: key -> entry
    mutex,             \* holder of runner.backgroundMu
    workingDirectory,  \* entry.workingDirectory
    state,             \* entry.state; "unused" before the entry is allocated
    reason,            \* entry.reason
    exitCode,          \* entry.exitCode # nil
    monitor,           \* where monitorBackground(entry) is
    verdict,           \* what it is about to pass to entry.finish
    tree,              \* the native process tree
    pc, request, found, reply,        \* per handler
    closer, todo, closing, closeErr,  \* Runner.Close
    cancelled          \* the service context is done

entryVars   == <<workingDirectory, state, reason, exitCode>>
monitorVars == <<monitor, verdict>>
handlerVars == <<pc, request, found, reply>>
closerVars  == <<closer, todo, closing, closeErr>>
vars == <<background, mutex, entryVars, monitorVars, tree, handlerVars,
          closerVars, cancelled>>

Terminal  == {"exited", "stopped", "timed_out", "runtime_failed"}
Reasons   == {"none", "stopped", "timed_out"}
Verdicts  == [state : Terminal \cup {"pending"}, code : BOOLEAN]
NoVerdict == [state |-> "pending", code |-> FALSE]

Operations == {"start", "status", "logs", "stop"}
Requests   == [op : Operations, key : Keys, dir : Dirs]
Idle       == [op |-> "idle"]
Replies    == [status : {"none", "completed", "failed", "runtime_failed"},
               state : Terminal \cup {"running", "none"}]
NoReply    == [status |-> "none", state |-> "none"]
Denied     == [status |-> "failed", state |-> "none"]
StopFailed == [status |-> "runtime_failed", state |-> "none"]

HandlerSteps == {"idle", "start", "launching", "spawning", "find", "stopping",
                 "marking", "terminating", "awaiting", "removing", "responding"}
MonitorSteps == {"none", "watching", "terminating", "waiting", "finishing", "over"}
CloserSteps  == {"idle", "next", "marking", "terminating", "awaiting", "closed"}
TreeStates   == {"none", "alive", "reaped", "signalled"}

TypeOK ==
    /\ background \in [Keys -> Entries \cup {NoEntry}]
    /\ mutex \in Handlers \cup {NoHandler}
    /\ workingDirectory \in [Entries -> Dirs \cup {"none"}]
    /\ state \in [Entries -> Terminal \cup {"unused", "running"}]
    /\ reason \in [Entries -> Reasons]
    /\ exitCode \in [Entries -> BOOLEAN]
    /\ monitor \in [Entries -> MonitorSteps]
    /\ verdict \in [Entries -> Verdicts]
    /\ tree \in [Entries -> TreeStates]
    /\ pc \in [Handlers -> HandlerSteps]
    /\ request \in [Handlers -> Requests \cup {Idle}]
    /\ found \in [Handlers -> Entries \cup {NoEntry}]
    /\ reply \in [Handlers -> Replies]
    /\ closer \in CloserSteps
    /\ todo \in SUBSET Entries
    /\ closing \in Entries \cup {NoEntry}
    /\ closeErr \in BOOLEAN
    /\ cancelled \in BOOLEAN

Init ==
    /\ background = [k \in Keys |-> NoEntry]
    /\ mutex = NoHandler
    /\ workingDirectory = [e \in Entries |-> "none"]
    /\ state = [e \in Entries |-> "unused"]
    /\ reason = [e \in Entries |-> "none"]
    /\ exitCode = [e \in Entries |-> FALSE]
    /\ monitor = [e \in Entries |-> "none"]
    /\ verdict = [e \in Entries |-> NoVerdict]
    /\ tree = [e \in Entries |-> "none"]
    /\ pc = [h \in Handlers |-> "idle"]
    /\ request = [h \in Handlers |-> Idle]
    /\ found = [h \in Handlers |-> NoEntry]
    /\ reply = [h \in Handlers |-> NoReply]
    /\ closer = "idle"
    /\ todo = {}
    /\ closing = NoEntry
    /\ closeErr = FALSE
    /\ cancelled = FALSE

-----------------------------------------------------------------------------
(***************************************************************************)
(* Helpers.                                                                *)
(***************************************************************************)
Registered == {k \in Keys : background[k] # NoEntry}

\* Fault: the last writer wins.
SetReasonLastWins(e, why) == reason' = [reason EXCEPT ![e] = why]

\* entry.setReason: the first writer wins.
SetReason(e, why) ==
    reason' = [reason EXCEPT ![e] = IF @ = "none" THEN why ELSE @]

\* A thread is inside TerminateTree(e).
Terminating(e) ==
    \/ monitor[e] = "terminating"
    \/ \E h \in Handlers : pc[h] = "terminating" /\ found[h] = e
    \/ closer = "terminating" /\ closing = e

\* TerminateTree(e) returns nil only once the tree is reaped and its done
\* channel is closed.
TerminateReturnsNil(e) == tree[e] = "signalled"

\* It returns an error when its deadline passes or the native call fails; and,
\* whatever the caller, in the window where the job handle is already closed
\* while done is not (the Windows process).
TerminateReturnsError(e, site) ==
    \/ site \in FailingSites
    \/ tree[e] = "reaped"

Answer(h, answer) ==
    /\ pc' = [pc EXCEPT ![h] = "idle"]
    /\ reply' = [reply EXCEPT ![h] = answer]
    /\ UNCHANGED <<request, found>>

Goto(h, step) ==
    /\ pc' = [pc EXCEPT ![h] = step]
    /\ UNCHANGED <<request, found, reply>>

-----------------------------------------------------------------------------
(***************************************************************************)
(* Handlers: runBackground.                                                *)
(***************************************************************************)
\* The session checks its context just before Runner.Run.
Begin(h, req) ==
    /\ pc[h] = "idle"
    /\ ~cancelled
    /\ pc' = [pc EXCEPT ![h] = IF req.op = "start" THEN "start" ELSE "find"]
    /\ request' = [request EXCEPT ![h] = req]
    /\ found' = [found EXCEPT ![h] = NoEntry]
    /\ reply' = [reply EXCEPT ![h] = NoReply]
    /\ UNCHANGED <<background, mutex, entryVars, monitorVars, tree, closerVars,
                   cancelled>>

\* Fault: an early return keeps the mutex.
StartDeniedKeepsLock(h) ==
    /\ pc[h] = "start"
    /\ mutex = NoHandler
    /\ \/ background[request[h].key] # NoEntry
       \/ Cardinality(Registered) >= MaxBackground
    /\ mutex' = h
    /\ Answer(h, Denied)
    /\ UNCHANGED <<background, entryVars, monitorVars, tree, closerVars, cancelled>>

\* startBackground takes backgroundMu and keeps it until the entry is
\* registered or the launch has failed.
StartDenied(h) ==
    /\ pc[h] = "start"
    /\ mutex = NoHandler
    /\ \/ background[request[h].key] # NoEntry
       \/ Cardinality(Registered) >= MaxBackground
    /\ Answer(h, Denied)
    /\ UNCHANGED <<background, mutex, entryVars, monitorVars, tree, closerVars,
                   cancelled>>

StartAdmitted(h) ==
    /\ pc[h] = "start"
    /\ mutex = NoHandler
    /\ background[request[h].key] = NoEntry
    /\ Cardinality(Registered) < MaxBackground
    /\ mutex' = h
    /\ Goto(h, "launching")
    /\ UNCHANGED <<background, entryVars, monitorVars, tree, closerVars, cancelled>>

\* launcher.Start consults the context before it creates a process.
LaunchResolves(h) ==
    /\ pc[h] = "launching"
    /\ ~cancelled
    /\ Goto(h, "spawning")
    /\ UNCHANGED <<background, mutex, entryVars, monitorVars, tree, closerVars,
                   cancelled>>

LaunchFails(h) ==
    /\ pc[h] \in {"launching", "spawning"}
    /\ mutex' = NoHandler
    /\ Answer(h, Denied)
    /\ UNCHANGED <<background, entryVars, monitorVars, tree, closerVars, cancelled>>

\* The process exists, the entry is registered under the key, the mutex is
\* released and the monitor goroutine starts.
Spawn(h, e) ==
    /\ pc[h] = "spawning"
    /\ state[e] = "unused"
    /\ state' = [state EXCEPT ![e] = "running"]
    /\ workingDirectory' = [workingDirectory EXCEPT ![e] = request[h].dir]
    /\ tree' = [tree EXCEPT ![e] = "alive"]
    /\ background' = [background EXCEPT ![request[h].key] = e]
    /\ monitor' = [monitor EXCEPT ![e] = "watching"]
    /\ mutex' = NoHandler
    /\ found' = [found EXCEPT ![h] = e]
    /\ pc' = [pc EXCEPT ![h] = "responding"]
    /\ UNCHANGED <<reason, exitCode, verdict, request, reply, closerVars, cancelled>>

\* findBackground: same key and same working directory.
Owns(h) ==
    LET e == background[request[h].key]
    IN  e # NoEntry /\ workingDirectory[e] = request[h].dir

NotFound(h) ==
    /\ pc[h] = "find"
    /\ mutex = NoHandler
    /\ ~Owns(h)
    /\ Answer(h, IF request[h].op = "stop" THEN StopFailed ELSE Denied)
    /\ UNCHANGED <<background, mutex, entryVars, monitorVars, tree, closerVars,
                   cancelled>>

Find(h) ==
    /\ pc[h] = "find"
    /\ mutex = NoHandler
    /\ Owns(h)
    /\ found' = [found EXCEPT ![h] = background[request[h].key]]
    /\ pc' = [pc EXCEPT ![h] = IF request[h].op = "stop" THEN "stopping"
                                                         ELSE "responding"]
    /\ UNCHANGED <<background, mutex, entryVars, monitorVars, tree, request,
                   reply, closerVars, cancelled>>

\* entry.running(): a finished entry is removed without another termination.
StopChecks(h) ==
    /\ pc[h] = "stopping"
    /\ Goto(h, IF state[found[h]] = "running" THEN "marking" ELSE "removing")
    /\ UNCHANGED <<background, mutex, entryVars, monitorVars, tree, closerVars,
                   cancelled>>

StopMarks(h) ==
    /\ pc[h] = "marking"
    /\ SetReason(found[h], "stopped")
    /\ Goto(h, "terminating")
    /\ UNCHANGED <<background, mutex, workingDirectory, state, exitCode,
                   monitorVars, tree, closerVars, cancelled>>

StopTerminated(h) ==
    /\ pc[h] = "terminating"
    /\ TerminateReturnsNil(found[h])
    /\ Goto(h, "awaiting")
    /\ UNCHANGED <<background, mutex, entryVars, monitorVars, tree, closerVars,
                   cancelled>>

\* Fault: a failed termination still removes the entry.
StopTerminateFailsRemoves(h) ==
    /\ pc[h] = "terminating"
    /\ TerminateReturnsError(found[h], "stop")
    /\ Goto(h, "removing")
    /\ UNCHANGED <<background, mutex, entryVars, monitorVars, tree, closerVars,
                   cancelled>>

StopTerminateFails(h) ==
    /\ pc[h] = "terminating"
    /\ TerminateReturnsError(found[h], "stop")
    /\ Answer(h, StopFailed)
    /\ UNCHANGED <<background, mutex, entryVars, monitorVars, tree, closerVars,
                   cancelled>>

\* done is closed by entry.finish, in the step that sets the state.
StopSettles(h) ==
    /\ pc[h] = "awaiting"
    /\ state[found[h]] # "running"
    /\ Goto(h, "removing")
    /\ UNCHANGED <<background, mutex, entryVars, monitorVars, tree, closerVars,
                   cancelled>>

StopCancelled(h) ==
    /\ pc[h] = "awaiting"
    /\ cancelled
    /\ Answer(h, StopFailed)
    /\ UNCHANGED <<background, mutex, entryVars, monitorVars, tree, closerVars,
                   cancelled>>

\* Fault: the key is deleted whatever it names by now.
RemoveWhatever(h) ==
    /\ pc[h] = "removing"
    /\ mutex = NoHandler
    /\ background' = [background EXCEPT ![request[h].key] = NoEntry]
    /\ Goto(h, "responding")
    /\ UNCHANGED <<mutex, entryVars, monitorVars, tree, closerVars, cancelled>>

\* removeBackground deletes the key only while it still names this entry.
Remove(h) ==
    /\ pc[h] = "removing"
    /\ mutex = NoHandler
    /\ background' = [background EXCEPT
                        ![request[h].key] = IF @ = found[h] THEN NoEntry ELSE @]
    /\ Goto(h, "responding")
    /\ UNCHANGED <<mutex, entryVars, monitorVars, tree, closerVars, cancelled>>

\* backgroundResponse reports entry.snapshotState().
Respond(h) ==
    /\ pc[h] = "responding"
    /\ Answer(h, [status |-> "completed", state |-> state[found[h]]])
    /\ UNCHANGED <<background, mutex, entryVars, monitorVars, tree, closerVars,
                   cancelled>>

-----------------------------------------------------------------------------
(***************************************************************************)
(* monitorBackground(e).                                                   *)
(***************************************************************************)

\* A received exit either carries a code in range or is a runtime failure.
ExitVerdict(e, clean, orElse) ==
    verdict' = [verdict EXCEPT ![e] =
        IF clean THEN [state |-> IF reason[e] # "none" THEN reason[e] ELSE orElse,
                       code |-> TRUE]
                 ELSE [state |-> "runtime_failed", code |-> FALSE]]

MonitorExit(e, clean) ==
    /\ monitor[e] = "watching"
    /\ tree[e] = "signalled"
    /\ ExitVerdict(e, clean, "exited")
    /\ monitor' = [monitor EXCEPT ![e] = "finishing"]
    /\ UNCHANGED <<background, mutex, entryVars, tree, handlerVars, closerVars,
                   cancelled>>

\* The timer branch.  When stop or Close set the reason first, the monitor
\* leaves the termination to them and waits for the exit.
LifetimeExpires(e) ==
    /\ monitor[e] = "watching"
    /\ SetReason(e, "timed_out")
    /\ monitor' = [monitor EXCEPT ![e] = IF reason'[e] = "timed_out"
                                         THEN "terminating" ELSE "waiting"]
    /\ UNCHANGED <<background, mutex, workingDirectory, state, exitCode, verdict,
                   tree, handlerVars, closerVars, cancelled>>

LifetimeTerminated(e) ==
    /\ monitor[e] = "terminating"
    /\ TerminateReturnsNil(e)
    /\ verdict' = [verdict EXCEPT ![e] = [state |-> "timed_out", code |-> FALSE]]
    /\ monitor' = [monitor EXCEPT ![e] = "finishing"]
    /\ UNCHANGED <<background, mutex, entryVars, tree, handlerVars, closerVars,
                   cancelled>>

\* Fault: the error of the termination is ignored.
LifetimeTerminateFailsUnnoticed(e) ==
    /\ monitor[e] = "terminating"
    /\ TerminateReturnsError(e, "lifetime")
    /\ verdict' = [verdict EXCEPT ![e] = [state |-> "timed_out", code |-> FALSE]]
    /\ monitor' = [monitor EXCEPT ![e] = "finishing"]
    /\ UNCHANGED <<background, mutex, entryVars, tree, handlerVars, closerVars,
                   cancelled>>

LifetimeTerminateFails(e) ==
    /\ monitor[e] = "terminating"
    /\ TerminateReturnsError(e, "lifetime")
    /\ verdict' = [verdict EXCEPT ![e] = [state |-> "runtime_failed", code |-> FALSE]]
    /\ monitor' = [monitor EXCEPT ![e] = "finishing"]
    /\ UNCHANGED <<background, mutex, entryVars, tree, handlerVars, closerVars,
                   cancelled>>

MonitorLateExit(e, clean) ==
    /\ monitor[e] = "waiting"
    /\ tree[e] = "signalled"
    /\ ExitVerdict(e, clean, reason[e])
    /\ monitor' = [monitor EXCEPT ![e] = "finishing"]
    /\ UNCHANGED <<background, mutex, entryVars, tree, handlerVars, closerVars,
                   cancelled>>

\* entry.finish, once, and the close of entry.done.
Finish(e) ==
    /\ monitor[e] = "finishing"
    /\ state' = [state EXCEPT ![e] = verdict[e].state]
    /\ exitCode' = [exitCode EXCEPT ![e] = verdict[e].code]
    /\ monitor' = [monitor EXCEPT ![e] = "over"]
    /\ UNCHANGED <<background, mutex, workingDirectory, reason, verdict, tree,
                   handlerVars, closerVars, cancelled>>

-----------------------------------------------------------------------------
(***************************************************************************)
(* The native process tree: it ends by itself or because a thread is in    *)
(* TerminateTree; the wait goroutine reaps it, then signals Exit and done. *)
(***************************************************************************)
TreeReaped(e) ==
    /\ tree[e] = "alive"
    /\ tree' = [tree EXCEPT ![e] = "reaped"]
    /\ UNCHANGED <<background, mutex, entryVars, monitorVars, handlerVars,
                   closerVars, cancelled>>

TreeSignals(e) ==
    /\ tree[e] = "reaped"
    /\ tree' = [tree EXCEPT ![e] = "signalled"]
    /\ UNCHANGED <<background, mutex, entryVars, monitorVars, handlerVars,
                   closerVars, cancelled>>

-----------------------------------------------------------------------------
(***************************************************************************)
(* Shutdown: the service cancels its context, then Runner.Close.           *)
(***************************************************************************)
Cancel ==
    /\ ~cancelled
    /\ cancelled' = TRUE
    /\ UNCHANGED <<background, mutex, entryVars, monitorVars, tree, handlerVars,
                   closerVars>>

\* Fault: the snapshot is taken without the mutex.
CloseSnapshotsUnlocked ==
    /\ closer = "idle"
    /\ cancelled
    /\ todo' = {background[k] : k \in Registered}
    /\ closer' = "next"
    /\ UNCHANGED <<background, mutex, entryVars, monitorVars, tree, handlerVars,
                   closing, closeErr, cancelled>>

CloseSnapshots ==
    /\ closer = "idle"
    /\ cancelled
    /\ mutex = NoHandler
    /\ todo' = {background[k] : k \in Registered}
    /\ closer' = "next"
    /\ UNCHANGED <<background, mutex, entryVars, monitorVars, tree, handlerVars,
                   closing, closeErr, cancelled>>

\* A finished entry is skipped.
CloseNext(e) ==
    /\ closer = "next"
    /\ e \in todo
    /\ todo' = todo \ {e}
    /\ IF state[e] = "running"
       THEN closing' = e /\ closer' = "marking"
       ELSE UNCHANGED <<closing, closer>>
    /\ UNCHANGED <<background, mutex, entryVars, monitorVars, tree, handlerVars,
                   closeErr, cancelled>>

CloseMarks ==
    /\ closer = "marking"
    /\ SetReason(closing, "stopped")
    /\ closer' = "terminating"
    /\ UNCHANGED <<background, mutex, workingDirectory, state, exitCode,
                   monitorVars, tree, handlerVars, todo, closing, closeErr, cancelled>>

CloseTerminated ==
    /\ closer = "terminating"
    /\ TerminateReturnsNil(closing)
    /\ closer' = "awaiting"
    /\ UNCHANGED <<background, mutex, entryVars, monitorVars, tree, handlerVars,
                   todo, closing, closeErr, cancelled>>

\* TerminateTree fails, or the 15 s close context ends while Close waits.
CloseFails ==
    /\ \/ closer = "terminating" /\ TerminateReturnsError(closing, "close")
       \/ closer = "awaiting" /\ "close" \in FailingSites
    /\ closer' = "next"
    /\ closing' = NoEntry
    /\ closeErr' = TRUE
    /\ UNCHANGED <<background, mutex, entryVars, monitorVars, tree, handlerVars,
                   todo, cancelled>>

CloseSettles ==
    /\ closer = "awaiting"
    /\ state[closing] # "running"
    /\ closer' = "next"
    /\ closing' = NoEntry
    /\ UNCHANGED <<background, mutex, entryVars, monitorVars, tree, handlerVars,
                   todo, closeErr, cancelled>>

CloseReturns ==
    /\ closer = "next"
    /\ todo = {}
    /\ closer' = "closed"
    /\ UNCHANGED <<background, mutex, entryVars, monitorVars, tree, handlerVars,
                   todo, closing, closeErr, cancelled>>

-----------------------------------------------------------------------------
Launch(h) == LaunchResolves(h) \/ LaunchFails(h) \/ \E e \in Entries : Spawn(h, e)

Stop(h) ==
    \/ StopChecks(h) \/ StopMarks(h)
    \/ StopTerminated(h) \/ StopTerminateFails(h)
    \/ StopSettles(h) \/ StopCancelled(h) \/ Remove(h)

HandlerStep(h) ==
    \/ StartDenied(h) \/ StartAdmitted(h) \/ Launch(h)
    \/ NotFound(h) \/ Find(h) \/ Stop(h) \/ Respond(h)

MonitorReceives(e) ==
    \E clean \in BOOLEAN : MonitorExit(e, clean) \/ MonitorLateExit(e, clean)

MonitorStep(e) ==
    \/ MonitorReceives(e) \/ LifetimeExpires(e)
    \/ LifetimeTerminated(e) \/ LifetimeTerminateFails(e) \/ Finish(e)

CloserStep ==
    \/ CloseSnapshots \/ (\E e \in Entries : CloseNext(e)) \/ CloseMarks
    \/ CloseTerminated \/ CloseFails \/ CloseSettles \/ CloseReturns

Next ==
    \/ \E h \in Handlers : (\E req \in Requests : Begin(h, req)) \/ HandlerStep(h)
    \/ \E e \in Entries : MonitorStep(e) \/ TreeReaped(e) \/ TreeSignals(e)
    \/ Cancel \/ CloserStep

\* The service process has nothing left to do: it exits.
Terminated ==
    /\ closer = "closed"
    /\ \A h \in Handlers : pc[h] = "idle"
    /\ UNCHANGED vars

Spec == Init /\ [][Next \/ Terminated]_vars

(***************************************************************************)
(* Fairness.  Goroutines are scheduled, the lifetime timer fires, a tree   *)
(* somebody is terminating dies and its wait goroutine signals.  A process *)
(* nobody terminates may run for ever, and nobody is obliged to send a     *)
(* request.  sync.Mutex hands the lock to a waiter that has waited 1 ms,   *)
(* hence strong fairness for the steps that need it free.                  *)
(***************************************************************************)
TakesMutex(h) ==
    StartDenied(h) \/ StartAdmitted(h) \/ NotFound(h) \/ Find(h) \/ Remove(h)

Fairness ==
    /\ \A h \in Handlers : WF_vars(HandlerStep(h)) /\ SF_vars(TakesMutex(h))
    /\ \A e \in Entries :
          /\ WF_vars(MonitorStep(e))
          /\ WF_vars(Terminating(e) /\ TreeReaped(e))
          /\ WF_vars(TreeSignals(e))
    /\ WF_vars(CloserStep)
    /\ SF_vars(CloseSnapshots)

FairSpec == Spec /\ Fairness

-----------------------------------------------------------------------------
(***************************************************************************)
(* Properties.                                                             *)
(***************************************************************************)
\* A running entry is always reachable through its key: neither a stop that
\* found an earlier entry of the key nor a new start loses track of it
\* (removeBackground's comparison, startBackground's duplicate check).
RunningRegistered ==
    \A e \in Entries : state[e] = "running" => \E k \in Keys : background[k] = e

\* The registry never holds more than maxBackgroundProcesses entries, although
\* admission, launch and registration are separated by a blocking launch.
CapacityBound == Cardinality(Registered) <= MaxBackground

\* The registry is what its callers take it for: nothing that runs is lost
\* and no start was one too many (startBackground, removeBackground).
RegistryConsistent == RunningRegistered /\ CapacityBound

\* What an entry finally says agrees with why it ended, whichever of exit,
\* timer, stop and Close came first: exited, stopped and timed_out are only
\* said of a reaped tree, timed_out only when the timer won, stopped only when
\* stop or Close won, and a code is reported for exited and stopped alone.
VerdictAgrees ==
    \A e \in Entries : state[e] \in Terminal =>
        /\ state[e] # "runtime_failed" => tree[e] = "signalled"
        /\ state[e] = "timed_out" => reason[e] = "timed_out"
        /\ state[e] = "stopped" => reason[e] = "stopped"
        /\ state[e] = "exited" => reason[e] # "timed_out"
        /\ exitCode[e] <=> state[e] \in {"exited", "stopped"}

\* The one way a live tree may outlive its entry: the termination that its
\* lifetime asked for returned an error.
Abandoned(e) ==
    state[e] = "runtime_failed" /\ reason[e] = "timed_out" /\ "lifetime" \in FailingSites

\* A live tree is running and owned through its key, or abandoned: no other
\* interleaving of exit, timer, stop and Close loses one.
LiveTreeOwned ==
    \A e \in Entries : tree[e] = "alive" =>
        \/ state[e] = "running" /\ \E k \in Keys : background[k] = e
        \/ Abandoned(e)

CompletedStop(h) ==
    pc[h] = "idle" /\ request[h].op = "stop" /\ reply[h].status = "completed"

\* A completed stop reports a final state and its tree is reaped, unless it was
\* abandoned before (stopBackground waits for the tree and for done).
StopReapsTree ==
    \A h \in Handlers : CompletedStop(h) =>
        /\ reply[h].state \in Terminal
        /\ tree[found[h]] = "alive" => Abandoned(found[h])

\* After Runner.Close returned without an error every tree is reaped or was
\* abandoned, also one whose start was in flight when the service was stopped.
CloseReapsEveryTree ==
    closer = "closed" /\ ~closeErr =>
        \A e \in Entries : tree[e] = "alive" => Abandoned(e)

\* Whoever was told that a tree is gone, the caller of stop or the service at
\* its end, was told the truth, but for a tree whose termination at its
\* lifetime had failed (stopBackground, Runner.Close).
TreesReaped == StopReapsTree /\ CloseReapsEveryTree

\* What an entry reported as final never changes, and its first reason stays.
FinalStateKept ==
    \A e \in Entries :
        /\ state[e] \in Terminal => state'[e] = state[e] /\ exitCode'[e] = exitCode[e]
        /\ reason[e] # "none" => reason'[e] = reason[e]
FinalStatesStable == [][FinalStateKept]_vars

\* Every started tree is eventually reaped and its entry final: the accepted
\* lifetime bounds it even when nobody ever stops it.
EntriesSettle ==
    \A e \in Entries : state[e] = "running" ~> state[e] \in Terminal /\ tree[e] # "alive"

\* Every lifecycle request is answered and Close returns: the mutex held over
\* a launch, the waits for done and the terminations never block each other.
RequestsAnswered == \A h \in Handlers : pc[h] # "idle" ~> pc[h] = "idle"
CloseCompletes == cancelled ~> closer = "closed"

\* Nothing in the registry waits for ever: trees, requests and the close
\* come to their ends (monitorBackground, runBackground, Runner.Close).
EverythingSettles == EntriesSettle /\ RequestsAnswered /\ CloseCompletes

\* Two statements of the documentation that the code does not keep when a
\* termination fails: README, "Disagreements".
\* docs/adr/0020: "Lifetime expiry terminates the tree and records `timed_out`".
LifetimeExpiryReaps ==
    \A e \in Entries : monitor[e] = "watching" ~> tree[e] # "alive"

\* docs/adr/0020: "`stop` synchronously terminates and reaps the registered tree
\* before removing its key".
StopIsSynchronous ==
    \A h \in Handlers : CompletedStop(h) => tree[found[h]] # "alive"
=============================================================================
