--------------------------- MODULE WindowsProcess ---------------------------
(***************************************************************************)
(* The Windows process boundary: src/internal/platform/windows/process.    *)
(*                                                                         *)
(* Start acquires a token lease (logon and loaded profile), makes the      *)
(* capture pipes and a job object, creates the leader suspended, puts it   *)
(* into the job, starts the goroutines and resumes it.  Whatever fails on  *)
(* the way, its deferred functions release what Start still owns; once the *)
(* goroutines run, wait() owns everything.  Any number of threads may call *)
(* TerminateTree, Start itself among them.                                 *)
(*                                                                         *)
(* The job kills its processes when it is terminated or its last handle is *)
(* closed, and a process of the job forks within it.  The workload is the  *)
(* environment: it forks, closes the pipes, hands them to a process that   *)
(* was never in the job, and exits when it pleases.  A terminated process  *)
(* runs no more, but counts and holds its handles until it is gone.        *)
(* TerminateJobObject and the queries of a valid job succeed.  The three   *)
(* pipes are one, the goroutine that writes the script is one of its       *)
(* readers.  Every bound on time may be taken late or not at all.          *)
(***************************************************************************)
EXTENDS Naturals, FiniteSets

CONSTANTS
    Procs,      \* bound: processes of the workload
    Leader,     \* the process Start creates
    Callers,    \* threads that may call TerminateTree
    Starter     \* the thread in Start

ASSUME ProcessAssumption == Leader \in Procs /\ Starter \notin Callers

VARIABLES
    start,      \* where Start is
    life,       \* of each process
    job,        \* the processes of the job
    holds,      \* processes with the capture pipes open
    outsider,   \* a process outside the job has them open
    owned,      \* handles Start has not released or given away
    closes,     \* history: times each handle was released
    waiter,     \* where wait() is
    failed,     \* runtimeFail
    call        \* where each TerminateTree is

procVars == <<life, job, holds, outsider>>
handleVars == <<owned, closes>>
vars == <<start, procVars, handleVars, waiter, failed, call>>

Lease == {"profile", "token"}
Handles == Lease \cup {"pipes", "job", "process", "thread"}
Threads == Callers \cup {Starter}
Existing == {"suspended", "alive", "dying"}

TypeOK ==
    /\ start \in {"logon", "profile", "identity", "input", "pipes", "job", "create", "assign", "files", "resume",
                  "thread", "cleanup", "returned", "failed"}
    /\ life \in [Procs -> Existing \cup {"unborn", "gone"}]
    /\ job \subseteq Procs /\ holds \subseteq Procs /\ outsider \in BOOLEAN
    /\ owned \subseteq Handles /\ closes \in [Handles -> Nat]
    /\ waiter \in {"none", "leader", "counting", "polling", "draining", "process", "job",
                   "lease", "signal", "closing", "over"}
    /\ failed \in BOOLEAN
    /\ call \in [Threads -> {"idle", "checked", "waiting", "nil", "error"}]

Init ==
    /\ start = "logon"
    /\ life = [p \in Procs |-> "unborn"]
    /\ job = {} /\ holds = {} /\ outsider = FALSE
    /\ owned = {} /\ closes = [h \in Handles |-> 0]
    /\ waiter = "none" /\ failed = FALSE
    /\ call = [t \in Threads |-> "idle"]

-----------------------------------------------------------------------------
(***************************************************************************)
(* The workload and the kernel.                                            *)
(***************************************************************************)
\* TerminateProcess, TerminateJobObject and the close of the job's handle.
Terminated(ps) == [p \in Procs |-> IF p \in ps /\ life[p] \in {"suspended", "alive"}
                                   THEN "dying" ELSE life[p]]

Fork(p, c) ==
    /\ life[p] = "alive" /\ life[c] = "unborn"
    /\ life' = [life EXCEPT ![c] = "alive"]
    /\ job' = IF p \in job THEN job \cup {c} ELSE job
    /\ holds' = IF p \in holds THEN holds \cup {c} ELSE holds
    /\ UNCHANGED <<start, outsider, handleVars, waiter, failed, call>>

CloseOutput(p) ==
    /\ life[p] = "alive" /\ p \in holds
    /\ holds' = holds \ {p}
    /\ UNCHANGED <<start, life, job, outsider, handleVars, waiter, failed, call>>

HandOutput(p) ==
    /\ life[p] = "alive" /\ p \in holds /\ ~outsider
    /\ outsider' = TRUE
    /\ UNCHANGED <<start, life, job, holds, handleVars, waiter, failed, call>>

OutsiderCloses ==
    /\ outsider
    /\ outsider' = FALSE
    /\ UNCHANGED <<start, life, job, holds, handleVars, waiter, failed, call>>

Die(p) ==
    /\ life[p] \in {"alive", "dying"}
    /\ life' = [life EXCEPT ![p] = "gone"]
    /\ holds' = holds \ {p}
    /\ UNCHANGED <<start, job, outsider, handleVars, waiter, failed, call>>

Workload ==
    \/ \E p \in Procs :
          \/ (\E c \in Procs : Fork(p, c))
          \/ CloseOutput(p) \/ HandOutput(p) \/ Die(p)
    \/ OutsiderCloses

Active == {p \in job : life[p] \in Existing}

-----------------------------------------------------------------------------
(***************************************************************************)
(* Start.                                                                  *)
(***************************************************************************)
Close(hs) == closes' = [h \in Handles |-> IF h \in hs THEN closes[h] + 1 ELSE closes[h]]

\* Fault: only the job ends its processes.
AbandonSparesLeader ==
    /\ start' = "failed"
    /\ Close(owned) /\ owned' = {}
    /\ life' = Terminated(IF "job" \in owned THEN job ELSE {})
    /\ UNCHANGED <<job, holds, outsider, waiter, failed, call>>

\* The deferred functions: the leader is terminated and waited for, the job
\* closed, which kills what is in it, then pipes and lease.
Abandon ==
    /\ start' = "failed"
    /\ Close(owned) /\ owned' = {}
    /\ life' = Terminated((IF "process" \in owned THEN {Leader} ELSE {})
                              \cup (IF "job" \in owned THEN job ELSE {}))
    /\ UNCHANGED <<job, holds, outsider, waiter, failed, call>>

Gains(handles, next) ==
    /\ owned' = owned \cup handles
    /\ start' = next

\* FileTokenSource.Acquire: the credential is read and used for a batch logon.
Logon ==
    /\ start = "logon"
    /\ Gains({"token"}, "profile")
    /\ UNCHANGED <<procVars, closes, waiter, failed, call>>

LogonFails ==
    /\ start = "logon"
    /\ start' = "failed"
    /\ UNCHANGED <<procVars, handleVars, waiter, failed, call>>

LoadProfile ==
    /\ start = "profile"
    /\ Gains({"profile"}, "identity")
    /\ UNCHANGED <<procVars, closes, waiter, failed, call>>

\* The token is somebody else's.
IdentityRefused == start = "identity" /\ Abandon
IdentityVerified == start = "identity" /\ Gains({}, "input")
                    /\ UNCHANGED <<procVars, closes, waiter, failed, call>>

\* The command line or the environment does not fit.
InputRefused == start = "input" /\ Abandon
InputBuilt == start = "input" /\ Gains({}, "pipes")
              /\ UNCHANGED <<procVars, closes, waiter, failed, call>>

StartFails ==
    /\ start \in {"profile", "pipes", "job", "create", "assign", "files"}
    /\ Abandon

MakePipes ==
    /\ start = "pipes"
    /\ Gains({"pipes"}, "job")
    /\ UNCHANGED <<procVars, closes, waiter, failed, call>>

MakeJob ==
    /\ start = "job"
    /\ Gains({"job"}, "create")
    /\ UNCHANGED <<procVars, closes, waiter, failed, call>>

\* Fault: the leader is not created suspended.
CreateRunning ==
    /\ start = "create"
    /\ life' = [life EXCEPT ![Leader] = "alive"]
    /\ holds' = {Leader}
    /\ Gains({"process", "thread"}, "assign")
    /\ UNCHANGED <<job, outsider, closes, waiter, failed, call>>

CreateSuspended ==
    /\ start = "create"
    /\ life' = [life EXCEPT ![Leader] = "suspended"]
    /\ holds' = {Leader}
    /\ Gains({"process", "thread"}, "assign")
    /\ UNCHANGED <<job, outsider, closes, waiter, failed, call>>

AssignToJob ==
    /\ start = "assign"
    /\ job' = {Leader}
    /\ start' = "files"
    /\ UNCHANGED <<life, holds, outsider, handleVars, waiter, failed, call>>

\* The pipes become files of the goroutines.
StartGoroutines ==
    /\ start = "files"
    /\ owned' = owned \ {"pipes"}
    /\ waiter' = "leader"
    /\ start' = "resume"
    /\ UNCHANGED <<procVars, closes, failed, call>>

Resume ==
    /\ start = "resume"
    /\ life' = [life EXCEPT ![Leader] = IF @ = "suspended" THEN "alive" ELSE @]
    /\ start' = "thread"
    /\ UNCHANGED <<job, holds, outsider, handleVars, waiter, failed, call>>

\* From here wait() owns what is left, and Start terminates the tree.
ResumeFails ==
    /\ start = "resume"
    /\ Close({"thread"})
    /\ owned' = {}
    /\ start' = "cleanup"
    /\ UNCHANGED <<procVars, waiter, failed, call>>

CloseThread ==
    /\ start = "thread"
    /\ Close({"thread"})
    /\ owned' = {}
    /\ start' \in {"returned", "cleanup"}
    /\ UNCHANGED <<procVars, waiter, failed, call>>

Cleaned ==
    /\ start = "cleanup"
    /\ call[Starter] \in {"nil", "error"}
    /\ Abandon

StartStep ==
    \/ Logon \/ LogonFails \/ LoadProfile \/ IdentityRefused \/ IdentityVerified
    \/ InputRefused \/ InputBuilt \/ StartFails \/ MakePipes \/ MakeJob \/ CreateSuspended
    \/ AssignToJob \/ StartGoroutines \/ Resume \/ ResumeFails \/ CloseThread \/ Cleaned

-----------------------------------------------------------------------------
(***************************************************************************)
(* wait().                                                                 *)
(***************************************************************************)
unchangedByWaiter == <<start, outsider, owned, call>>

WaitLeader ==
    /\ waiter = "leader" /\ life[Leader] = "gone"
    /\ waiter' = "counting"
    /\ UNCHANGED <<unchangedByWaiter, life, job, holds, closes, failed>>

\* terminateAndWait: what the leader left in the job is terminated.
Count ==
    /\ waiter = "counting"
    /\ life' = Terminated(job)
    /\ waiter' = "polling"
    /\ UNCHANGED <<unchangedByWaiter, job, holds, closes, failed>>

JobEmpty ==
    /\ waiter = "polling" /\ Active = {}
    /\ waiter' = "draining"
    /\ UNCHANGED <<unchangedByWaiter, life, job, holds, closes, failed>>

ReapDeadline ==
    /\ waiter = "polling" /\ Active # {}
    /\ failed' = TRUE
    /\ waiter' = "draining"
    /\ UNCHANGED <<unchangedByWaiter, life, job, holds, closes>>

\* ioWait.Wait: nobody has the pipes open; the files are closed.
Drained ==
    /\ waiter = "draining"
    /\ holds = {} /\ ~outsider
    /\ Close({"pipes"})
    /\ failed' \in {failed, TRUE}
    /\ waiter' = "process"
    /\ UNCHANGED <<unchangedByWaiter, life, job, holds>>

CloseProcess ==
    /\ waiter = "process"
    /\ Close({"process"})
    /\ waiter' = "job"
    /\ UNCHANGED <<unchangedByWaiter, life, job, holds, failed>>

CloseJob ==
    /\ waiter = "job"
    /\ Close({"job"})
    /\ life' = Terminated(job)
    /\ waiter' = "lease"
    /\ UNCHANGED <<unchangedByWaiter, job, holds, failed>>

\* The profile may refuse to unload.
CloseLease ==
    /\ waiter = "lease"
    /\ Close(Lease)
    /\ failed' \in {failed, TRUE}
    /\ waiter' = "signal"
    /\ UNCHANGED <<unchangedByWaiter, life, job, holds>>

\* The exit is sent, then done is closed.
SignalExit ==
    /\ waiter = "signal"
    /\ waiter' = "closing"
    /\ UNCHANGED <<unchangedByWaiter, life, job, holds, closes, failed>>

CloseDone ==
    /\ waiter = "closing"
    /\ waiter' = "over"
    /\ UNCHANGED <<unchangedByWaiter, life, job, holds, closes, failed>>

Waiter ==
    \/ WaitLeader \/ Count \/ JobEmpty \/ ReapDeadline \/ Drained
    \/ CloseProcess \/ CloseJob \/ CloseLease \/ SignalExit \/ CloseDone

-----------------------------------------------------------------------------
(***************************************************************************)
(* TerminateTree.                                                          *)
(***************************************************************************)
Done == waiter = "over"
JobOpen == closes["job"] = 0

Step(t, to) == call' = [call EXCEPT ![t] = to]

Called(t) == start = IF t = Starter THEN "cleanup" ELSE "returned"

\* It returns at once when done is closed.
Terminate(t) ==
    /\ Called(t) /\ call[t] = "idle"
    /\ Step(t, IF Done THEN "nil" ELSE "checked")
    /\ UNCHANGED <<start, procVars, handleVars, waiter, failed>>

TerminateJob(t) ==
    /\ call[t] = "checked" /\ JobOpen
    /\ life' = Terminated(job)
    /\ Step(t, "waiting")
    /\ UNCHANGED <<start, job, holds, outsider, handleVars, waiter, failed>>

\* wait() closed the job in the meantime: an error, unless it is over.
JobClosed(t) ==
    /\ call[t] = "checked" /\ ~JobOpen
    /\ Step(t, IF Done THEN "nil" ELSE "error")
    /\ UNCHANGED <<start, procVars, handleVars, waiter, failed>>

\* Fault: TerminateTree does not wait for done.
ReturnsAtOnce(t) ==
    /\ call[t] = "waiting"
    /\ Step(t, "nil")
    /\ UNCHANGED <<start, procVars, handleVars, waiter, failed>>

Returns(t) ==
    /\ call[t] = "waiting" /\ Done
    /\ Step(t, "nil")
    /\ UNCHANGED <<start, procVars, handleVars, waiter, failed>>

TerminationDeadline(t) ==
    /\ call[t] = "waiting"
    /\ Step(t, "error")
    /\ UNCHANGED <<start, procVars, handleVars, waiter, failed>>

TerminateTree(t) ==
    Terminate(t) \/ TerminateJob(t) \/ JobClosed(t) \/ Returns(t) \/ TerminationDeadline(t)

-----------------------------------------------------------------------------
Next == Workload \/ StartStep \/ Waiter \/ \E t \in Threads : TerminateTree(t)

Spec == Init /\ [][Next]_vars

\* Threads run, and a terminated process ends; the workload owes nothing, and
\* nobody but Start must call TerminateTree.
Fairness ==
    /\ WF_vars(StartStep) /\ WF_vars(Waiter)
    /\ \A p \in Procs : WF_vars(life[p] = "dying" /\ Die(p))
    /\ \A t \in Threads : WF_vars((t = Starter \/ call[t] # "idle") /\ TerminateTree(t))

FairSpec == Spec /\ Fairness

-----------------------------------------------------------------------------
Running == {p \in Procs : life[p] \in {"suspended", "alive"}}

\* Every handle is released once and by one party, whatever Start fails at:
\* nothing twice, and nothing left when Start failed alone or wait() is over.
\* (the ownership flags of Start, wait)
HandlesReleasedOnce ==
    /\ \A h \in Handles : closes[h] <= 1
    /\ start = "failed" /\ waiter = "none" => owned = {}
    /\ waiter \in {"closing", "over"} =>
          \A h \in Handles \ {"thread"} : closes[h] = 1

\* The logon and its profile outlive the tree: no process runs on under a
\* token whose lease was closed, and none runs outside the job.
\* (types_windows.go, TokenLease: "must remain live until the launched process
\* tree has been reaped")
LeaseOutlivesTree ==
    /\ closes["token"] > 0 => Running = {}
    /\ \A p \in Procs : life[p] = "alive" => p \in job

\* What Start acquired follows the tree, over every failure: released once,
\* and the logon only after the last process.
ResourcesFollowTree == HandlesReleasedOnce /\ LeaseOutlivesTree

\* A tree that TerminateTree terminated comes to its exit, and a Start that
\* fails leaves no process behind, unless a process outside the job keeps the
\* pipes open.  (TerminateTree, wait, Start)
TerminationTakesEffect ==
    /\ \A t \in Threads : call[t] = "waiting" ~> Done \/ outsider
    /\ start = "failed" ~> \A p \in Procs : life[p] \in {"unborn", "gone"}

\* The process keeps the contract of executionrun, from the return of Start;
\* its tree is the processes of the job that were not terminated.
Contract == INSTANCE ProcessContract WITH
    Callers <- Threads,
    tree <- IF waiter \in {"closing", "over"} THEN "signalled"
            ELSE IF waiter # "none" /\ Running = {} THEN "reaped" ELSE "alive",
    call <- [t \in Threads |-> IF call[t] \in {"checked", "waiting"} THEN "running"
                               ELSE call[t]]
KeepsContract == Contract!Spec
=============================================================================
