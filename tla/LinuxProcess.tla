---------------------------- MODULE LinuxProcess ----------------------------
(***************************************************************************)
(* The Linux process boundary:                                             *)
(* src/internal/platform/linux/process/process_linux.go.                   *)
(*                                                                         *)
(* Start puts the leader in a new process group and wires its output to    *)
(* capture pipes.  Two goroutines serve it: one copies the script into the *)
(* leader's stdin, the other is wait().  Any number of threads may call    *)
(* TerminateTree.  The broker is a child subreaper: orphans become its     *)
(* children.                                                               *)
(*                                                                         *)
(* The workload is the environment: its processes fork, leave the group    *)
(* (setsid, setpgid), close the capture pipes and exit when they please.   *)
(* Standard output and error are one pipe here; what runs in the pipe, the *)
(* exit code and the identity of the processes are left out.  A caught     *)
(* SIGTERM has no effect and an uncaught one ends a process, which it may  *)
(* do at any time anyway.  Every kill by a root broker succeeds or finds   *)
(* no process, so the sigterm-failed and sigkill-failed returns do not     *)
(* occur.  Every bound on time is a choice that may be taken late or not   *)
(* at all.                                                                 *)
(***************************************************************************)
EXTENDS FiniteSets

CONSTANTS
    Procs,      \* processes the workload may consist of
    Leader,     \* the process Start creates
    Callers,    \* threads that may call TerminateTree
    Broker      \* the broker, as a parent

ASSUME LeaderAssumption == Leader \in Procs /\ Broker \notin Procs

VARIABLES
    life,       \* of each process
    inGroup,    \* it belongs to the leader's process group
    holds,      \* it has a capture pipe open
    parent,     \* the process that must wait for it
    waiter,     \* where wait() is
    script,     \* where the stdin goroutine is
    call        \* where each TerminateTree is

procVars == <<life, inGroup, holds, parent>>
vars == <<procVars, waiter, script, call>>

Running == {"alive", "killed"}     \* killed: SIGKILL is pending
WaiterSteps == {"leader", "pipes", "killing", "reaping", "signalling", "over"}
CallSteps == {"idle", "grace", "killing", "reaping", "nil", "error"}

TypeOK ==
    /\ life \in [Procs -> {"unborn", "alive", "killed", "zombie", "gone"}]
    /\ inGroup \in [Procs -> BOOLEAN]
    /\ holds \in [Procs -> BOOLEAN]
    /\ parent \in [Procs -> Procs \cup {Broker}]
    /\ waiter \in WaiterSteps
    /\ script \in {"copying", "copied"}
    /\ call \in [Callers -> CallSteps]

\* Start has verified that the leader leads its own group.
Init ==
    /\ life = [p \in Procs |-> IF p = Leader THEN "alive" ELSE "unborn"]
    /\ inGroup = [p \in Procs |-> p = Leader]
    /\ holds = [p \in Procs |-> p = Leader]
    /\ parent = [p \in Procs |-> Broker]
    /\ waiter = "leader"
    /\ script = "copying"
    /\ call = [c \in Callers |-> "idle"]

-----------------------------------------------------------------------------
(***************************************************************************)
(* The workload.                                                           *)
(***************************************************************************)
Fork(p, c) ==
    /\ life[p] = "alive"
    /\ life[c] = "unborn"
    /\ life' = [life EXCEPT ![c] = "alive"]
    /\ inGroup' = [inGroup EXCEPT ![c] = inGroup[p]]
    /\ holds' = [holds EXCEPT ![c] = holds[p]]
    /\ parent' = [parent EXCEPT ![c] = p]
    /\ UNCHANGED <<waiter, script, call>>

Escape(p) ==
    /\ life[p] = "alive"
    /\ p # Leader
    /\ inGroup[p]
    /\ inGroup' = [inGroup EXCEPT ![p] = FALSE]
    /\ UNCHANGED <<life, holds, parent, waiter, script, call>>

CloseOutput(p) ==
    /\ life[p] = "alive"
    /\ holds[p]
    /\ holds' = [holds EXCEPT ![p] = FALSE]
    /\ UNCHANGED <<life, inGroup, parent, waiter, script, call>>

\* An exit, or a pending SIGKILL; the children become the broker's.
Die(p) ==
    /\ life[p] \in Running
    /\ life' = [life EXCEPT ![p] = "zombie"]
    /\ holds' = [holds EXCEPT ![p] = FALSE]
    /\ parent' = [q \in Procs |-> IF parent[q] = p THEN Broker ELSE parent[q]]
    /\ UNCHANGED <<inGroup, waiter, script, call>>

ParentWaits(p) ==
    /\ life[p] = "zombie"
    /\ parent[p] # Broker
    /\ life[parent[p]] = "alive"
    /\ life' = [life EXCEPT ![p] = "gone"]
    /\ UNCHANGED <<inGroup, holds, parent, waiter, script, call>>

-----------------------------------------------------------------------------
(***************************************************************************)
(* Signals, and the goroutine that copies the script to stdin.             *)
(***************************************************************************)
Killed == [p \in Procs |-> IF inGroup[p] /\ life[p] = "alive" THEN "killed"
                                                              ELSE life[p]]

\* kill(-pgid, SIGKILL)
KillGroup ==
    /\ life' = Killed
    /\ UNCHANGED <<inGroup, holds, parent>>

ScriptCopied ==
    /\ script = "copying"
    /\ script' = "copied"
    /\ UNCHANGED <<procVars, waiter, call>>

\* Nobody reads the script any more, or wait() closed the pipe.
ScriptFails ==
    /\ script = "copying"
    /\ script' = "copied"
    /\ KillGroup
    /\ UNCHANGED <<waiter, call>>

-----------------------------------------------------------------------------
(***************************************************************************)
(* wait().  command.Wait reaps the leader, then waits until nobody has the *)
(* capture pipes open; only then is the rest of the group killed.          *)
(***************************************************************************)
WaitLeader ==
    /\ waiter = "leader"
    /\ life[Leader] = "zombie"
    /\ life' = [life EXCEPT ![Leader] = "gone"]
    /\ waiter' = "pipes"
    /\ UNCHANGED <<inGroup, holds, parent, script, call>>

PipesClosed ==
    /\ waiter = "pipes"
    /\ \A p \in Procs : life[p] \in Running => ~holds[p]
    /\ waiter' = "killing"
    /\ UNCHANGED <<procVars, script, call>>

WaiterKills ==
    /\ waiter = "killing"
    /\ KillGroup
    /\ waiter' = "reaping"
    /\ UNCHANGED <<script, call>>

\* wait4(-pgid) sees the broker's children in the group only.
Reapable(p) == inGroup[p] /\ parent[p] = Broker

ReapOne(p) ==
    /\ waiter = "reaping"
    /\ Reapable(p)
    /\ life[p] = "zombie"
    /\ life' = [life EXCEPT ![p] = "gone"]
    /\ UNCHANGED <<inGroup, holds, parent, waiter, script, call>>

\* Fault: wait4 finding nothing to reap right now is taken for ECHILD.
ReapDoneEarly ==
    /\ waiter = "reaping"
    /\ \A p \in Procs : Reapable(p) => life[p] # "zombie"
    /\ waiter' = "signalling"
    /\ UNCHANGED <<procVars, script, call>>

\* ECHILD, or two seconds are over.
ReapDone ==
    /\ waiter = "reaping"
    /\ \A p \in Procs : Reapable(p) => life[p] \in {"unborn", "gone"}
    /\ waiter' = "signalling"
    /\ UNCHANGED <<procVars, script, call>>

ReapTimesOut ==
    /\ waiter = "reaping"
    /\ \E p \in Procs : Reapable(p) /\ life[p] \in Running
    /\ waiter' = "signalling"
    /\ UNCHANGED <<procVars, script, call>>

\* The exit is sent and done is closed.
SignalExit ==
    /\ waiter = "signalling"
    /\ waiter' = "over"
    /\ UNCHANGED <<procVars, script, call>>

-----------------------------------------------------------------------------
(***************************************************************************)
(* TerminateTree.                                                          *)
(***************************************************************************)
Done == waiter = "over"

Step(c, to) == call' = [call EXCEPT ![c] = to]

\* It returns at once when done is closed, else it sends SIGTERM.
Terminate(c) ==
    /\ call[c] = "idle"
    /\ Step(c, IF Done THEN "nil" ELSE "grace")
    /\ UNCHANGED <<procVars, waiter, script>>

\* Fault: TerminateTree does not wait for the reaping.
ReturnsEarly(c) ==
    /\ call[c] \in {"grace", "reaping"}
    /\ Done \/ call[c] = "reaping"
    /\ Step(c, "nil")
    /\ UNCHANGED <<procVars, waiter, script>>

Returns(c) ==
    /\ call[c] \in {"grace", "reaping"}
    /\ Done
    /\ Step(c, "nil")
    /\ UNCHANGED <<procVars, waiter, script>>

GraceOver(c) ==
    /\ call[c] = "grace"
    /\ Step(c, "killing")
    /\ UNCHANGED <<procVars, waiter, script>>

\* Fault: the signal goes to the leader, not to its group.
TerminateKillsLeader(c) ==
    /\ call[c] = "killing"
    /\ life' = [life EXCEPT ![Leader] = IF @ = "alive" THEN "killed" ELSE @]
    /\ Step(c, "reaping")
    /\ UNCHANGED <<inGroup, holds, parent, waiter, script>>

TerminateKills(c) ==
    /\ call[c] = "killing"
    /\ KillGroup
    /\ Step(c, "reaping")
    /\ UNCHANGED <<waiter, script>>

\* The context ends within the grace period: one SIGKILL, then an error.
TerminationDeadline(c) ==
    /\ call[c] = "grace"
    /\ KillGroup
    /\ Step(c, "error")
    /\ UNCHANGED <<waiter, script>>

ReapDeadline(c) ==
    /\ call[c] = "reaping"
    /\ Step(c, "error")
    /\ UNCHANGED <<procVars, waiter, script>>

-----------------------------------------------------------------------------
Workload ==
    \E p \in Procs :
        \/ (\E c \in Procs : Fork(p, c))
        \/ Escape(p) \/ CloseOutput(p) \/ Die(p) \/ ParentWaits(p)

Script == ScriptCopied \/ ScriptFails

Waiter ==
    \/ WaitLeader \/ PipesClosed \/ WaiterKills
    \/ (\E p \in Procs : ReapOne(p)) \/ ReapDone \/ ReapTimesOut \/ SignalExit

TerminateTree(c) ==
    \/ Terminate(c) \/ Returns(c) \/ GraceOver(c) \/ TerminateKills(c)
    \/ TerminationDeadline(c) \/ ReapDeadline(c)

Next == Workload \/ Script \/ Waiter \/ \E c \in Callers : TerminateTree(c)

Spec == Init /\ [][Next]_vars

(***************************************************************************)
(* Fairness.  Goroutines run and a process with a pending SIGKILL dies;    *)
(* nothing obliges the workload to do anything, nor anybody to call        *)
(* TerminateTree.                                                          *)
(***************************************************************************)
Fairness ==
    /\ WF_vars(Waiter) /\ WF_vars(Script)
    /\ \A p \in Procs : WF_vars(life[p] = "killed" /\ Die(p))
    /\ \A c \in Callers : WF_vars(call[c] # "idle" /\ TerminateTree(c))

FairSpec == Spec /\ Fairness
-----------------------------------------------------------------------------
(***************************************************************************)
(* Properties.                                                             *)
(***************************************************************************)
GroupAlive == \E p \in Procs : inGroup[p] /\ life[p] = "alive"

\* No process has left the group so far.
Confined == \A p \in Procs : life[p] # "unborn" => inGroup[p]

\* From the moment wait() starts to reap, no process of the group runs on,
\* whichever of natural exit, stdin failure and TerminateTree came first, and
\* a TerminateTree that returned nil returned after that (types.go, Process).
ExitMeansGroupDead ==
    waiter \in {"reaping", "signalling", "over"} \/ (\E c \in Callers : call[c] = "nil")
        => ~GroupAlive

\* reapProcessGroup stops at ECHILD having seen only the broker's children: in
\* a tree that stayed in its group that is the whole tree, however its
\* processes were nested and in whatever order they died.
ReapDoneComplete ==
    [][ReapDone /\ Confined => \A p \in Procs : life[p] \in {"unborn", "gone"}]_vars

\* A TerminateTree that went as far as SIGKILL brings the exit about, unless a
\* process that left the group still has the capture pipes open.
TerminationTakesEffect ==
    \A c \in Callers : call[c] \in {"reaping", "error"} /\ Confined ~> Done

\* The process keeps the contract of executionrun, taking for its tree the
\* processes of the group that no SIGKILL is pending for.
Contract == INSTANCE ProcessContract WITH
    tree <- IF Done THEN "signalled" ELSE IF GroupAlive THEN "alive" ELSE "reaped",
    call <- [c \in Callers |-> IF call[c] \in {"idle", "nil", "error"}
                               THEN call[c] ELSE "running"]
KeepsContract == Contract!Spec

\* docs/adr/0020: "Ordinary AWG execution intentionally reaps the complete
\* native process tree, so shell detachment is not an allowed persistence
\* mechanism."
TreeDeadAtExit == Done => \A p \in Procs : life[p] # "alive"

\* docs/adr/0020: "spawning a child and exiting still causes the owned tree to
\* be reaped".
NaturalExitReaps == life[Leader] = "zombie" ~> ~GroupAlive
=============================================================================
