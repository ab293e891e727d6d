------------------------ MODULE WindowsProcessProofs ------------------------
(***************************************************************************)
(* Proofs about WindowsProcess, for any set of processes and any set of    *)
(* threads that call TerminateTree.                                        *)
(***************************************************************************)
EXTENDS WindowsProcess, TLAPS

-----------------------------------------------------------------------------
(***************************************************************************)
(* The inductive invariant.                                                *)
(***************************************************************************)
\* Start before it makes the leader, and before the goroutines run.
Unmade == {"logon", "profile", "identity", "input", "pipes", "job", "create"}
Made == {"assign", "files"}

\* What wait() has released, in its order.
Released ==
    (IF waiter \in {"process", "job", "lease", "signal", "closing", "over"} THEN {"pipes"} ELSE {})
    \cup (IF waiter \in {"job", "lease", "signal", "closing", "over"} THEN {"process"} ELSE {})
    \cup (IF waiter \in {"lease", "signal", "closing", "over"} THEN {"job"} ELSE {})
    \cup (IF waiter \in {"signal", "closing", "over"} THEN Lease ELSE {})

\* The goroutines take over from Start, with what it did not release.
HandleInv ==
    /\ start \in Unmade \cup Made => waiter = "none" /\ \A h \in Handles : closes[h] = 0
    /\ start \in Made => "process" \in owned
    /\ start = "logon" => owned = {}
    /\ start \in {"resume", "thread", "cleanup", "returned"} => waiter # "none"
    /\ start \in {"cleanup", "returned", "failed"} => owned = {}
    /\ \A h \in Handles : closes[h] <= 1
    /\ waiter # "none" => \A h \in Handles \ {"thread"} : closes[h] = 1 <=> h \in Released
    /\ waiter # "none" => (closes["thread"] = 0 <=> start \in {"resume", "thread"})

\* Whatever runs is in the job, and nothing does once the job was closed.
LifeInv ==
    /\ start \in Unmade => \A p \in Procs : life[p] = "unborn"
    /\ start \in Made => /\ life[Leader] = "suspended"
                         /\ \A p \in Procs \ {Leader} : life[p] = "unborn"
    /\ start = "files" => Leader \in job
    /\ start = "failed" /\ waiter = "none" => Running = {}
    /\ waiter # "none" => Running \subseteq job
    /\ waiter \in {"lease", "signal", "closing", "over"} => Running = {}

\* The tree is terminated only after the goroutines run.
CallInv == \A t \in Threads : call[t] # "idle" => waiter # "none"

IInv == TypeOK /\ HandleInv /\ CallInv /\ LifeInv

-----------------------------------------------------------------------------
\* Who is terminated runs no more, and nobody else changes.
LEMMA TerminatedEffect ==
    ASSUME TypeOK, NEW ps, life' = Terminated(ps)
    PROVE  /\ life' \in [Procs -> Existing \cup {"unborn", "gone"}]
           /\ Running' = Running \ ps
           /\ \A p \in Procs : (life'[p] = "unborn" <=> life[p] = "unborn")
           /\ \A p \in Procs : life'[p] = "alive" => life[p] = "alive"
BY DEF TypeOK, Terminated, Running, Existing

\* A release counts for the handles it names.
LEMMA CloseEffect ==
    ASSUME TypeOK, NEW hs, Close(hs)
    PROVE  /\ closes' \in [Handles -> Nat]
           /\ \A h \in Handles : closes'[h] = IF h \in hs THEN closes[h] + 1 ELSE closes[h]
BY DEF TypeOK, Close

\* The initial state satisfies the invariant.
LEMMA InitInv == Init => IInv
<1> SUFFICES ASSUME Init PROVE IInv
  OBVIOUS
<1>1. failed \in BOOLEAN /\ outsider \in BOOLEAN
  BY Zenon DEF Init
<1>2. TypeOK
  BY <1>1 DEF Init, TypeOK, Existing
<1>3. HandleInv /\ CallInv /\ LifeInv
  BY DEF Init, HandleInv, CallInv, LifeInv, Unmade, Made, Running
<1> QED
  BY <1>2, <1>3 DEF IInv

\* Every step keeps the variables in their types.
LEMMA TypeStep == TypeOK /\ [Next]_vars => TypeOK'
<1> SUFFICES ASSUME TypeOK, [Next]_vars PROVE TypeOK'
  OBVIOUS
<1> USE DEF TypeOK, procVars, handleVars, Handles, Lease
<1>1. CASE Workload
  <2>1. ASSUME NEW p \in Procs, NEW c \in Procs, Fork(p, c) PROVE TypeOK'
    BY <2>1 DEF Fork, Existing
  <2>2. ASSUME NEW p \in Procs, CloseOutput(p) \/ Die(p) PROVE TypeOK'
    BY <2>2 DEF CloseOutput, Die, Existing
  <2>3. ASSUME NEW p \in Procs, HandOutput(p) \/ OutsiderCloses PROVE TypeOK'
    <3>1. outsider' \in BOOLEAN
      BY <2>3, Zenon DEF HandOutput, OutsiderCloses
    <3> QED
      BY <2>3, <3>1 DEF HandOutput, OutsiderCloses
  <2> QED
    BY <1>1, <2>1, <2>2, <2>3, ProcessAssumption DEF Workload
<1>2. CASE Abandon
  BY <1>2, TerminatedEffect, CloseEffect DEF Abandon
<1>3. CASE StartStep
  <2>1. CASE Logon \/ LogonFails \/ LoadProfile \/ MakePipes \/ MakeJob
    BY <2>1 DEF Logon, LogonFails, LoadProfile, MakePipes, MakeJob, Gains
  <2>2. CASE IdentityVerified \/ InputBuilt \/ StartGoroutines \/ AssignToJob
    BY <2>2, ProcessAssumption DEF IdentityVerified, InputBuilt, StartGoroutines, AssignToJob, Gains
  <2>3. CASE CreateSuspended \/ Resume
    BY <2>3, ProcessAssumption DEF CreateSuspended, Resume, Gains, Existing
  <2>4. CASE ResumeFails \/ CloseThread
    BY <2>4, CloseEffect DEF ResumeFails, CloseThread
  <2> QED
    BY <1>2, <1>3, <2>1, <2>2, <2>3, <2>4
       DEF StartStep, IdentityRefused, InputRefused, StartFails, Cleaned
<1>4. CASE Waiter
  <2> USE DEF unchangedByWaiter
  <2>1. CASE WaitLeader \/ JobEmpty \/ SignalExit \/ CloseDone
    BY <2>1 DEF WaitLeader, JobEmpty, SignalExit, CloseDone
  <2>2. CASE Count
    BY <2>2, TerminatedEffect DEF Count
  <2>3. CASE ReapDeadline
    <3>1. failed' \in BOOLEAN
      BY <2>3, Zenon DEF ReapDeadline
    <3> QED
      BY <2>3, <3>1 DEF ReapDeadline
  <2>4. CASE Drained \/ CloseLease
    <3>1. failed' \in BOOLEAN
      BY <2>4, Zenon DEF Drained, CloseLease
    <3> QED
      BY <2>4, <3>1, CloseEffect DEF Drained, CloseLease
  <2>5. CASE CloseProcess
    BY <2>5, CloseEffect DEF CloseProcess
  <2>6. CASE CloseJob
    BY <2>6, CloseEffect, TerminatedEffect DEF CloseJob
  <2> QED
    BY <1>4, <2>1, <2>2, <2>3, <2>4, <2>5, <2>6 DEF Waiter
<1>5. ASSUME NEW t \in Threads, TerminateTree(t) PROVE TypeOK'
  <2>1. CASE TerminateJob(t)
    BY <2>1, TerminatedEffect DEF TerminateJob, Step
  <2>2. CASE Terminate(t) \/ JobClosed(t) \/ Returns(t) \/ TerminationDeadline(t)
    BY <2>2 DEF Terminate, JobClosed, Returns, TerminationDeadline, Step
  <2> QED
    BY <1>5, <2>1, <2>2 DEF TerminateTree
<1>6. CASE UNCHANGED vars
  BY <1>6 DEF vars
<1> QED
  BY <1>1, <1>3, <1>4, <1>5, <1>6 DEF Next

\* What wait() releases was not released before.
LEMMA ReleasedOnce ==
    ASSUME TypeOK, HandleInv, NEW hs, hs \subseteq Handles \ {"thread"}, Close(hs),
           waiter # "none", waiter' # "none", UNCHANGED <<start, owned>>,
           hs \cap Released = {}, Released' = Released \cup hs
    PROVE  HandleInv'
<1>1. \A h \in Handles : closes[h] \in Nat
  BY DEF TypeOK
<1>2. \A h \in hs : closes[h] = 0
  BY <1>1 DEF HandleInv
<1>3. \A h \in Handles : closes'[h] = IF h \in hs THEN 1 ELSE closes[h]
  BY <1>2, CloseEffect
<1>4. start \notin Unmade \cup Made
  BY DEF HandleInv
<1>5. closes'["thread"] = closes["thread"]
  BY <1>3 DEF Handles
<1>6. \A h \in Handles \ {"thread"} : closes'[h] = 1 <=> h \in Released'
  BY <1>3 DEF HandleInv
<1> QED
  BY <1>3, <1>4, <1>5, <1>6 DEF HandleInv, Unmade

\* Each handle is released once, by Start or by wait().
LEMMA HandleStep == TypeOK /\ HandleInv /\ [Next]_vars => HandleInv'
<1> SUFFICES ASSUME TypeOK, HandleInv, [Next]_vars PROVE HandleInv'
  OBVIOUS
<1> USE DEF HandleInv, Unmade, Made, procVars, handleVars
<1>1. CASE UNCHANGED <<start, owned, closes, waiter>>
  BY <1>1 DEF Released
<1>2. CASE StartStep
  <2>1. CASE Abandon /\ start \in Unmade \cup Made
    BY <2>1, CloseEffect DEF Abandon
  <2>2. CASE Cleaned
    <3>1. \A h \in Handles : closes'[h] = closes[h]
      BY <2>2, CloseEffect DEF Cleaned, Abandon
    <3> QED
      BY <2>2, <3>1 DEF Cleaned, Abandon, Released, Handles
  <2>3. CASE Logon \/ LogonFails \/ LoadProfile \/ MakePipes \/ MakeJob \/ IdentityVerified
             \/ InputBuilt \/ CreateSuspended \/ AssignToJob
    BY <2>3
       DEF Logon, LogonFails, LoadProfile, MakePipes, MakeJob, IdentityVerified, InputBuilt,
           CreateSuspended, AssignToJob, Gains
  <2>4. CASE StartGoroutines
    BY <2>4 DEF StartGoroutines, Released, Handles, Lease
  <2>5. CASE Resume
    BY <2>5 DEF Resume, Released
  <2>6. CASE ResumeFails \/ CloseThread
    BY <2>6, CloseEffect DEF ResumeFails, CloseThread, Released, TypeOK, Handles
  <2> QED
    BY <1>2, <2>1, <2>2, <2>3, <2>4, <2>5, <2>6
       DEF StartStep, IdentityRefused, InputRefused, StartFails
<1>3. CASE Waiter
  <2> USE DEF unchangedByWaiter
  <2>1. CASE WaitLeader \/ Count \/ JobEmpty \/ ReapDeadline \/ SignalExit \/ CloseDone
    BY <2>1 DEF WaitLeader, Count, JobEmpty, ReapDeadline, SignalExit, CloseDone, Released
  <2>2. CASE Drained
    BY <2>2, ReleasedOnce, {"pipes"} \subseteq Handles \ {"thread"}
       DEF Drained, Released, Lease, Handles
  <2>3. CASE CloseProcess
    BY <2>3, ReleasedOnce, {"process"} \subseteq Handles \ {"thread"}
       DEF CloseProcess, Released, Lease, Handles
  <2>4. CASE CloseJob
    BY <2>4, ReleasedOnce, {"job"} \subseteq Handles \ {"thread"}
       DEF CloseJob, Released, Lease, Handles
  <2>5. CASE CloseLease
    BY <2>5, ReleasedOnce, Lease \subseteq Handles \ {"thread"}
       DEF CloseLease, Released, Lease, Handles
  <2> QED
    BY <1>3, <2>1, <2>2, <2>3, <2>4, <2>5 DEF Waiter
<1> QED
  BY <1>1, <1>2, <1>3
     DEF Next, Workload, Fork, CloseOutput, HandOutput, OutsiderCloses, Die, TerminateTree,
         Terminate, TerminateJob, JobClosed, Returns, TerminationDeadline, vars

\* A call is made only when wait() runs, and wait() does not come back.
LEMMA CallStep == TypeOK /\ HandleInv /\ CallInv /\ [Next]_vars => CallInv'
<1> SUFFICES ASSUME TypeOK, HandleInv, CallInv, [Next]_vars PROVE CallInv'
  OBVIOUS
<1> USE DEF procVars, handleVars, CallInv
<1>1. CASE Workload \/ UNCHANGED vars
  BY <1>1 DEF Workload, Fork, CloseOutput, HandOutput, OutsiderCloses, Die, vars
<1>2. CASE StartStep
  BY <1>2
     DEF StartStep, Logon, LogonFails, LoadProfile, IdentityRefused, IdentityVerified,
         InputRefused, InputBuilt, StartFails, MakePipes, MakeJob, CreateSuspended, AssignToJob,
         StartGoroutines, Resume, ResumeFails, CloseThread, Cleaned, Abandon
<1>3. CASE Waiter
  BY <1>3
     DEF Waiter, WaitLeader, Count, JobEmpty, ReapDeadline, Drained, CloseProcess, CloseJob,
         CloseLease, SignalExit, CloseDone, unchangedByWaiter
<1>4. ASSUME NEW t \in Threads, TerminateTree(t) PROVE CallInv'
  <2>1. waiter' = waiter /\ \A u \in Threads \ {t} : call'[u] = call[u]
    BY <1>4
       DEF TerminateTree, Terminate, TerminateJob, JobClosed, Returns, TerminationDeadline, Step,
           TypeOK
  <2>2. waiter # "none"
    BY <1>4
       DEF TerminateTree, Terminate, TerminateJob, JobClosed, Returns, TerminationDeadline,
           Called, HandleInv
  <2> QED
    BY <2>1, <2>2
<1> QED
  BY <1>1, <1>2, <1>3, <1>4 DEF Next

\* Who runs is in the job, until the job is closed.
LEMMA LifeStep == TypeOK /\ HandleInv /\ CallInv /\ LifeInv /\ [Next]_vars => LifeInv'
<1> SUFFICES ASSUME TypeOK, HandleInv, CallInv, LifeInv, [Next]_vars PROVE LifeInv'
  OBVIOUS
<1> USE DEF LifeInv, Unmade, Made, procVars, handleVars
<1>1. CASE UNCHANGED <<start, life, job, waiter>>
  BY <1>1 DEF Running
<1>2. ASSUME UNCHANGED <<start, waiter>>, job \subseteq job', waiter # "none", Running' \subseteq Running
      PROVE  LifeInv'
  BY <1>2, HandleInv DEF HandleInv
<1>3. CASE Workload
  <2>1. ASSUME NEW p \in Procs, NEW c \in Procs, Fork(p, c) PROVE LifeInv'
    <3>1. p \in Running
      BY <2>1 DEF Fork, Running
    <3>2. waiter \notin {"none", "lease", "signal", "closing", "over"}
      BY <2>1, <3>1 DEF Fork, HandleInv, TypeOK
    <3>3. Running' \subseteq Running \cup {c} /\ job' = job \cup {c}
      BY <2>1, <3>1, <3>2 DEF Fork, Running, TypeOK
    <3> QED
      BY <2>1, <3>2, <3>3 DEF Fork, HandleInv
  <2>2. ASSUME NEW p \in Procs, Die(p) PROVE LifeInv'
    <3>1. Running' \subseteq Running
      BY <2>2 DEF Die, Running, TypeOK
    <3>2. waiter # "none" \/ start = "failed"
      BY <2>2 DEF Die, HandleInv, TypeOK
    <3> QED
      BY <2>2, <3>1, <3>2 DEF Die, HandleInv
  <2>3. ASSUME NEW p \in Procs, CloseOutput(p) \/ HandOutput(p) \/ OutsiderCloses PROVE LifeInv'
    BY <1>1, <2>3 DEF CloseOutput, HandOutput, OutsiderCloses
  <2> QED
    BY <1>3, <2>1, <2>2, <2>3, ProcessAssumption DEF Workload
<1>4. CASE StartStep
  <2>1. CASE Abandon /\ start \in Unmade \cup Made
    <3> DEFINE ps == (IF "process" \in owned THEN {Leader} ELSE {})
                         \cup (IF "job" \in owned THEN job ELSE {})
    <3>1. Running' = Running \ ps
      BY <2>1, TerminatedEffect DEF Abandon
    <3>2. Running \subseteq ps
      BY <2>1 DEF HandleInv, Running
    <3> QED
      BY <2>1, <3>1, <3>2 DEF Abandon, HandleInv
  <2>2. CASE Cleaned
    <3>1. owned = {} /\ waiter # "none"
      BY <2>2 DEF Cleaned, HandleInv
    <3>2. Running' = Running
      BY <2>2, <3>1, TerminatedEffect DEF Cleaned, Abandon
    <3> QED
      BY <2>2, <3>1, <3>2 DEF Cleaned, Abandon
  <2>3. CASE Logon \/ LogonFails \/ LoadProfile \/ MakePipes \/ MakeJob \/ IdentityVerified
             \/ InputBuilt
    BY <2>3
       DEF Logon, LogonFails, LoadProfile, MakePipes, MakeJob, IdentityVerified, InputBuilt,
           Gains, HandleInv, Running
  <2>4. CASE CreateSuspended
    BY <2>4, ProcessAssumption DEF CreateSuspended, Gains, HandleInv, TypeOK
  <2>5. CASE AssignToJob
    BY <2>5 DEF AssignToJob, HandleInv
  <2>6. CASE StartGoroutines
    BY <2>6 DEF StartGoroutines, HandleInv, Running
  <2>7. CASE Resume
    <3>1. Running' = Running /\ waiter # "none"
      BY <2>7, ProcessAssumption DEF Resume, Running, HandleInv, TypeOK
    <3> QED
      BY <2>7, <3>1 DEF Resume
  <2>8. CASE ResumeFails \/ CloseThread
    BY <2>8 DEF ResumeFails, CloseThread, HandleInv, Running
  <2> QED
    BY <1>4, <2>1, <2>2, <2>3, <2>4, <2>5, <2>6, <2>7, <2>8
       DEF StartStep, IdentityRefused, InputRefused, StartFails
<1>5. CASE Waiter
  <2> USE DEF unchangedByWaiter
  <2>1. CASE WaitLeader \/ JobEmpty \/ ReapDeadline \/ SignalExit \/ CloseDone \/ Drained
             \/ CloseProcess \/ CloseLease
    BY <2>1
       DEF WaitLeader, JobEmpty, ReapDeadline, SignalExit, CloseDone, Drained, CloseProcess,
           CloseLease, Running, HandleInv
  <2>2. CASE Count \/ CloseJob
    <3>1. Running' = {}
      BY <2>2, TerminatedEffect DEF Count, CloseJob
    <3> QED
      BY <2>2, <3>1 DEF Count, CloseJob, HandleInv
  <2> QED
    BY <1>5, <2>1, <2>2 DEF Waiter
<1>6. ASSUME NEW t \in Threads, TerminateTree(t) PROVE LifeInv'
  <2>1. CASE TerminateJob(t)
    <3>1. Running' = Running \ job
      BY <2>1, TerminatedEffect DEF TerminateJob
    <3>2. \A p \in Procs : (life'[p] = "unborn" <=> life[p] = "unborn")
      BY <2>1, TerminatedEffect DEF TerminateJob
    <3> QED
      BY <1>2, <2>1, <3>1, <3>2 DEF TerminateJob, CallInv
  <2>2. CASE Terminate(t) \/ JobClosed(t) \/ Returns(t) \/ TerminationDeadline(t)
    BY <1>1, <2>2 DEF Terminate, JobClosed, Returns, TerminationDeadline
  <2> QED
    BY <1>6, <2>1, <2>2 DEF TerminateTree
<1>7. CASE UNCHANGED vars
  BY <1>1, <1>7 DEF vars
<1> QED
  BY <1>3, <1>4, <1>5, <1>6, <1>7 DEF Next

\* The invariant holds in every reachable state.
LEMMA Invariant == Spec => []IInv
<1>1. IInv /\ [Next]_vars => IInv'
  BY TypeStep, HandleStep, CallStep, LifeStep DEF IInv
<1> QED
  BY InitInv, <1>1, PTL DEF Spec

-----------------------------------------------------------------------------
(***************************************************************************)
(* The refinement of ProcessContract.                                      *)
(***************************************************************************)
Signalled == waiter \in {"closing", "over"}

\* The tree of the contract.
Tree == IF Signalled THEN "signalled"
        ELSE IF waiter # "none" /\ Running = {} THEN "reaped" ELSE "alive"

\* Once nothing of a started tree runs, nothing of it will.
LEMMA DeadStays ==
    IInv /\ [Next]_vars /\ waiter # "none" /\ Running = {} => waiter' # "none" /\ Running' = {}
<1> SUFFICES ASSUME IInv, [Next]_vars, waiter # "none", Running = {}
             PROVE  waiter' # "none" /\ Running' = {}
  OBVIOUS
<1> USE DEF IInv, procVars, handleVars
<1>0. start \notin Unmade \cup Made /\ \A p \in Procs : life[p] \notin {"suspended", "alive"}
  BY DEF HandleInv, Running
<1>1. CASE UNCHANGED <<life, waiter>>
  BY <1>1 DEF Running
<1>2. CASE Workload
  BY <1>0, <1>2 DEF Workload, Fork, CloseOutput, HandOutput, OutsiderCloses, Die, Running, TypeOK
<1>3. CASE Abandon
  BY <1>3, TerminatedEffect DEF Abandon
<1>4. CASE StartStep
  BY <1>0, <1>1, <1>3, <1>4
     DEF StartStep, Logon, LogonFails, LoadProfile, IdentityRefused, IdentityVerified,
         InputRefused, InputBuilt, StartFails, MakePipes, MakeJob, CreateSuspended, AssignToJob,
         StartGoroutines, Resume, ResumeFails, CloseThread, Cleaned, Unmade, Made, Gains, Running,
         TypeOK
<1>5. CASE Waiter
  <2>1. CASE Count \/ CloseJob
    BY <2>1, TerminatedEffect DEF Count, CloseJob
  <2>2. CASE ~(Count \/ CloseJob)
    BY <1>5, <2>2
       DEF Waiter, WaitLeader, JobEmpty, ReapDeadline, Drained, CloseProcess, CloseLease,
           SignalExit, CloseDone, Running
  <2> QED
    BY <2>1, <2>2
<1>6. ASSUME NEW t \in Threads, TerminateTree(t) PROVE waiter' # "none" /\ Running' = {}
  <2>1. CASE TerminateJob(t)
    BY <2>1, TerminatedEffect DEF TerminateJob
  <2>2. CASE ~TerminateJob(t)
    BY <1>1, <1>6, <2>2 DEF TerminateTree, Terminate, JobClosed, Returns, TerminationDeadline
  <2> QED
    BY <2>1, <2>2
<1>7. CASE UNCHANGED vars
  BY <1>1, <1>7 DEF vars
<1> QED
  BY <1>2, <1>4, <1>5, <1>6, <1>7 DEF Next

\* A step that does not signal leaves the tree, or ends it.
LEMMA TreeStep ==
    IInv /\ [Next]_vars /\ Signalled' = Signalled
        => Tree' = Tree \/ (Tree = "alive" /\ Tree' = "reaped")
BY DeadStays DEF Tree

\* The initial states are initial states of the contract.
LEMMA ContractInit == Init => Contract!Init
BY DEF Init, Contract!Init

\* Every step is a step of the contract or leaves it unchanged.
LEMMA ContractStep == IInv /\ [Next]_vars => [Contract!Next]_(Contract!vars)
<1> SUFFICES ASSUME IInv, [Next]_vars PROVE [Contract!Next]_(Contract!vars)
  OBVIOUS
<1> DEFINE mapped == [t \in Threads |-> IF call[t] \in {"checked", "waiting"} THEN "running"
                                        ELSE call[t]]
<1>1. ASSUME call' = call, Signalled' = Signalled PROVE [Contract!Next]_(Contract!vars)
  <2>1. Tree' = Tree \/ (Tree = "alive" /\ Tree' = "reaped")
    BY <1>1, TreeStep
  <2> QED
    BY <1>1, <2>1 DEF Contract!Next, Contract!End, Contract!vars, Tree, Signalled
<1>2. CASE Workload \/ UNCHANGED vars
  BY <1>1, <1>2
     DEF Workload, Fork, CloseOutput, HandOutput, OutsiderCloses, Die, vars, Signalled
<1>3. CASE StartStep
  BY <1>1, <1>3
     DEF StartStep, Logon, LogonFails, LoadProfile, IdentityRefused, IdentityVerified,
         InputRefused, InputBuilt, StartFails, MakePipes, MakeJob, CreateSuspended, AssignToJob,
         StartGoroutines, Resume, ResumeFails, CloseThread, Cleaned, Abandon, Signalled,
         IInv, HandleInv, Unmade, Made
<1>4. CASE Waiter
  <2>1. CASE SignalExit
    <3>1. Tree = "reaped" /\ Tree' = "signalled" /\ call' = call
      BY <2>1 DEF SignalExit, Tree, Signalled, IInv, LifeInv, unchangedByWaiter
    <3> QED
      BY <3>1 DEF Contract!Next, Contract!Signal, Tree, Signalled
  <2>2. CASE ~SignalExit
    <3>1. CASE WaitLeader \/ Count \/ JobEmpty \/ ReapDeadline \/ CloseDone
      <4>1. call' = call /\ Signalled' = Signalled
        BY <3>1
           DEF WaitLeader, Count, JobEmpty, ReapDeadline, CloseDone, unchangedByWaiter, Signalled
      <4> QED
        BY <1>1, <4>1
    <3>2. CASE Drained \/ CloseProcess \/ CloseJob \/ CloseLease
      <4>1. call' = call
        BY <3>2 DEF Drained, CloseProcess, CloseJob, CloseLease, unchangedByWaiter
      <4>2. waiter \in {"draining", "process", "job", "lease"}
        BY <3>2 DEF Drained, CloseProcess, CloseJob, CloseLease
      <4>3. waiter' \in {"process", "job", "lease", "signal"}
        BY <3>2 DEF Drained, CloseProcess, CloseJob, CloseLease
      <4> QED
        BY <1>1, <4>1, <4>2, <4>3 DEF Signalled
    <3> QED
      BY <1>4, <2>2, <3>1, <3>2 DEF Waiter
  <2> QED
    BY <2>1, <2>2
<1>5. ASSUME NEW t \in Threads, TerminateTree(t) PROVE [Contract!Next]_(Contract!vars)
  <2>1. Signalled' = Signalled
    BY <1>5
       DEF TerminateTree, Terminate, TerminateJob, JobClosed, Returns, TerminationDeadline,
           Signalled
  <2>2. CASE TerminateJob(t)
    <3>1. UNCHANGED mapped
      BY <2>2 DEF TerminateJob, Step, IInv, TypeOK
    <3>2. Tree' = Tree \/ (Tree = "alive" /\ Tree' = "reaped")
      BY <2>1, TreeStep
    <3> QED
      BY <3>1, <3>2 DEF Contract!Next, Contract!End, Contract!vars, Tree, Signalled
  <2>3. CASE ~TerminateJob(t)
    <3>1. UNCHANGED Tree /\ (Done => Tree = "signalled")
      BY <1>5, <2>3
         DEF TerminateTree, Terminate, JobClosed, Returns, TerminationDeadline, procVars, Tree,
             Signalled, Done, Running
    <3>2. CASE Terminate(t) /\ ~Done
      <4>1. mapped[t] = "idle" /\ mapped' = [mapped EXCEPT ![t] = "running"]
        BY <3>2 DEF Terminate, Step, IInv, TypeOK
      <4> QED
        BY <3>1, <4>1 DEF Contract!Next, Contract!Call, Tree, Signalled
    <3>3. CASE Done /\ (Terminate(t) \/ JobClosed(t) \/ Returns(t))
      <4>1. /\ mapped[t] \in {"idle", "running"}
            /\ mapped' = [mapped EXCEPT ![t] = "nil"]
        BY <3>3 DEF Terminate, JobClosed, Returns, Step, IInv, TypeOK
      <4> QED
        BY <3>1, <3>3, <4>1 DEF Contract!Next, Contract!ReturnNil, Tree, Signalled
    <3>4. CASE TerminationDeadline(t) \/ (JobClosed(t) /\ ~Done)
      <4>1. mapped[t] = "running" /\ mapped' = [mapped EXCEPT ![t] = "error"]
        BY <3>4 DEF TerminationDeadline, JobClosed, Step, IInv, TypeOK
      <4> QED
        BY <3>1, <4>1 DEF Contract!Next, Contract!ReturnError, Tree, Signalled
    <3> QED
      BY <1>5, <2>3, <3>2, <3>3, <3>4 DEF TerminateTree, Returns
  <2> QED
    BY <2>2, <2>3
<1> QED
  BY <1>2, <1>3, <1>4, <1>5 DEF Next

-----------------------------------------------------------------------------
(***************************************************************************)
(* The theorems.                                                           *)
(***************************************************************************)
\* Every variable of the process stays in its type (process, Launcher).
THEOREM TypeCorrect == Spec => []TypeOK
BY Invariant, PTL DEF IInv

\* Whatever fails in Start or wait(), each handle is released once, and the
\* logon only after the last process (Start, wait, TokenLease).
THEOREM ResourcesFollow == Spec => []ResourcesFollowTree
<1>1. IInv => HandlesReleasedOnce
  BY DEF IInv, TypeOK, HandleInv, HandlesReleasedOnce, Released, Handles, Lease, Unmade, Made
<1>2. IInv => LeaseOutlivesTree
  <2> SUFFICES ASSUME IInv PROVE LeaseOutlivesTree
    OBVIOUS
  <2>1. ASSUME closes["token"] > 0 PROVE Running = {}
    <3>1. closes["token"] = 1
      BY <2>1 DEF IInv, TypeOK, HandleInv, Handles, Lease
    <3>2. CASE waiter = "none"
      BY <3>1, <3>2 DEF IInv, TypeOK, HandleInv, LifeInv, Handles, Lease, Unmade, Made
    <3>3. CASE waiter # "none"
      BY <3>1, <3>3 DEF IInv, TypeOK, HandleInv, LifeInv, Released, Handles, Lease
    <3> QED
      BY <3>2, <3>3
  <2>2. ASSUME NEW p \in Procs, life[p] = "alive" PROVE p \in job
    BY <2>2 DEF IInv, TypeOK, HandleInv, LifeInv, Running, Unmade, Made
  <2> QED
    BY <2>1, <2>2 DEF LeaseOutlivesTree
<1> QED
  BY Invariant, <1>1, <1>2, PTL DEF ResourcesFollowTree

\* The Windows process implements the Process contract that the foreground
\* run and the background registry rely on.
THEOREM WindowsKeepsContract == Spec => KeepsContract
BY ContractInit, ContractStep, Invariant, PTL
   DEF Spec, KeepsContract, Contract!Spec
=============================================================================
