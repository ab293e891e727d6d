--------------------------- MODULE ExecutionProofs ---------------------------
(***************************************************************************)
(* Proofs about what an execution leaves behind: about LinuxProcess, for   *)
(* any set of processes and any set of threads that call TerminateTree,    *)
(* and about ArtifactDelivery, for any paths, selections, trees and        *)
(* limits.  The two have nothing in common but the lemma below.            *)
(***************************************************************************)
EXTENDS LinuxProcess, ArtifactDelivery, Integers, WellFoundedInduction, TLAPS

\* Every nonempty set of naturals has a least element.
LEMMA Least ==
    ASSUME NEW T \in SUBSET Nat, T # {}
    PROVE  \E m \in T : \A n \in T : m <= n
<1> DEFINE R == OpToRel(<, Nat)
<1>1. IsWellFoundedOn(R, Nat)
  BY NatLessThanWellFounded
<1>2. T \subseteq Nat
  OBVIOUS
<1>3. PICK m \in T : \A n \in T : ~(<<n, m>> \in R)
  <2> HIDE DEF R
  <2> QED
    BY <1>1, <1>2, WFMin
<1>4. \A n \in T : n \in Nat /\ m \in Nat /\ ~(n < m)
  BY <1>3 DEF OpToRel
<1>5. \A n \in T : m <= n
  BY <1>4
<1> QED
  BY <1>5

-----------------------------------------------------------------------------
(***************************************************************************)
(* The inductive invariant: the group is dead once wait() reaps, and nil   *)
(* is returned only after done was closed.                                 *)
(***************************************************************************)
DeadInv ==
    /\ waiter \in {"reaping", "signalling", "over"} => ~GroupAlive
    /\ \A c \in Callers : call[c] = "nil" => Done

IInv == TypeOK /\ DeadInv

\* A SIGKILL for the group leaves nobody in it alive.
LEMMA KillGroupKills ==
    ASSUME TypeOK, KillGroup
    PROVE  /\ life' \in [Procs -> {"unborn", "alive", "killed", "zombie", "gone"}]
           /\ ~GroupAlive'
           /\ <<inGroup, holds, parent>>' = <<inGroup, holds, parent>>
<1>1. life' = Killed /\ <<inGroup, holds, parent>>' = <<inGroup, holds, parent>>
  BY DEF KillGroup
<1>2. life' \in [Procs -> {"unborn", "alive", "killed", "zombie", "gone"}]
  BY <1>1 DEF TypeOK, Killed
<1>3. \A p \in Procs : ~(inGroup'[p] /\ life'[p] = "alive")
  BY <1>1 DEF TypeOK, Killed
<1> QED
  BY <1>1, <1>2, <1>3 DEF GroupAlive

\* Once nobody in the group is alive, the workload cannot revive it.
LEMMA WorkloadKeepsDead ==
    ASSUME TypeOK, Workload, ~GroupAlive
    PROVE  ~GroupAlive'
<1> USE DEF TypeOK, GroupAlive
<1>1. ASSUME NEW p \in Procs, NEW c \in Procs, Fork(p, c) PROVE ~GroupAlive'
  BY <1>1 DEF Fork
<1>2. ASSUME NEW p \in Procs, Escape(p) PROVE ~GroupAlive'
  BY <1>2 DEF Escape
<1>3. ASSUME NEW p \in Procs, CloseOutput(p) PROVE ~GroupAlive'
  BY <1>3 DEF CloseOutput
<1>4. ASSUME NEW p \in Procs, Die(p) PROVE ~GroupAlive'
  BY <1>4 DEF Die
<1>5. ASSUME NEW p \in Procs, ParentWaits(p) PROVE ~GroupAlive'
  BY <1>5 DEF ParentWaits
<1> QED
  BY <1>1, <1>2, <1>3, <1>4, <1>5 DEF Workload

\* The initial state satisfies the invariant.
LEMMA InitInv == Init => IInv
BY LeaderAssumption DEF Init, IInv, TypeOK, DeadInv, Done, WaiterSteps, CallSteps

\* Every step keeps the variables in their types.
LEMMA TypeStep == TypeOK /\ [Next]_vars => TypeOK'
<1> SUFFICES ASSUME TypeOK, [Next]_vars PROVE TypeOK'
  OBVIOUS
<1> USE DEF TypeOK, WaiterSteps, CallSteps, procVars
<1>1. ASSUME NEW p \in Procs, NEW c \in Procs, Fork(p, c) PROVE TypeOK'
  BY <1>1 DEF Fork
<1>2. ASSUME NEW p \in Procs, Escape(p) PROVE TypeOK'
  BY <1>2 DEF Escape
<1>3. ASSUME NEW p \in Procs, CloseOutput(p) PROVE TypeOK'
  BY <1>3 DEF CloseOutput
<1>4. ASSUME NEW p \in Procs, Die(p) PROVE TypeOK'
  BY <1>4 DEF Die
<1>5. ASSUME NEW p \in Procs, ParentWaits(p) PROVE TypeOK'
  BY <1>5 DEF ParentWaits
<1>6. CASE Script
  BY <1>6, KillGroupKills DEF Script, ScriptCopied, ScriptFails
<1>7. CASE Waiter
  <2>1. CASE WaitLeader
    BY <2>1, LeaderAssumption DEF WaitLeader
  <2>2. CASE WaiterKills
    BY <2>2, KillGroupKills DEF WaiterKills
  <2>3. ASSUME NEW p \in Procs, ReapOne(p) PROVE TypeOK'
    BY <2>3 DEF ReapOne
  <2>4. CASE PipesClosed \/ ReapDone \/ ReapTimesOut \/ SignalExit
    BY <2>4 DEF PipesClosed, ReapDone, ReapTimesOut, SignalExit
  <2> QED
    BY <1>7, <2>1, <2>2, <2>3, <2>4 DEF Waiter
<1>8. ASSUME NEW c \in Callers, TerminateTree(c) PROVE TypeOK'
  <2>1. CASE Terminate(c) \/ Returns(c) \/ GraceOver(c) \/ ReapDeadline(c)
    BY <2>1 DEF Terminate, Returns, GraceOver, ReapDeadline, Step
  <2>2. CASE TerminateKills(c) \/ TerminationDeadline(c)
    BY <2>2, KillGroupKills DEF TerminateKills, TerminationDeadline, Step
  <2> QED
    BY <1>8, <2>1, <2>2 DEF TerminateTree
<1>9. CASE UNCHANGED vars
  BY <1>9 DEF vars
<1> QED
  BY <1>1, <1>2, <1>3, <1>4, <1>5, <1>6, <1>7, <1>8, <1>9 DEF Next, Workload

\* Every step keeps the group dead once it is.
LEMMA DeadStays == TypeOK /\ [Next]_vars /\ ~GroupAlive => ~GroupAlive'
<1> SUFFICES ASSUME TypeOK, [Next]_vars, ~GroupAlive PROVE ~GroupAlive'
  OBVIOUS
<1>1. CASE Workload
  BY <1>1, WorkloadKeepsDead
<1>2. CASE KillGroup
  BY <1>2, KillGroupKills
<1>3. CASE UNCHANGED <<life, inGroup>>
  BY <1>3 DEF GroupAlive
<1>4. CASE Script
  BY <1>2, <1>3, <1>4 DEF Script, ScriptCopied, ScriptFails, procVars
<1>5. CASE Waiter
  <2>1. ASSUME NEW p \in Procs, life' = [life EXCEPT ![p] = "gone"], inGroup' = inGroup
        PROVE  ~GroupAlive'
    BY <2>1 DEF GroupAlive, TypeOK
  <2> QED
    BY <1>2, <1>3, <1>5, <2>1, LeaderAssumption
       DEF Waiter, WaitLeader, PipesClosed, WaiterKills, ReapOne, ReapDone,
           ReapTimesOut, SignalExit, procVars
<1>6. ASSUME NEW c \in Callers, TerminateTree(c) PROVE ~GroupAlive'
  BY <1>2, <1>3, <1>6
     DEF TerminateTree, Terminate, Returns, GraceOver, TerminateKills,
         TerminationDeadline, ReapDeadline, procVars
<1>7. CASE UNCHANGED vars
  BY <1>3, <1>7 DEF vars, procVars
<1> QED
  BY <1>1, <1>4, <1>5, <1>6, <1>7 DEF Next

\* Every step keeps the agreement of wait(), TerminateTree and the group.
LEMMA DeadStep == IInv /\ [Next]_vars => DeadInv'
<1> SUFFICES ASSUME TypeOK, DeadInv, [Next]_vars PROVE DeadInv'
  BY DEF IInv
<1> USE DEF DeadInv, Done
<1>1. CASE UNCHANGED <<waiter, call>>
  BY <1>1, DeadStays
<1>2. CASE Waiter
  <2>1. CASE WaiterKills
    BY <2>1, KillGroupKills DEF WaiterKills
  <2>2. CASE WaitLeader \/ PipesClosed
    BY <2>2 DEF WaitLeader, PipesClosed
  <2>3. CASE ReapDone \/ ReapTimesOut \/ SignalExit \/ \E p \in Procs : ReapOne(p)
    BY <2>3, DeadStays DEF ReapDone, ReapTimesOut, SignalExit, ReapOne
  <2> QED
    BY <1>2, <2>1, <2>2, <2>3 DEF Waiter
<1>3. ASSUME NEW c \in Callers, TerminateTree(c) PROVE DeadInv'
  <2>1. waiter' = waiter
    BY <1>3 DEF TerminateTree, Terminate, Returns, GraceOver, TerminateKills,
                TerminationDeadline, ReapDeadline
  <2>2. \A d \in Callers : call'[d] = "nil" => Done
    BY <1>3 DEF TerminateTree, Terminate, Returns, GraceOver, TerminateKills,
                TerminationDeadline, ReapDeadline, Step, TypeOK
  <2> QED
    BY <2>1, <2>2, DeadStays
<1>4. CASE Workload \/ Script
  BY <1>1, <1>4 DEF Workload, Fork, Escape, CloseOutput, Die, ParentWaits,
                    Script, ScriptCopied, ScriptFails
<1> QED
  BY <1>1, <1>2, <1>3, <1>4 DEF Next, vars

\* The invariant holds in every reachable state.
LEMMA Invariant == Spec => []IInv
<1>1. IInv /\ [Next]_vars => IInv'
  BY TypeStep, DeadStep DEF IInv
<1> QED
  BY InitInv, <1>1, PTL DEF Spec

-----------------------------------------------------------------------------
(***************************************************************************)
(* The theorems.                                                           *)
(***************************************************************************)
\* Type correctness of the process, its goroutines and its callers.
THEOREM TypeCorrect == Spec => []TypeOK
<1>1. IInv => TypeOK
  BY DEF IInv
<1> QED
  BY <1>1, Invariant, PTL

\* No process of the group runs on when the exit is signalled or when a
\* TerminateTree returned nil, for any workload (wait, TerminateTree).
THEOREM ExitSignalsTheEnd == Spec => []ExitMeansGroupDead
<1>1. IInv => ExitMeansGroupDead
  BY DEF IInv, DeadInv, ExitMeansGroupDead, Done
<1> QED
  BY <1>1, Invariant, PTL

-----------------------------------------------------------------------------
(***************************************************************************)
(* The process tree: a parent runs, and is older than its children, so     *)
(* that any processes there are hang on a child of the broker.             *)
(***************************************************************************)
ParentsRun ==
    \A p \in Procs : parent[p] # Broker => life[parent[p]] \in Running

\* An age for each process that its parents exceed.
Ordered ==
    \E age \in [Procs -> Nat] :
        \A p \in Procs : parent[p] # Broker => age[parent[p]] < age[p]

TreeInv == ParentsRun /\ Ordered

\* Nobody's child is added and no parent stops running: the tree is kept.
LEMMA TreeKept ==
    ASSUME TreeInv,
           \A p \in Procs : parent'[p] \in {parent[p], Broker},
           \A p \in Procs : parent'[p] # Broker => life'[parent[p]] \in Running
    PROVE  TreeInv'
<1>1. ParentsRun'
  BY DEF ParentsRun
<1>2. PICK age \in [Procs -> Nat] :
         \A p \in Procs : parent[p] # Broker => age[parent[p]] < age[p]
  BY DEF TreeInv, Ordered
<1>3. \A p \in Procs : parent'[p] # Broker => age[parent'[p]] < age[p]
  BY <1>2
<1> QED
  BY <1>1, <1>3 DEF TreeInv, Ordered

\* A signal kills, it does not bury.
LEMMA KillGroupKeepsTree == TypeOK /\ TreeInv /\ KillGroup => TreeInv'
<1> SUFFICES ASSUME TypeOK, TreeInv, KillGroup PROVE TreeInv'
  OBVIOUS
<1>1. \A p \in Procs : life[p] \in Running => life'[p] \in Running
  BY DEF TypeOK, KillGroup, Killed, Running
<1> QED
  BY <1>1, TreeKept DEF TypeOK, TreeInv, ParentsRun, KillGroup

\* Reaping a zombie takes no running process.
LEMMA ReapKeepsTree ==
    ASSUME TypeOK, TreeInv, NEW p \in Procs, life[p] = "zombie",
           life' = [life EXCEPT ![p] = "gone"], parent' = parent
    PROVE  TreeInv'
<1>1. \A q \in Procs : life[q] \in Running => life'[q] \in Running
  BY DEF TypeOK, Running
<1> QED
  BY <1>1, TreeKept DEF TypeOK, TreeInv, ParentsRun

\* A child is younger than its parent, and has no children itself yet.
LEMMA ForkKeepsTree ==
    ASSUME TypeOK, TreeInv, NEW p \in Procs, NEW c \in Procs, Fork(p, c)
    PROVE  TreeInv'
<1>1. /\ life[p] = "alive" /\ life[c] = "unborn" /\ p # c
      /\ life' = [life EXCEPT ![c] = "alive"]
      /\ parent' = [parent EXCEPT ![c] = p]
  BY DEF Fork
<1>2. \A q \in Procs : parent[q] # c
  BY <1>1, LeaderAssumption DEF TreeInv, ParentsRun, Running
<1>3. ParentsRun'
  BY <1>1, <1>2 DEF TypeOK, TreeInv, ParentsRun, Running
<1>4. PICK age \in [Procs -> Nat] :
         \A q \in Procs : parent[q] # Broker => age[parent[q]] < age[q]
  BY DEF TreeInv, Ordered
<1> DEFINE aged == [age EXCEPT ![c] = age[p] + 1]
<1>5. aged \in [Procs -> Nat]
  BY <1>4
<1>6. ASSUME NEW q \in Procs, parent'[q] # Broker PROVE aged[parent'[q]] < aged[q]
  <2>1. CASE q = c
    <3>1. parent'[q] = p /\ aged[p] = age[p] /\ aged[q] = age[p] + 1 /\ age[p] \in Nat
      BY <1>1, <1>4, <2>1 DEF TypeOK
    <3> QED
      BY <3>1
  <2>2. CASE q # c
    <3>1. parent'[q] = parent[q] /\ parent[q] \in Procs /\ parent[q] # c
      BY <1>1, <1>2, <1>6, <2>2 DEF TypeOK
    <3>2. aged[q] = age[q] /\ aged[parent[q]] = age[parent[q]]
      BY <1>4, <2>2, <3>1
    <3> QED
      BY <1>4, <1>6, <3>1, <3>2
  <2> QED
    BY <2>1, <2>2
<1> HIDE DEF aged
<1> QED
  BY <1>3, <1>5, <1>6 DEF TreeInv, Ordered

\* The children of a process that dies become the broker's.
LEMMA DieKeepsTree ==
    ASSUME TypeOK, TreeInv, NEW p \in Procs, Die(p)
    PROVE  TreeInv'
<1>1. \A q \in Procs : q # p => life'[q] = life[q]
  BY DEF Die, TypeOK
<1>2. \A q \in Procs : parent'[q] = IF parent[q] = p THEN Broker ELSE parent[q]
  BY DEF Die
<1> QED
  BY <1>1, <1>2, TreeKept DEF TypeOK, TreeInv, ParentsRun

\* Every step keeps the process tree.
LEMMA TreeStep == TypeOK /\ TreeInv /\ [Next]_vars => TreeInv'
<1> SUFFICES ASSUME TypeOK, TreeInv, [Next]_vars PROVE TreeInv'
  OBVIOUS
<1>1. CASE UNCHANGED <<life, parent>>
  BY <1>1 DEF TreeInv, ParentsRun, Ordered
<1>2. CASE KillGroup
  BY <1>2, KillGroupKeepsTree
<1>3. CASE Workload
  <2>1. ASSUME NEW p \in Procs, Escape(p) \/ CloseOutput(p) PROVE TreeInv'
    BY <1>1, <2>1 DEF Escape, CloseOutput
  <2>2. ASSUME NEW p \in Procs, ParentWaits(p) PROVE TreeInv'
    BY <2>2, ReapKeepsTree DEF ParentWaits
  <2> QED
    BY <1>3, <2>1, <2>2, ForkKeepsTree, DieKeepsTree DEF Workload
<1>4. CASE Script
  BY <1>1, <1>2, <1>4 DEF Script, ScriptCopied, ScriptFails, procVars
<1>5. CASE Waiter
  <2>1. CASE WaitLeader
    BY <2>1, ReapKeepsTree, LeaderAssumption DEF WaitLeader
  <2>2. ASSUME NEW p \in Procs, ReapOne(p) PROVE TreeInv'
    BY <2>2, ReapKeepsTree DEF ReapOne
  <2> QED
    BY <1>1, <1>2, <1>5, <2>1, <2>2
       DEF Waiter, PipesClosed, WaiterKills, ReapDone, ReapTimesOut, SignalExit, procVars
<1>6. ASSUME NEW c \in Callers, TerminateTree(c) PROVE TreeInv'
  BY <1>1, <1>2, <1>6
     DEF TerminateTree, Terminate, Returns, GraceOver, TerminateKills,
         TerminationDeadline, ReapDeadline, procVars
<1>7. CASE UNCHANGED vars
  BY <1>1, <1>7 DEF vars, procVars
<1> QED
  BY <1>3, <1>4, <1>5, <1>6, <1>7 DEF Next

\* The leader is the first of the tree.
LEMMA TreeInit == Init => TreeInv
<1> SUFFICES ASSUME Init PROVE TreeInv
  OBVIOUS
<1>1. \A p \in Procs : parent[p] = Broker
  BY DEF Init
<1>2. [p \in Procs |-> 0] \in [Procs -> Nat]
  OBVIOUS
<1> QED
  BY <1>1, <1>2 DEF TreeInv, ParentsRun, Ordered

\* Some process that has not been reaped is the broker's, if there is any.
LEMMA SomeBrokerChild ==
    ASSUME TypeOK, TreeInv, NEW p \in Procs, life[p] \notin {"unborn", "gone"}
    PROVE  \E q \in Procs : parent[q] = Broker /\ life[q] \notin {"unborn", "gone"}
<1>1. PICK age \in [Procs -> Nat] :
         \A q \in Procs : parent[q] # Broker => age[parent[q]] < age[q]
  BY DEF TreeInv, Ordered
<1> DEFINE left == {q \in Procs : life[q] \notin {"unborn", "gone"}}
           ages == {age[q] : q \in left}
<1>2. ages \in SUBSET Nat /\ ages # {}
  BY <1>1
<1>3. \E m \in ages : \A n \in ages : m <= n
  <2> HIDE DEF ages
  <2> QED
    BY <1>2, Least
<1>4. PICK q \in left : \A r \in left : age[q] <= age[r]
  BY <1>3
<1>5. CASE parent[q] = Broker
  BY <1>4, <1>5
<1>6. CASE parent[q] # Broker
  <2>1. parent[q] \in left
    BY <1>4, <1>6 DEF TypeOK, TreeInv, ParentsRun, Running
  <2>2. age[parent[q]] < age[q] /\ age[parent[q]] \in Nat /\ age[q] \in Nat
    BY <1>1, <1>4, <1>6, <2>1
  <2> QED
    BY <1>4, <2>1, <2>2
<1> QED
  BY <1>5, <1>6

\* Reaping that ends with ECHILD has reaped the whole tree, if nobody left the
\* group: what the broker sees of a nested tree is enough (reapProcessGroup).
THEOREM ReapingIsComplete == Spec => ReapDoneComplete
<1> DEFINE complete == ReapDone /\ Confined => \A p \in Procs : life[p] \in {"unborn", "gone"}
<1>1. TypeOK /\ TreeInv => complete
  <2> SUFFICES ASSUME TypeOK, TreeInv, ReapDone, Confined, NEW p \in Procs,
                      life[p] \notin {"unborn", "gone"}
               PROVE  FALSE
    OBVIOUS
  <2>1. PICK q \in Procs : parent[q] = Broker /\ life[q] \notin {"unborn", "gone"}
    BY SomeBrokerChild
  <2>2. Reapable(q)
    BY <2>1 DEF Confined, Reapable
  <2> QED
    BY <2>1, <2>2 DEF ReapDone
<1>2. IInv /\ TreeInv /\ [Next]_vars => TreeInv'
  BY TreeStep DEF IInv
<1>3. IInv /\ TreeInv => [complete]_vars
  BY <1>1 DEF IInv
<1> HIDE DEF complete
<1>4. Spec => [][complete]_vars
  BY <1>2, <1>3, TreeInit, Invariant, PTL DEF Spec
<1> QED
  BY <1>4 DEF complete, ReapDoneComplete

-----------------------------------------------------------------------------
(***************************************************************************)
(* The refinement.                                                         *)
(***************************************************************************)
\* The initial states are initial states of the contract.
LEMMA ContractInit == Init => Contract!Init
BY LeaderAssumption DEF Init, Contract!Init, Done, GroupAlive

\* Every step is a step of the contract or leaves it unchanged.
LEMMA ContractStep == IInv /\ [Next]_vars => [Contract!Next]_(Contract!vars)
<1> SUFFICES ASSUME IInv, [Next]_vars PROVE [Contract!Next]_(Contract!vars)
  OBVIOUS
<1> DEFINE condition == IF Done THEN "signalled" ELSE IF GroupAlive THEN "alive" ELSE "reaped"
           mapped == [c \in Callers |-> IF call[c] \in {"idle", "nil", "error"}
                                        THEN call[c] ELSE "running"]
<1>1. TypeOK /\ DeadInv /\ DeadInv'
  BY DeadStep DEF IInv
<1>2. CASE UNCHANGED <<waiter, call>>
  <2>1. UNCHANGED mapped
    BY <1>2
  <2>2. Done' = Done
    BY <1>2 DEF Done
  <2>3. UNCHANGED condition \/ (condition = "alive" /\ condition' = "reaped")
    BY <1>1, <2>2, DeadStays
  <2> QED
    BY <2>1, <2>3 DEF Contract!Next, Contract!End, Contract!vars
<1>3. CASE Waiter
  <2>1. UNCHANGED mapped
    BY <1>3 DEF Waiter, WaitLeader, PipesClosed, WaiterKills, ReapOne, ReapDone,
                ReapTimesOut, SignalExit
  <2>2. CASE SignalExit
    <3>1. condition = "reaped" /\ condition' = "signalled"
      BY <1>1, <2>2 DEF SignalExit, Done, DeadInv
    <3> QED
      BY <2>1, <3>1 DEF Contract!Next, Contract!Signal
  <2>3. CASE ~SignalExit
    <3>1. ~Done' /\ ~Done
      BY <1>3, <2>3 DEF Waiter, WaitLeader, PipesClosed, WaiterKills, ReapOne,
                        ReapDone, ReapTimesOut, Done
    <3>2. UNCHANGED condition \/ (condition = "alive" /\ condition' = "reaped")
      BY <1>1, <3>1, DeadStays
    <3> QED
      BY <2>1, <3>2 DEF Contract!Next, Contract!End, Contract!vars
  <2> QED
    BY <2>2, <2>3
<1>4. ASSUME NEW c \in Callers, TerminateTree(c)
      PROVE  [Contract!Next]_(Contract!vars)
  <2>1. Done' = Done
    BY <1>4 DEF TerminateTree, Terminate, Returns, GraceOver, TerminateKills,
                TerminationDeadline, ReapDeadline, Done
  <2>2. UNCHANGED condition \/ (condition = "alive" /\ condition' = "reaped")
    BY <1>1, <2>1, DeadStays
  <2>3. CASE Terminate(c)
    <3>1. UNCHANGED condition
      BY <2>3, <2>1 DEF Terminate, procVars, GroupAlive
    <3>2. mapped[c] = "idle"
      BY <2>3 DEF Terminate
    <3>3. mapped' = [mapped EXCEPT ![c] = IF Done THEN "nil" ELSE "running"]
      BY <1>1, <2>3 DEF Terminate, Step, TypeOK
    <3> QED
      BY <3>1, <3>2, <3>3 DEF Contract!Next, Contract!Call, Contract!ReturnNil
  <2>4. CASE Returns(c)
    <3>1. UNCHANGED condition /\ condition = "signalled"
      BY <2>4, <2>1 DEF Returns, procVars, GroupAlive
    <3>2. mapped[c] = "running"
      BY <2>4 DEF Returns
    <3>3. mapped' = [mapped EXCEPT ![c] = "nil"]
      BY <1>1, <2>4 DEF Returns, Step, TypeOK
    <3> QED
      BY <3>1, <3>2, <3>3 DEF Contract!Next, Contract!ReturnNil
  <2>5. CASE GraceOver(c) \/ TerminateKills(c)
    <3>1. UNCHANGED mapped
      BY <1>1, <2>5 DEF GraceOver, TerminateKills, Step, TypeOK
    <3> QED
      BY <2>2, <3>1 DEF Contract!Next, Contract!End, Contract!vars
  <2>6. CASE TerminationDeadline(c) \/ ReapDeadline(c)
    <3>1. mapped[c] = "running"
      BY <2>6 DEF TerminationDeadline, ReapDeadline
    <3>2. mapped' = [mapped EXCEPT ![c] = "error"]
      BY <1>1, <2>6 DEF TerminationDeadline, ReapDeadline, Step, TypeOK
    <3> QED
      BY <2>2, <3>1, <3>2 DEF Contract!Next, Contract!ReturnError
  <2> QED
    BY <1>4, <2>3, <2>4, <2>5, <2>6 DEF TerminateTree
<1>5. CASE Workload \/ Script
  BY <1>2, <1>5 DEF Workload, Fork, Escape, CloseOutput, Die, ParentWaits,
                    Script, ScriptCopied, ScriptFails
<1> QED
  BY <1>2, <1>3, <1>4, <1>5 DEF Next, vars

\* The Linux process implements the Process contract that the foreground run
\* and the background registry rely on.
THEOREM LinuxKeepsContract == Spec => KeepsContract
BY ContractInit, ContractStep, Invariant, PTL
   DEF Spec, KeepsContract, Contract!Spec

-----------------------------------------------------------------------------
(***************************************************************************)
(* The sum of the sizes.                                                   *)
(***************************************************************************)
Entry == [group : STRING, path : Paths, size : {1, 2}, inside : BOOLEAN]

\* The sums of the first files, up to the m-th.
Sums(g, list, m) == g = [n \in 0..m |-> IF n = 0 THEN 0 ELSE g[n - 1] + list[n].size]

\* There is such a function of sums.
LEMMA SumsExist ==
    ASSUME NEW list \in Seq(Entry), NEW m \in 0..Len(list)
    PROVE  \E g : Sums(g, list, m)
<1> DEFINE T == {n \in 0..Len(list) : ~\E g : Sums(g, list, n)}
<1>1. SUFFICES ASSUME T # {} PROVE FALSE
  OBVIOUS
<1>2. PICK k \in T : \A n \in T : k <= n
  <2>1. T \in SUBSET Nat
    OBVIOUS
  <2> HIDE DEF T
  <2> QED
    BY <1>1, <2>1, Least
<1>3. Sums([n \in 0..0 |-> 0], list, 0)
  BY DEF Sums
<1>4. k \in Nat /\ k # 0 /\ k \in 0..Len(list) /\ k - 1 \in 0..Len(list) /\ k - 1 \notin T
  BY <1>2, <1>3
<1>5. PICK g : Sums(g, list, k - 1)
  BY <1>4
<1> DEFINE h == [n \in 0..k |-> IF n = k THEN g[k - 1] + list[k].size ELSE g[n]]
<1>6. \A n \in 0..(k - 1) : g[n] = IF n = 0 THEN 0 ELSE g[n - 1] + list[n].size
  BY <1>5 DEF Sums
<1>7. \A n \in 0..k : h[n] = IF n = 0 THEN 0 ELSE h[n - 1] + list[n].size
  BY <1>4, <1>6
<1>8. Sums(h, list, k)
  BY <1>7 DEF Sums
<1> QED
  BY <1>2, <1>8

\* Lists that begin alike have the same sums.
LEMMA SumsAgree ==
    ASSUME NEW list, NEW other, NEW m \in Nat, NEW k \in 0..m, NEW g, NEW h,
           \A n \in 1..k : list[n] = other[n], Sums(g, list, m), Sums(h, other, k)
    PROVE  \A n \in 0..k : g[n] = h[n]
<1> DEFINE T == {n \in 0..k : g[n] # h[n]}
<1>1. SUFFICES ASSUME T # {} PROVE FALSE
  OBVIOUS
<1>2. PICK n \in T : \A i \in T : n <= i
  <2>1. T \in SUBSET Nat
    OBVIOUS
  <2> HIDE DEF T
  <2> QED
    BY <1>1, <2>1, Least
<1>3. g[n] = (IF n = 0 THEN 0 ELSE g[n - 1] + list[n].size) /\ n \in 0..m
  BY <1>2 DEF Sums
<1>4. h[n] = IF n = 0 THEN 0 ELSE h[n - 1] + other[n].size
  BY <1>2 DEF Sums
<1>5. n # 0
  BY <1>2, <1>3, <1>4
<1>6. n \in 1..k /\ n - 1 \in 0..k /\ n - 1 \notin T
  BY <1>2, <1>5
<1> QED
  BY <1>2, <1>3, <1>4, <1>5, <1>6

\* TotalSize is the last of the sums.
LEMMA SumOf ==
    ASSUME NEW list \in Seq(Entry)
    PROVE  \E g : Sums(g, list, Len(list)) /\ TotalSize(list) = g[Len(list)]
<1> DEFINE s == CHOOSE g : g = [n \in 0..Len(list) |-> IF n = 0 THEN 0 ELSE g[n - 1] + list[n].size]
<1>1. \E g : g = [n \in 0..Len(list) |-> IF n = 0 THEN 0 ELSE g[n - 1] + list[n].size]
  BY SumsExist DEF Sums
<1>2. s = [n \in 0..Len(list) |-> IF n = 0 THEN 0 ELSE s[n - 1] + list[n].size]
  BY <1>1
<1>3. TotalSize(list) = s[Len(list)]
  BY DEF TotalSize
<1> QED
  BY <1>2, <1>3 DEF Sums

\* No file, no size.
LEMMA TotalOfNone == TotalSize(<<>>) = 0
<1>1. <<>> \in Seq(Entry) /\ Len(<<>>) = 0
  OBVIOUS
<1>2. PICK g : Sums(g, <<>>, 0) /\ TotalSize(<<>>) = g[0]
  BY <1>1, SumOf
<1> QED
  BY <1>2 DEF Sums

\* A further file adds its size.
LEMMA TotalOfMore ==
    ASSUME NEW list \in Seq(Entry), NEW f \in Entry
    PROVE  TotalSize(Append(list, f)) = TotalSize(list) + f.size
<1> DEFINE more == Append(list, f)
<1>1. more \in Seq(Entry) /\ Len(more) = Len(list) + 1 /\ more[Len(list) + 1] = f
      /\ \A n \in 1..Len(list) : more[n] = list[n]
  OBVIOUS
<1>2. PICK g : Sums(g, more, Len(more)) /\ TotalSize(more) = g[Len(more)]
  BY <1>1, SumOf
<1>3. PICK h : Sums(h, list, Len(list)) /\ TotalSize(list) = h[Len(list)]
  BY SumOf
<1>4. Len(list) \in Nat
  OBVIOUS
<1> HIDE DEF more
<1>5. \A n \in 0..Len(list) : g[n] = h[n]
  <2>1. Len(more) \in Nat /\ Len(list) \in 0..Len(more)
    BY <1>1, <1>4
  <2>2. \A n \in 1..Len(list) : more[n] = list[n]
    BY <1>1
  <2>3. Sums(g, more, Len(more)) /\ Sums(h, list, Len(list))
    BY <1>2, <1>3
  <2> QED
    BY <2>1, <2>2, <2>3, SumsAgree
<1>6. g[Len(more)] = g[Len(list)] + f.size
  BY <1>1, <1>2, <1>4 DEF Sums
<1> QED
  BY <1>1, <1>2, <1>3, <1>4, <1>5, <1>6 DEF more

-----------------------------------------------------------------------------
(***************************************************************************)
(* Directories and their removal.                                          *)
(***************************************************************************)
\* Segments of paths; that the names the destination makes up are strings has to be
\* said, because the provers do not know it.
Segment == STRING \cup {"artifacts", "execution-report.json", "stdout.bin", "stderr.bin"}
Name == Seq(Segment)

\* What SubSeq does with a path.
LEMMA PrefixFacts ==
    ASSUME NEW path \in Name, NEW n \in 0..Len(path)
    PROVE  /\ SubSeq(path, 1, n) \in Name /\ Len(SubSeq(path, 1, n)) = n
           /\ \A k \in 0..n : SubSeq(SubSeq(path, 1, n), 1, k) = SubSeq(path, 1, k)
           /\ SubSeq(path, 1, Len(path)) = path
           /\ (n = 0 <=> SubSeq(path, 1, n) = <<>>)
<1>1. Len(path) \in Nat /\ n \in Nat
  OBVIOUS
<1>2. SubSeq(path, 1, n) \in Name /\ Len(SubSeq(path, 1, n)) = n
  BY <1>1 DEF Name
<1>3. \A k \in 0..n : SubSeq(SubSeq(path, 1, n), 1, k) = SubSeq(path, 1, k)
  BY <1>1 DEF Name
<1>4. SubSeq(path, 1, Len(path)) = path
  BY <1>1 DEF Name
<1>5. n = 0 <=> SubSeq(path, 1, n) = <<>>
  BY <1>1, <1>2
<1> QED
  BY <1>2, <1>3, <1>4, <1>5

\* What lies above a path: from the staging directory down to the path's own.
LEMMA AboveOf ==
    ASSUME NEW path \in Name, path # <<>>
    PROVE  /\ <<>> \in Above(path) /\ DirectoryOf(path) \in Above(path)
           /\ \A d \in Above(path) :
                  /\ d \in Name /\ Len(d) < Len(path)
                  /\ d # <<>> => DirectoryOf(d) \in Above(path) /\ Len(DirectoryOf(d)) < Len(d)
                  /\ \/ d = DirectoryOf(path)
                     \/ \E e \in Above(path) : e # <<>> /\ DirectoryOf(e) = d
<1>1. Len(path) \in Nat /\ Len(path) # 0 /\ Len(path) - 1 \in 0..(Len(path) - 1)
  BY DEF Name
<1>2. <<>> \in Above(path) /\ DirectoryOf(path) \in Above(path)
  <2>1. SubSeq(path, 1, 0) = <<>>
    BY <1>1, PrefixFacts
  <2>2. 0 \in 0..(Len(path) - 1)
    BY <1>1
  <2> QED
    BY <1>1, <2>1, <2>2 DEF Above, DirectoryOf
<1>3. ASSUME NEW n \in 0..(Len(path) - 1)
      PROVE  /\ SubSeq(path, 1, n) \in Name /\ Len(SubSeq(path, 1, n)) = n
             /\ n # 0 <=> SubSeq(path, 1, n) # <<>>
             /\ n # 0 => DirectoryOf(SubSeq(path, 1, n)) = SubSeq(path, 1, n - 1)
             /\ n + 1 \in 0..(Len(path) - 1) => DirectoryOf(SubSeq(path, 1, n + 1)) = SubSeq(path, 1, n)
  <2>1. n \in 0..Len(path)
    BY <1>1
  <2>2. /\ SubSeq(path, 1, n) \in Name /\ Len(SubSeq(path, 1, n)) = n
        /\ n # 0 <=> SubSeq(path, 1, n) # <<>>
        /\ \A k \in 0..n : SubSeq(SubSeq(path, 1, n), 1, k) = SubSeq(path, 1, k)
    BY <2>1, PrefixFacts
  <2>3. n # 0 => DirectoryOf(SubSeq(path, 1, n)) = SubSeq(path, 1, n - 1)
    <3>1. n # 0 => n - 1 \in 0..n
      BY <1>1
    <3> QED
      BY <2>2, <3>1 DEF DirectoryOf
  <2>4. n + 1 \in 0..(Len(path) - 1) => DirectoryOf(SubSeq(path, 1, n + 1)) = SubSeq(path, 1, n)
    <3>1. SUFFICES ASSUME n + 1 \in 0..(Len(path) - 1)
                   PROVE  DirectoryOf(SubSeq(path, 1, n + 1)) = SubSeq(path, 1, n)
      OBVIOUS
    <3>2. n + 1 \in 0..Len(path) /\ n \in 0..(n + 1) /\ (n + 1) - 1 = n
      BY <1>1, <3>1
    <3>3. /\ Len(SubSeq(path, 1, n + 1)) = n + 1
          /\ SubSeq(SubSeq(path, 1, n + 1), 1, n) = SubSeq(path, 1, n)
      BY <3>2, PrefixFacts
    <3> QED
      BY <3>2, <3>3 DEF DirectoryOf
  <2> QED
    BY <2>2, <2>3, <2>4
<1>4. ASSUME NEW d \in Above(path)
      PROVE  /\ d \in Name /\ Len(d) < Len(path)
             /\ d # <<>> => DirectoryOf(d) \in Above(path) /\ Len(DirectoryOf(d)) < Len(d)
             /\ \/ d = DirectoryOf(path)
                \/ \E e \in Above(path) : e # <<>> /\ DirectoryOf(e) = d
  <2>1. PICK n \in 0..(Len(path) - 1) : d = SubSeq(path, 1, n)
    BY DEF Above
  <2>2. d \in Name /\ Len(d) < Len(path)
    BY <1>1, <1>3, <2>1
  <2>3. d # <<>> => DirectoryOf(d) \in Above(path) /\ Len(DirectoryOf(d)) < Len(d)
    <3>1. SUFFICES ASSUME n # 0
                   PROVE  DirectoryOf(d) \in Above(path) /\ Len(DirectoryOf(d)) < Len(d)
      BY <1>3, <2>1
    <3>2. n - 1 \in 0..(Len(path) - 1)
      BY <1>1, <3>1
    <3>3. /\ DirectoryOf(d) = SubSeq(path, 1, n - 1)
          /\ Len(SubSeq(path, 1, n - 1)) = n - 1 /\ Len(d) = n
      BY <1>3, <2>1, <3>1, <3>2
    <3> QED
      BY <3>2, <3>3 DEF Above
  <2>4. CASE n = Len(path) - 1
    BY <2>1, <2>2, <2>3, <2>4 DEF DirectoryOf
  <2>5. CASE n # Len(path) - 1
    <3>1. n + 1 \in 0..(Len(path) - 1) /\ n + 1 # 0
      BY <1>1, <2>5
    <3>2. /\ DirectoryOf(SubSeq(path, 1, n + 1)) = d /\ SubSeq(path, 1, n + 1) # <<>>
          /\ SubSeq(path, 1, n + 1) \in Above(path)
      BY <1>3, <2>1, <3>1 DEF Above
    <3> QED
      BY <2>2, <2>3, <3>2
  <2> QED
    BY <2>4, <2>5
<1> QED
  BY <1>2, <1>4

\* Removing directories children first leaves those above the files that stay.
LEMMA RemainingAreAbove ==
    ASSUME NEW order \in Seq(Name), NEW kept \in SUBSET (Name \ {<<>>}),
           \A f \in kept : Above(f) \subseteq ToSet(order),
           \A i, j \in DOMAIN order :
               order[i] # <<>> /\ DirectoryOf(order[i]) = order[j] => i < j
    PROVE  Remaining(order, kept) = UNION {Above(f) : f \in kept}
<1> DEFINE U == UNION {Above(f) : f \in kept}
           N == Len(order)
           Body(g, i) ==
               IF i = 0 THEN ToSet(order)
               ELSE IF \/ \E e \in g[i - 1] : e # <<>> /\ DirectoryOf(e) = order[i]
                       \/ \E f \in kept : DirectoryOf(f) = order[i]
                    THEN g[i - 1] ELSE g[i - 1] \ {order[i]}
           Left(g) == g = [i \in 0..N |-> Body(g, i)]
           h == [i \in 0..N |-> ToSet(order) \ {order[j] : j \in {k \in 1..i : order[k] \notin U}}]
<1>1. N \in Nat /\ DOMAIN order = 1..N /\ ToSet(order) = {order[i] : i \in 1..N}
  BY DEF ToSet
<1>2. U \subseteq ToSet(order) /\ U \subseteq Name
  BY AboveOf
<1>3. ASSUME NEW i \in 1..N PROVE h[i] = Body(h, i)
  <2>1. i \in 0..N /\ i - 1 \in 0..N /\ i # 0 /\ i \in DOMAIN order
    BY <1>1
  <2>2. \A d : d \in h[i - 1] <=>
            d \in ToSet(order) /\ ~\E j \in 1..(i - 1) : order[j] \notin U /\ d = order[j]
    BY <2>1
  <2>3. \A d : d \in h[i] <=>
            d \in ToSet(order) /\ ~\E j \in 1..i : order[j] \notin U /\ d = order[j]
    BY <2>1
  <2>4. \A j : j \in 1..i <=> j \in 1..(i - 1) \/ j = i
    BY <1>1
  <2> HIDE DEF h
  <2>5. CASE order[i] \in U
    <3>1. h[i] = h[i - 1]
      BY <2>2, <2>3, <2>4, <2>5
    <3>2. PICK f \in kept : order[i] \in Above(f)
      BY <2>5
    <3>3. \/ order[i] = DirectoryOf(f)
          \/ \E e \in Above(f) : e # <<>> /\ DirectoryOf(e) = order[i]
      BY <3>2, AboveOf
    <3>4. \A e \in Above(f) : e \in h[i - 1]
      BY <1>2, <2>2
    <3> QED
      BY <2>1, <3>1, <3>3, <3>4
  <2>6. CASE order[i] \notin U
    <3>1. h[i] = h[i - 1] \ {order[i]}
      BY <2>2, <2>3, <2>4, <2>6
    <3>2. \A f \in kept : DirectoryOf(f) # order[i]
      BY <2>6, AboveOf
    <3>3. ASSUME NEW e \in h[i - 1], e # <<>>, DirectoryOf(e) = order[i]
          PROVE  FALSE
      <4>1. PICK k \in 1..N : e = order[k]
        BY <1>1, <2>2, <3>3
      <4>2. k < i
        BY <1>1, <2>1, <3>3, <4>1
      <4>3. k \in 1..(i - 1)
        BY <1>1, <4>2
      <4>4. e \in U
        BY <2>2, <3>3, <4>1, <4>3
      <4>5. PICK f \in kept : e \in Above(f)
        BY <4>4
      <4>6. DirectoryOf(e) \in Above(f)
        BY <3>3, <4>5, AboveOf
      <4> QED
        BY <2>6, <3>3, <4>6
    <3> QED
      BY <2>1, <3>1, <3>2, <3>3
  <2> QED
    BY <2>5, <2>6
<1>4. h[0] = ToSet(order)
  BY <1>1
<1>5. Left(h)
  <2>1. \A i \in 0..N : i = 0 \/ i \in 1..N
    BY <1>1
  <2>2. DOMAIN h = 0..N /\ h = [i \in 0..N |-> h[i]]
    OBVIOUS
  <2> HIDE DEF h
  <2>3. \A i \in 0..N : h[i] = Body(h, i)
    BY <1>3, <1>4, <2>1
  <2> QED
    BY <2>2, <2>3
<1>6. ASSUME NEW g, Left(g) PROVE \A i \in 0..N : g[i] = h[i]
  <2> DEFINE T == {i \in 0..N : g[i] # h[i]}
  <2>1. SUFFICES ASSUME T # {} PROVE FALSE
    OBVIOUS
  <2>2. T \in SUBSET Nat
    BY <1>1
  <2>3. PICK i \in T : \A k \in T : i <= k
    <3> HIDE DEF T
    <3> QED
      BY <2>1, <2>2, Least
  <2> HIDE DEF h, U
  <2>4. g[i] = Body(g, i)
    BY <1>6, <2>3
  <2>5. i # 0
    BY <1>4, <2>3, <2>4
  <2>6. i \in 1..N /\ i - 1 \in 0..N /\ i - 1 \notin T
    BY <1>1, <2>3, <2>5
  <2>7. g[i - 1] = h[i - 1]
    BY <2>6
  <2> QED
    BY <1>3, <2>3, <2>4, <2>5, <2>6, <2>7
<1>7. h[N] = U
  <2>1. N \in 0..N
    BY <1>1
  <2> QED
    BY <1>1, <1>2, <2>1
<1>8. PICK g : Left(g) /\ Remaining(order, kept) = g[N]
  <2> DEFINE c == CHOOSE g : Left(g)
  <2>1. Left(c)
    <3> HIDE DEF Left, h
    <3> QED
      BY <1>5
  <2>2. Remaining(order, kept) = c[N]
    BY DEF Remaining
  <2> QED
    BY <2>1, <2>2
<1> QED
  <2>1. N \in 0..N
    BY <1>1
  <2> HIDE DEF h, U
  <2>2. Remaining(order, kept) = U
    BY <1>6, <1>7, <1>8, <2>1
  <2> QED
    BY <2>2 DEF U

-----------------------------------------------------------------------------
(***************************************************************************)
(* Types.                                                                  *)
(***************************************************************************)
\* CollectTypeOK, and what the opened files and the pending groups are.
CollectTypeInv ==
    /\ CollectTypeOK
    /\ opened \in Seq(Entry) /\ pending \subseteq STRING

\* Min of a nonempty set of naturals is its least element.
LEMMA LeastOf ==
    ASSUME NEW S \in SUBSET Nat, S # {}
    PROVE  Min(S) \in S /\ \A n \in S : Min(S) <= n
<1>1. \E m \in S : \A n \in S : m <= n
  BY Least
<1> QED
  BY <1>1 DEF Min

\* The walk goes on at the next entry that was listed, or is over.
Advanced(seen) ==
    /\ listed' = seen
    /\ \/ /\ walk' = "walked" /\ place' = place
          /\ \A j \in DOMAIN WalkOrder : j > place => seen[WalkOrder[j]] = "absent"
       \/ /\ walk' = "visiting" /\ place' \in DOMAIN WalkOrder /\ place' > place
          /\ seen[WalkOrder[place']] # "absent"
          /\ \A j \in DOMAIN WalkOrder :
                 j > place /\ seen[WalkOrder[j]] # "absent" => place' <= j

\* Continue goes to the first listed entry after this one.
LEMMA ContinueAdvances ==
    ASSUME NEW seen, Continue(seen)
    PROVE  Advanced(seen)
<1> DEFINE later == {j \in DOMAIN WalkOrder : j > place /\ seen[WalkOrder[j]] # "absent"}
<1>1. later \in SUBSET Nat
  BY CollectionAssumption
<1>2. CASE later = {}
  BY <1>2 DEF Continue, Advanced
<1>3. CASE later # {}
  <2>1. listed' = seen /\ walk' = "visiting" /\ place' = Min(later)
    BY <1>3 DEF Continue
  <2>2. Min(later) \in later /\ \A j \in later : Min(later) <= j
    <3> HIDE DEF later
    <3> QED
      BY <1>1, <1>3, LeastOf
  <2> QED
    BY <2>1, <2>2 DEF Advanced
<1> QED
  BY <1>2, <1>3

\* note() keeps what is noted and adds a reason for the patterns given.
LEMMA Noted ==
    ASSUME NEW indices, NEW why \in Reasons \ {""}, reason \in [Selections -> Reasons],
           Note(indices, why)
    PROVE  /\ reason' \in [Selections -> Reasons]
           /\ \A i \in Selections : reason[i] # "" \/ i \in indices => reason'[i] # ""
BY DEF Note

\* The elements of a sequence.
LEMMA ElementOf ==
    ASSUME NEW R, NEW list \in Seq(R), NEW i \in DOMAIN list
    PROVE  list[i] \in R
OBVIOUS

\* A function on an initial segment is a sequence.
LEMMA ListOf ==
    ASSUME NEW R, NEW n \in Nat, NEW list \in [1..n -> R]
    PROVE  list \in Seq(R)
OBVIOUS

\* What the assumption says of the paths.
LEMMA PathsOf ==
    /\ Paths = {WalkOrder[j] : j \in DOMAIN WalkOrder} /\ <<>> \in Paths
    /\ 1 \in DOMAIN WalkOrder /\ WalkOrder[1] = <<>> /\ Paths \subseteq Name
    /\ DOMAIN WalkOrder = 1..Len(WalkOrder) /\ Len(WalkOrder) \in Nat
<1>1. /\ WalkOrder \in Seq(Seq(STRING)) /\ WalkOrder # <<>> /\ WalkOrder[1] = <<>>
  BY CollectionAssumption
<1>2. DOMAIN WalkOrder = 1..Len(WalkOrder) /\ Len(WalkOrder) \in Nat /\ 1 \in DOMAIN WalkOrder
  BY <1>1
<1>3. Paths = {WalkOrder[j] : j \in DOMAIN WalkOrder}
  BY DEF Paths, ToSet
<1>4. \A j \in DOMAIN WalkOrder : WalkOrder[j] \in Seq(STRING)
  <2> DEFINE R == Seq(STRING)
  <2>1. WalkOrder \in Seq(R)
    BY <1>1
  <2> HIDE DEF R
  <2>2. \A j \in DOMAIN WalkOrder : WalkOrder[j] \in R
    BY <2>1, ElementOf
  <2> QED
    BY <2>2 DEF R
<1>5. \A s \in Seq(STRING) : s \in Name
  BY DEF Name, Segment
<1> QED
  BY <1>1, <1>2, <1>3, <1>4, <1>5

\* Groups are names.
LEMMA GroupNames == \A path : GroupsOf(path) \subseteq STRING
<1>1. \A i \in Selections : Patterns[i].group \in STRING
  <2>1. Patterns \in Seq([group : STRING, pattern : Seq(STRING)])
    BY CollectionAssumption
  <2> DEFINE R == [group : STRING, pattern : Seq(STRING)]
  <2>2. \A i \in Selections : Patterns[i] \in R
    <3>1. Patterns \in Seq(R)
      BY <2>1
    <3> HIDE DEF R
    <3> QED
      BY <3>1, ElementOf DEF Selections
  <2> QED
    BY <2>2
<1> QED
  BY <1>1 DEF GroupsOf

\* The types hold at first.
LEMMA CollectTypeInit == CollectInit => CollectTypeInv
<1> SUFFICES ASSUME CollectInit PROVE CollectTypeInv
  OBVIOUS
<1>1. tree \in [Paths -> Kinds]
  BY CollectionAssumption DEF CollectInit, Trees
<1>2. listed \in [Paths -> Kinds]
  BY PathsOf DEF CollectInit, Nowhere, Kinds
<1>3. opened = <<>> /\ opened \in Seq(Entry) /\ Len(opened) = 0
  <2>1. opened = <<>>
    BY DEF CollectInit
  <2> QED
    BY <2>1
<1>4. Parts = 1
  BY <1>3 DEF Parts
<1>5. {MaxChanges, MaxFiles, MaxScanned} \subseteq Nat
  BY CollectionAssumption
<1>6. reason \in [Selections -> Reasons]
  <2>1. reason = [i \in Selections |-> ""]
    BY DEF CollectInit
  <2> QED
    BY <2>1 DEF Reasons
<1>7. /\ platform \in {"linux", "windows"} /\ changes = 0 /\ written = {} /\ walk = "idle"
      /\ place = 1 /\ scanned = 0 /\ pending = {} /\ collected = {} /\ helper = "none"
      /\ sent = 0 /\ got = 0 /\ expired = FALSE /\ caller = "start" /\ bundle = "none"
  BY DEF CollectInit
<1>8. CollectTypeOK
  <2>1. /\ platform \in {"linux", "windows"} /\ tree \in [Paths -> Kinds]
        /\ listed \in [Paths -> Kinds] /\ reason \in [Selections -> Reasons]
    BY <1>1, <1>2, <1>6, <1>7
  <2>2. /\ changes \in 0..MaxChanges /\ scanned \in 0..MaxScanned /\ Len(opened) <= MaxFiles
    BY <1>3, <1>5, <1>7
  <2>3. place \in DOMAIN WalkOrder
    BY <1>7, PathsOf
  <2>4. /\ collected \subseteq Selections /\ written \subseteq DOMAIN opened
        /\ sent \in 0..Parts /\ got \in 0..sent
    BY <1>4, <1>7
  <2>5. /\ walk \in {"idle", "visiting", "opening", "reading", "walked", "failed"}
        /\ helper \in {"none", "alive", "done", "failed", "killed"}
        /\ expired \in BOOLEAN
        /\ caller \in {"start", "plan", "content", "waiting", "failing", "walking", "returned"}
        /\ bundle \in {"none", "open", "closed"}
    BY <1>7
  <2> QED
    BY <2>1, <2>2, <2>3, <2>4, <2>5 DEF CollectTypeOK
<1> QED
  BY <1>3, <1>7, <1>8 DEF CollectTypeInv

\* The walk keeps the types.
LEMMA WalkTypes ==
    ASSUME CollectTypeInv, WalkStep
    PROVE  CollectTypeInv'
<1> USE DEF CollectTypeInv, CollectTypeOK
<1>a. {MaxChanges, MaxFiles, MaxScanned, MaxTotal} \subseteq Nat
  BY CollectionAssumption
<1>b. UNCHANGED <<treeVars, pipeVars, expired, callVars>>
  BY DEF WalkStep, EnterRoot, ScanLimit, Reject, Descend, Select, Visit, Callback, Walking, Aside,
         ReadDirectory, ReadDirectoryFails, WalkCancelled, FileLimit, Refuse, Collect, Candidate
<1>c. ASSUME NEW seen \in [Paths -> Kinds], Continue(seen)
      PROVE  /\ walk' \in {"walked", "visiting"} /\ place' \in DOMAIN WalkOrder
             /\ listed' \in [Paths -> Kinds]
  BY <1>c, ContinueAdvances DEF Advanced
<1>d. ASSUME Leave
      PROVE  /\ walk' \in {"walked", "visiting", "reading"} /\ place' \in DOMAIN WalkOrder
             /\ listed' \in [Paths -> Kinds]
  BY <1>c, <1>d DEF Leave
<1>e. opened' = opened /\ collected' = collected =>
          Parts' = Parts /\ DOMAIN opened' = DOMAIN opened
  BY DEF Parts
<1> DEFINE Walked == /\ walk' \in {"visiting", "opening", "reading", "walked", "failed"}
                     /\ place' \in DOMAIN WalkOrder /\ listed' \in [Paths -> Kinds]
                     /\ scanned' \in 0..MaxScanned /\ pending' \subseteq STRING
           Still == opened' = opened /\ collected' = collected
<1>h. Visit => scanned' \in 0..MaxScanned
  BY <1>a DEF Visit
<1>f. ASSUME Walked, Still, reason' \in [Selections -> Reasons] PROVE CollectTypeInv'
  <2> QED
    BY <1>b, <1>e, <1>f DEF treeVars, pipeVars, callVars
<1>1. CASE EnterRoot
  <2>1. Walked /\ Still /\ reason' = reason
    BY <1>1 DEF EnterRoot, patternVars
  <2> QED
    BY <1>f, <2>1
<1>2. CASE ScanLimit
  <2>1. Walked /\ Still
    BY <1>2 DEF ScanLimit
  <2>2. reason' \in [Selections -> Reasons]
    BY <1>2, Noted DEF ScanLimit, Reasons
  <2> QED
    BY <1>f, <2>1, <2>2
<1>3. CASE Reject
  <2>1. AfterRejection(Here) \in [Paths -> Kinds]
    BY DEF AfterRejection, Kinds
  <2>2. Walked /\ Still
    BY <1>c, <1>h, <1>3, <2>1 DEF Reject
  <2>3. Rejection(Here) \in Reasons \ {""}
    BY <1>3 DEF Reject, Rejection, Reasons
  <2>4. reason' \in [Selections -> Reasons]
    BY <1>3, <2>3, Noted DEF Reject
  <2> QED
    BY <1>f, <2>2, <2>4
<1>4. CASE Descend
  <2>1. Walked /\ Still /\ reason' = reason
    BY <1>d, <1>h, <1>4 DEF Descend, patternVars
  <2> QED
    BY <1>f, <2>1
<1>5. CASE Select
  <2>1. Walked /\ Still /\ reason' = reason
    BY <1>h, <1>5, GroupNames DEF Select, patternVars
  <2> QED
    BY <1>f, <2>1
<1>6. CASE ReadDirectory
  <2>1. \E seen \in [Paths -> Kinds] : Continue(seen)
    BY <1>6 DEF ReadDirectory, Kinds
  <2>2. Walked /\ Still /\ reason' = reason
    BY <1>c, <1>6, <2>1 DEF ReadDirectory, patternVars
  <2> QED
    BY <1>f, <2>2
<1>7. CASE ReadDirectoryFails
  <2>1. Still /\ pending' = pending
    BY <1>7 DEF ReadDirectoryFails
  <2>2. \/ Continue(listed) /\ scanned' = scanned /\ reason' = reason
        \/ /\ walk' \in {"failed", "walked"} /\ UNCHANGED <<place, listed, scanned>>
           /\ reason' = reason \/ Note(Selections, "file_limit")
        \/ /\ platform = "windows" /\ ~(scanned = MaxScanned)
           /\ Continue(listed) /\ scanned' = scanned + 1 /\ Note(Reaching(Here), "read_failed")
    BY <1>7 DEF ReadDirectoryFails
  <2>3. Walked
    BY <1>a, <1>c, <2>1, <2>2
  <2>4. reason' \in [Selections -> Reasons]
    BY <2>2, Noted DEF Reasons
  <2> QED
    BY <1>f, <2>1, <2>3, <2>4
<1>8. CASE WalkCancelled
  <2>1. Walked /\ Still /\ reason' = reason
    BY <1>8 DEF WalkCancelled, patternVars
  <2> QED
    BY <1>f, <2>1
<1>9. ASSUME NEW g \in pending, Candidate(g) PROVE Walked
  <2>1. pending' \subseteq STRING /\ scanned' = scanned
    BY <1>9 DEF Candidate
  <2>2. \/ Leave
        \/ walk' = "opening" /\ UNCHANGED <<place, listed>>
    BY <1>9 DEF Candidate, Walking
  <2> QED
    BY <1>d, <2>1, <2>2
<1>10. ASSUME NEW g \in pending, FileLimit(g) PROVE CollectTypeInv'
  <2>1. Walked /\ Still
    BY <1>9, <1>10 DEF FileLimit
  <2>2. reason' \in [Selections -> Reasons]
    BY <1>10, Noted DEF FileLimit, Reasons
  <2> QED
    BY <1>f, <2>1, <2>2
<1>11. ASSUME NEW g \in pending, Refuse(g) PROVE CollectTypeInv'
  <2>1. Walked /\ Still
    BY <1>9, <1>11 DEF Refuse
  <2>2. Refusal(At(Here)) \in Reasons \ {""}
    BY <1>11 DEF Refuse, Refusal, LinuxRefusal, WindowsRefusal, Reasons
  <2>3. reason' \in [Selections -> Reasons]
    BY <1>11, <2>2, Noted DEF Refuse
  <2> QED
    BY <1>f, <2>1, <2>3
<1>12. ASSUME NEW g \in pending, Collect(g) PROVE CollectTypeInv'
  <2>1. Walked /\ reason' = reason
    BY <1>9, <1>12 DEF Collect
  <2>2. PICK f \in Entry : opened' = Append(opened, f)
    <3>1. Here \in Paths /\ Size(At(Here)) \in {1, 2} /\ g \in STRING
      BY PathsOf DEF Here, Size
    <3> DEFINE f == [group |-> g, path |-> Here, size |-> Size(At(Here)),
                     inside |-> At(Here) \in {"file", "large"}]
    <3>2. f \in Entry
      BY <3>1 DEF Entry
    <3>3. opened' = Append(opened, f)
      BY <1>12 DEF Collect
    <3> QED
      BY <3>2, <3>3
  <2>3. collected' \subseteq Selections
    BY <1>12 DEF Collect, Selecting
  <2>4. /\ opened' \in Seq(Entry) /\ Len(opened') = Len(opened) + 1
        /\ DOMAIN opened \subseteq DOMAIN opened' /\ Len(opened') <= MaxFiles
    <3>1. Len(opened) < MaxFiles /\ Len(opened) \in Nat /\ MaxFiles \in Nat
      <4>1. Len(opened) < MaxFiles
        BY <1>12 DEF Collect
      <4> QED
        BY <1>a, <4>1
    <3>2. opened \in Seq(Entry)
      OBVIOUS
    <3> QED
      BY <2>2, <3>1, <3>2
  <2>5. sent' \in 0..Parts' /\ got' \in 0..sent'
    BY <1>b, <2>4 DEF Parts, pipeVars
  <2> QED
    BY <1>b, <2>1, <2>3, <2>4, <2>5 DEF treeVars, pipeVars, callVars
<1> QED
  BY <1>1, <1>2, <1>3, <1>4, <1>5, <1>6, <1>7, <1>8, <1>10, <1>11, <1>12 DEF WalkStep

\* The steps that are not of the walk leave what it has found alone.
OtherStep == HelperStep \/ CallerStep \/ CollectFault \/ Environment

LEMMA OthersKeepWalk ==
    ASSUME OtherStep
    PROVE  UNCHANGED <<platform, place, listed, scanned, pending, patternVars>>
<1> USE DEF walkVars, entryVars, treeVars, Helps, Receives, Calls
<1>1. CASE HelperStep
  BY <1>1 DEF HelperStep, Send, GiveUp, HelperExits
<1>2. CASE CallerStep
  <2>1. CASE ReceivePlan \/ ReceiveFile \/ ReceiveEnd \/ ReceiveMustFail
    BY <2>1 DEF ReceivePlan, ReceiveFile, ReceiveEnd, ReceiveMustFail, ReceiveFails
  <2>2. CASE Start \/ DirectoryRefused
    BY <2>2 DEF Start, DirectoryRefused, Fallback
  <2>3. CASE Reap \/ EndWalk
    BY <2>3 DEF Reap, EndWalk, Fallback, Return
  <2> QED
    BY <1>2, <2>1, <2>2, <2>3 DEF CallerStep
<1>3. CASE CollectFault
  BY <1>3 DEF CollectFault, StartFails, HelperFails, ReceiveFails, ReleaseFails, Fallback
<1>4. CASE Environment
  BY <1>4 DEF Environment, Expire, Change, WriteTo, Disturb
<1> QED
  BY <1>1, <1>2, <1>3, <1>4 DEF OtherStep

\* They keep the types.
LEMMA OtherTypes ==
    ASSUME CollectTypeInv, OtherStep
    PROVE  CollectTypeInv'
<1> USE DEF CollectTypeInv, CollectTypeOK
<1>a. UNCHANGED <<platform, place, listed, scanned, pending, opened, reason, collected>>
  BY OthersKeepWalk DEF patternVars
<1>b. Parts' = Parts /\ DOMAIN opened' = DOMAIN opened /\ Parts \in Nat
  BY <1>a DEF Parts
<1> DEFINE Frame ==
        /\ tree' \in [Paths -> Kinds] /\ changes' \in 0..MaxChanges
        /\ walk' \in {"idle", "visiting", "opening", "reading", "walked", "failed"}
        /\ written' \subseteq DOMAIN opened
        /\ helper' \in {"none", "alive", "done", "failed", "killed"}
        /\ sent' \in 0..Parts /\ got' \in 0..sent'
        /\ expired' \in BOOLEAN
        /\ caller' \in {"start", "plan", "content", "waiting", "failing", "walking", "returned"}
        /\ bundle' \in {"none", "open", "closed"}
<1>c. Frame => CollectTypeInv'
  BY <1>a, <1>b
<1>d. UNCHANGED <<treeVars, walk, expired, caller, bundle>> /\ got' = got =>
          /\ UNCHANGED <<tree, changes, written, walk, expired, caller, bundle, got>>
  BY DEF treeVars
<1>1. CASE HelperStep \/ HelperFails
  <2>1. UNCHANGED <<tree, changes, written, walk, expired, caller, bundle, got>>
    BY <1>1 DEF HelperStep, Send, GiveUp, HelperExits, HelperFails, Helps, treeVars, walkVars,
                entryVars, callVars
  <2>2. helper' \in {"none", "alive", "done", "failed", "killed"}
    BY <1>1 DEF HelperStep, Send, GiveUp, HelperExits, HelperFails
  <2>3. \/ sent' = sent
        \/ sent' = sent + 1 /\ sent < Parts
    BY <1>1 DEF HelperStep, Send, GiveUp, HelperExits, HelperFails
  <2> QED
    BY <1>b, <1>c, <2>1, <2>2, <2>3
<1>2. CASE ReceivePlan \/ ReceiveFile \/ ReceiveEnd \/ ReceiveFails
  <2>1. UNCHANGED <<tree, changes, written, walk, expired, helper, sent>>
    BY <1>2 DEF ReceivePlan, ReceiveFile, ReceiveEnd, ReceiveFails, Receives, treeVars, walkVars,
                entryVars
  <2>2. /\ caller' \in {"plan", "content", "waiting", "failing"}
        /\ bundle' \in {"none", "open", "closed"}
    BY <1>2 DEF ReceivePlan, ReceiveFile, ReceiveEnd, ReceiveFails, CloseBundle
  <2>3. \/ got' = got
        \/ got' = 1 /\ sent > 0
        \/ got' = got + 1 /\ sent > got
    BY <1>2 DEF ReceivePlan, ReceiveFile, ReceiveEnd, ReceiveFails
  <2> QED
    BY <1>b, <1>c, <2>1, <2>2, <2>3
<1>3. CASE Start \/ Fallback \/ Return
  <2>1. UNCHANGED <<tree, changes, written, expired, sent, got>>
    BY <1>3 DEF Start, Fallback, Return, Calls, treeVars
  <2>2. /\ walk' \in {walk, "visiting"} /\ helper' \in {helper, "alive"}
        /\ caller' \in {"plan", "walking", "returned"} /\ bundle' \in {bundle, "open", "closed"}
    BY <1>3 DEF Start, Fallback, Return, CloseBundle
  <2> QED
    BY <1>c, <2>1, <2>2
<1>4. CASE Expire
  <2>1. /\ UNCHANGED <<tree, changes, written, walk, sent, got, caller, bundle>>
        /\ expired' = TRUE /\ helper' \in {helper, "killed"}
    BY <1>4 DEF Expire, treeVars, walkVars, entryVars, callVars
  <2> QED
    BY <1>c, <2>1
<1>5. CASE \E p \in Paths : Change(p)
  <2>1. PICK p \in Paths : Change(p)
    BY <1>5
  <2>2. UNCHANGED <<written, walk, helper, sent, got, expired, caller, bundle>>
    BY <2>1 DEF Change, Disturb, walkVars, entryVars, pipeVars, callVars
  <2>3. changes < MaxChanges /\ changes' = changes + 1 /\ MaxChanges \in Nat
    BY <2>1, CollectionAssumption DEF Change, Disturb
  <2>4. \A t \in Trees(platform) : t[p] \in Kinds
    BY CollectionAssumption DEF Trees
  <2>5. tree' \in [Paths -> Kinds]
    BY <2>1, <2>4 DEF Change
  <2>6. changes' \in 0..MaxChanges
    BY <2>3
  <2> QED
    BY <1>c, <2>2, <2>5, <2>6
<1>6. CASE \E i \in DOMAIN opened : WriteTo(i)
  <2>1. UNCHANGED <<tree, walk, helper, sent, got, expired, caller, bundle>>
    BY <1>6 DEF WriteTo, Disturb, walkVars, entryVars, pipeVars, callVars
  <2>2. changes < MaxChanges /\ changes' = changes + 1 /\ MaxChanges \in Nat
    BY <1>6, CollectionAssumption DEF WriteTo, Disturb
  <2>3. changes' \in 0..MaxChanges
    BY <2>2
  <2>4. written' \subseteq DOMAIN opened
    BY <1>6 DEF WriteTo
  <2> QED
    BY <1>c, <2>1, <2>3, <2>4
<1> QED
  BY <1>1, <1>2, <1>3, <1>4, <1>5, <1>6
     DEF OtherStep, CallerStep, CollectFault, Environment, ReceiveMustFail, DirectoryRefused, Reap,
         EndWalk, StartFails, ReleaseFails

\* The steps of the destination leave the collection alone, but for the bundle.
LEMMA DeliverKeepsCollection ==
    ASSUME Deliver \/ Break \/ Interfere
    PROVE  /\ UNCHANGED <<treeVars, walkVars, pipeVars, expired, caller, artifacts>>
           /\ caller = "returned"
           /\ bundle' = bundle \/ bundle' = (IF bundle = "open" THEN "closed" ELSE bundle)
<1>1. CASE Deliver
  BY <1>1 DEF Deliver, SendReport, ReportTooLarge, NamesRefused, Transfer, Finish, Store, Streams,
              CloseBundle
<1>2. CASE Break
  BY <1>2 DEF Break, Streams, CloseBundle
<1>3. CASE Interfere
  BY <1>3 DEF Interfere, collectVars, callVars
<1> QED
  BY <1>1, <1>2, <1>3

\* Every step keeps the types.
LEMMA CollectTypeStep == CollectTypeInv /\ [DeliveryNext]_deliveryVars => CollectTypeInv'
<1> SUFFICES ASSUME CollectTypeInv, [DeliveryNext]_deliveryVars PROVE CollectTypeInv'
  OBVIOUS
<1>1. CASE WalkStep
  BY <1>1, WalkTypes
<1>2. CASE OtherStep
  BY <1>2, OtherTypes
<1>3. CASE Deliver \/ Break \/ Interfere
  <2>1. /\ UNCHANGED <<platform, tree, changes, written, walk, place, listed, scanned, pending>>
        /\ UNCHANGED <<opened, reason, collected, helper, sent, got, expired, caller>>
        /\ bundle' \in {bundle, "closed"}
    BY <1>3, DeliverKeepsCollection DEF treeVars, walkVars, entryVars, patternVars, pipeVars
  <2> QED
    BY <2>1 DEF CollectTypeInv, CollectTypeOK, Parts
<1>4. CASE UNCHANGED deliveryVars
  BY <1>4 DEF deliveryVars, collectVars, treeVars, walkVars, entryVars, patternVars, pipeVars,
              callVars, CollectTypeInv, CollectTypeOK, Parts
<1> QED
  BY <1>1, <1>2, <1>3, <1>4 DEF DeliveryNext, CollectStep, OtherStep

\* CollectTypeOK: the state of a collection is of its type, whatever the tree does
\* meanwhile.
THEOREM CollectTypeCorrect == DeliverySpec => []CollectTypeOK
<1>1. DeliveryInit => CollectTypeInv
  BY CollectTypeInit DEF DeliveryInit
<1>2. CollectTypeInv => CollectTypeOK
  BY DEF CollectTypeInv
<1> QED
  BY <1>1, <1>2, CollectTypeStep, PTL DEF DeliverySpec

-----------------------------------------------------------------------------
(***************************************************************************)
(* Where Collect and its helper are.                                       *)
(***************************************************************************)
CallInv ==
    /\ platform = "linux" => caller # "walking"
    /\ platform = "windows" => caller \in {"start", "walking", "returned"} /\ helper = "none"
    /\ caller = "start" => walk = "idle" /\ helper = "none" /\ bundle = "none"
    /\ walk = "idle" => caller \in {"start", "returned"}
    /\ caller = "plan" => bundle = "none"
    /\ caller \in {"content", "waiting", "walking"} => bundle = "open"
    /\ caller = "failing" => bundle # "open"
    /\ caller \in {"waiting", "returned"} => helper # "alive"
    /\ helper = "done" => walk = "walked"

\* What the walk does to the entry it is at.
WalkMoves ==
    \/ place' = place /\ walk' \in {"reading", "walked", "failed"}
    \/ place' > place /\ place' \in DOMAIN WalkOrder /\ walk' = "visiting"
    \/ place' = place /\ walk' = "opening" /\ walk = "visiting"
    \/ place' = place /\ walk' = "opening" /\ walk = "opening" /\ pending' \subseteq pending

\* The walk, in sum.
LEMMA WalkEffect ==
    ASSUME WalkStep
    PROVE  /\ walk \in {"visiting", "opening", "reading"}
           /\ IF platform = "linux" THEN helper = "alive" ELSE caller = "walking"
           /\ UNCHANGED <<platform, tree, changes, written, helper, sent, got, expired, caller,
                          bundle, artifacts>>
           /\ WalkMoves
           /\ \/ opened' = opened /\ collected' = collected
              \/ \E g \in pending : Collect(g)
<1> USE DEF WalkMoves
<1>a. ASSUME NEW seen, Continue(seen)
      PROVE  \/ place' = place /\ walk' = "walked"
             \/ place' > place /\ place' \in DOMAIN WalkOrder /\ walk' = "visiting"
  BY <1>a, ContinueAdvances DEF Advanced
<1>b. ASSUME NEW g, Candidate(g) PROVE WalkMoves
  BY <1>a, <1>b DEF Candidate, Walking, Leave
<1>1. CASE EnterRoot \/ ScanLimit \/ Select \/ WalkCancelled
  <2>1. opened' = opened /\ collected' = collected /\ WalkMoves
    BY <1>1 DEF EnterRoot, ScanLimit, Select, WalkCancelled, Visit, Callback, Walking, patternVars
  <2>2. /\ walk = "visiting" /\ Aside
        /\ IF platform = "linux" THEN helper = "alive" ELSE caller = "walking"
    BY <1>1 DEF EnterRoot, ScanLimit, Select, WalkCancelled, Visit, Callback, Walking
  <2> QED
    BY <2>1, <2>2 DEF Aside, treeVars, pipeVars, callVars
<1>2. CASE Reject \/ Descend
  <2>1. opened' = opened /\ collected' = collected
    BY <1>2 DEF Reject, Descend, patternVars
  <2>2. /\ walk = "visiting" /\ Aside
        /\ IF platform = "linux" THEN helper = "alive" ELSE caller = "walking"
    BY <1>2 DEF Reject, Descend, Visit, Callback, Walking
  <2>3. WalkMoves
    BY <1>2, <1>a DEF Reject, Descend, Leave
  <2> QED
    BY <2>1, <2>2, <2>3 DEF Aside, treeVars, pipeVars, callVars
<1>3. CASE ReadDirectory \/ ReadDirectoryFails
  <2>1. opened' = opened /\ collected' = collected
    BY <1>3 DEF ReadDirectory, ReadDirectoryFails, patternVars
  <2>2. /\ walk = "reading" /\ Aside
        /\ IF platform = "linux" THEN helper = "alive" ELSE caller = "walking"
    BY <1>3 DEF ReadDirectory, ReadDirectoryFails, Walking
  <2>3. WalkMoves
    BY <1>3, <1>a DEF ReadDirectory, ReadDirectoryFails
  <2> QED
    BY <2>1, <2>2, <2>3 DEF Aside, treeVars, pipeVars, callVars
<1>4. ASSUME NEW g \in pending, FileLimit(g) \/ Refuse(g) \/ Collect(g)
      PROVE  /\ walk = "opening" /\ Aside /\ WalkMoves
             /\ IF platform = "linux" THEN helper = "alive" ELSE caller = "walking"
             /\ \/ opened' = opened /\ collected' = collected
                \/ Collect(g)
  <2>1. Candidate(g)
    BY <1>4 DEF FileLimit, Refuse, Collect
  <2>2. walk = "opening" /\ Aside /\ IF platform = "linux" THEN helper = "alive" ELSE caller = "walking"
    BY <2>1 DEF Candidate, Walking
  <2>3. \/ opened' = opened /\ collected' = collected
        \/ Collect(g)
    BY <1>4 DEF FileLimit, Refuse
  <2> QED
    BY <1>b, <2>1, <2>2, <2>3
<1> QED
  BY <1>1, <1>2, <1>3, <1>4 DEF WalkStep, Aside, treeVars, pipeVars, callVars

\* No helper, no bundle before Collect starts.
LEMMA CallInit == CollectInit => CallInv
BY DEF CollectInit, CallInv

\* The walk runs while Collect waits for it.
LEMMA CallWalk ==
    ASSUME CallInv, WalkStep
    PROVE  CallInv' /\ caller \notin {"start", "returned"} /\ walk' # "idle"
<1>1. /\ walk \in {"visiting", "opening", "reading"} /\ WalkMoves
      /\ IF platform = "linux" THEN helper = "alive" ELSE caller = "walking"
      /\ UNCHANGED <<platform, helper, caller, bundle>>
  BY WalkEffect
<1>2. walk' # "idle"
  BY <1>1 DEF WalkMoves
<1> QED
  BY <1>1, <1>2 DEF CallInv

\* So do the other steps of the collection.
LEMMA CallOther ==
    ASSUME CollectTypeInv, CallInv, OtherStep
    PROVE  CallInv'
<1> USE DEF CallInv
<1>a. platform' = platform /\ platform \in {"linux", "windows"}
  BY OthersKeepWalk DEF CollectTypeInv, CollectTypeOK
<1>1. CASE HelperStep \/ HelperFails
  <2>1. UNCHANGED <<walk, caller, bundle>> /\ helper = "alive"
    BY <1>1 DEF HelperStep, Send, GiveUp, HelperExits, HelperFails, Helps, walkVars, entryVars,
                callVars
  <2>2. \/ helper' = helper
        \/ helper' = "failed"
        \/ helper' = "done" /\ walk = "walked"
    BY <1>1 DEF HelperStep, Send, GiveUp, HelperExits, HelperFails
  <2> QED
    BY <1>a, <2>1, <2>2
<1>2. CASE ReceivePlan \/ ReceiveFile \/ ReceiveEnd \/ ReceiveFails
  <2>1. UNCHANGED <<walk, helper>>
    BY <1>2 DEF ReceivePlan, ReceiveFile, ReceiveEnd, ReceiveFails, Receives, walkVars, entryVars
  <2> QED
    BY <1>2, <1>a, <2>1 DEF ReceivePlan, ReceiveFile, ReceiveEnd, ReceiveFails, CloseBundle
<1>3. CASE Start
  BY <1>3, <1>a DEF Start
<1>4. CASE StartFails \/ DirectoryRefused \/ Reap \/ EndWalk \/ ReleaseFails
  <2>1. caller' = "returned" /\ UNCHANGED <<walk, helper>>
    BY <1>4 DEF StartFails, DirectoryRefused, Reap, EndWalk, ReleaseFails, Fallback, Return
  <2>2. caller \in {"start", "walking"} \/ helper # "alive"
    BY <1>4 DEF StartFails, DirectoryRefused, Reap, EndWalk, ReleaseFails
  <2> QED
    BY <1>a, <2>1, <2>2
<1>5. CASE Environment
  <2>1. UNCHANGED <<walk, caller, bundle>> /\ helper' \in {helper, "killed"}
        /\ (helper' # helper => helper = "alive")
    BY <1>5 DEF Environment, Expire, Change, WriteTo, Disturb, walkVars, entryVars, pipeVars, callVars
  <2> QED
    BY <1>a, <2>1
<1> QED
  BY <1>1, <1>2, <1>3, <1>4, <1>5 DEF OtherStep, CallerStep, CollectFault, ReceiveMustFail

\* Every step keeps the table.
LEMMA CallStep == CollectTypeInv /\ CallInv /\ [DeliveryNext]_deliveryVars => CallInv'
<1> SUFFICES ASSUME CollectTypeInv, CallInv, [DeliveryNext]_deliveryVars PROVE CallInv'
  OBVIOUS
<1>1. CASE WalkStep
  BY <1>1, CallWalk
<1>2. CASE OtherStep
  BY <1>2, CallOther
<1>3. CASE Deliver \/ Break \/ Interfere
  <2>1. UNCHANGED <<platform, walk, helper, caller>> /\ caller = "returned"
    BY <1>3, DeliverKeepsCollection DEF treeVars, walkVars, entryVars, pipeVars
  <2> QED
    BY <2>1 DEF CallInv
<1>4. CASE UNCHANGED deliveryVars
  BY <1>4 DEF deliveryVars, collectVars, treeVars, walkVars, entryVars, pipeVars, callVars, CallInv
<1> QED
  BY <1>1, <1>2, <1>3, <1>4 DEF DeliveryNext, CollectStep, OtherStep

-----------------------------------------------------------------------------
(***************************************************************************)
(* What the walk has opened.                                               *)
(***************************************************************************)
OpenedInv ==
    /\ TotalSize(opened) \in 0..MaxTotal
    /\ \A n \in DOMAIN opened :
           /\ opened[n].inside /\ ~HasSensitiveSegment(opened[n].path)
           /\ Selecting(opened[n].group, opened[n].path) # {}
    /\ \A i \in collected : \E n \in DOMAIN opened :
           i \in Selecting(opened[n].group, opened[n].path)
    /\ walk = "opening" => ~HasSensitiveSegment(Here) /\ pending \subseteq GroupsOf(Here)

\* A file is opened at one entry of the walk for each group, and not twice.
UniqueInv ==
    /\ caller = "start" => opened = <<>>
    /\ Unique(opened)
    /\ \A n \in DOMAIN opened : \E m \in DOMAIN WalkOrder :
           /\ opened[n].path = WalkOrder[m] /\ m <= place
           /\ m = place =>
                  walk # "visiting" /\ (walk = "opening" => opened[n].group \notin pending)

\* The entry that Collect adds.
LEMMA CollectAdds ==
    ASSUME CollectTypeInv, OpenedInv, NEW g \in pending, Collect(g)
    PROVE  /\ walk = "opening"
           /\ \E f \in Entry :
                  /\ opened' = Append(opened, f)
                  /\ f.group = g /\ f.path = Here /\ f.inside
                  /\ TotalSize(opened) + f.size <= MaxTotal
           /\ collected' = collected \cup Selecting(g, Here)
           /\ pending' = pending \ {g} /\ Len(opened) < MaxFiles
<1>1. walk = "opening" /\ pending' = pending \ {g}
  BY DEF Collect, Candidate, Walking
<1>2. At(Here) \in Kinds \cup {"outside"}
  <2>1. Here \in Paths /\ tree \in [Paths -> Kinds]
    BY PathsOf DEF Here, CollectTypeInv, CollectTypeOK
  <2>2. tree[Here] \in Kinds
    BY <2>1
  <2>3. At(Here) \in {"outside", "absent", tree[Here]}
    BY DEF At
  <2> QED
    BY <2>2, <2>3 DEF Kinds
<1>3. At(Here) \in {"file", "large"} /\ ~TooLarge(At(Here))
  <2>1. At(Here) # "fifo" /\ Refusal(At(Here)) = ""
    BY DEF Collect
  <2>2. platform \in {"linux", "windows"}
    BY DEF CollectTypeInv, CollectTypeOK
  <2> QED
    BY <1>2, <2>1, <2>2 DEF Refusal, LinuxRefusal, WindowsRefusal, Kinds
<1>4. Size(At(Here)) \in {1, 2} /\ ~(Size(At(Here)) > MaxTotal - TotalSize(opened))
  BY <1>3 DEF TooLarge, Size
<1>5. MaxTotal \in Nat /\ TotalSize(opened) \in 0..MaxTotal
  BY CollectionAssumption DEF OpenedInv
<1>6. TotalSize(opened) + Size(At(Here)) <= MaxTotal
  BY <1>4, <1>5
<1> DEFINE f == [group |-> g, path |-> Here, size |-> Size(At(Here)),
                 inside |-> At(Here) \in {"file", "large"}]
<1>7. Here \in Paths /\ g \in STRING
  BY PathsOf DEF Here, CollectTypeInv, CollectTypeOK
<1>8. f \in Entry
  BY <1>4, <1>7 DEF Entry
<1>9. opened' = Append(opened, f) /\ collected' = collected \cup Selecting(g, Here)
  BY DEF Collect
<1>10. f.group = g /\ f.path = Here /\ f.inside = (At(Here) \in {"file", "large"})
       /\ f.size = Size(At(Here))
  OBVIOUS
<1>11. Len(opened) < MaxFiles
  BY DEF Collect
<1> HIDE DEF f
<1> QED
  BY <1>1, <1>3, <1>6, <1>8, <1>9, <1>10, <1>11

\* A group an entry is opened for selects it.
LEMMA SelectingOf ==
    ASSUME NEW path, NEW g \in GroupsOf(path)
    PROVE  Selecting(g, path) # {}
BY DEF GroupsOf, Selecting

\* Append, element by element.
LEMMA AppendFacts ==
    ASSUME NEW R, NEW list \in Seq(R), NEW f \in R
    PROVE  /\ DOMAIN Append(list, f) = DOMAIN list \cup {Len(list) + 1}
           /\ Append(list, f)[Len(list) + 1] = f
           /\ \A n \in DOMAIN list : Append(list, f)[n] = list[n] /\ n # Len(list) + 1
OBVIOUS

\* When a step enters "opening" or stays in it, the entry is one to open.
LEMMA OpeningEntry ==
    ASSUME CollectTypeInv, OpenedInv, WalkStep, walk' = "opening"
    PROVE  ~HasSensitiveSegment(Here') /\ pending' \subseteq GroupsOf(Here')
<1>1. ASSUME Select PROVE ~HasSensitiveSegment(Here) /\ pending' = GroupsOf(Here) /\ place' = place
  BY <1>1 DEF Select, Rejection
<1>2. ASSUME NEW g \in pending, Candidate(g)
      PROVE  /\ ~HasSensitiveSegment(Here) /\ pending' \subseteq GroupsOf(Here)
             /\ place' = place \/ walk' # "opening"
  <2>1. walk = "opening" /\ pending' \subseteq pending
    BY <1>2 DEF Candidate, Walking
  <2>2. place' = place \/ walk' # "opening"
    BY <1>2, ContinueAdvances DEF Candidate, Leave, Advanced
  <2> QED
    BY <2>1, <2>2 DEF OpenedInv
<1>3. walk' # "opening" \/ Select \/ \E g \in pending : Candidate(g)
  BY ContinueAdvances DEF WalkStep, EnterRoot, ScanLimit, Reject, Descend, Leave, ReadDirectory,
     ReadDirectoryFails, WalkCancelled, FileLimit, Refuse, Collect, Advanced
<1>4. place' = place /\ ~HasSensitiveSegment(Here) /\ pending' \subseteq GroupsOf(Here)
  BY <1>1, <1>2, <1>3
<1>5. Here' = Here
  BY <1>4 DEF Here
<1> HIDE DEF HasSensitiveSegment, GroupsOf
<1> QED
  BY <1>4, <1>5

\* At first nothing is opened.
LEMMA OpenedInit == CollectInit => OpenedInv /\ UniqueInv
<1> SUFFICES ASSUME CollectInit PROVE OpenedInv /\ UniqueInv
  OBVIOUS
<1>1. opened = <<>> /\ collected = {} /\ walk = "idle"
  BY DEF CollectInit
<1>2. DOMAIN opened = {}
  BY <1>1
<1>3. TotalSize(opened) \in 0..MaxTotal
  BY <1>1, TotalOfNone, CollectionAssumption
<1> QED
  BY <1>1, <1>2, <1>3 DEF OpenedInv, UniqueInv, Unique

\* The walk opens only what is selected, fits and is inside (openStableFile).
LEMMA OpenedWalk ==
    ASSUME CollectTypeInv, OpenedInv, WalkStep
    PROVE  OpenedInv'
<1> DEFINE Inside(f) == f.inside /\ ~HasSensitiveSegment(f.path) /\ Selecting(f.group, f.path) # {}
           Sel(f) == Selecting(f.group, f.path)
<1>a. opened \in Seq(Entry)
  BY DEF CollectTypeInv
<1>1. walk' = "opening" => ~HasSensitiveSegment(Here') /\ pending' \subseteq GroupsOf(Here')
  BY OpeningEntry
<1>2. /\ TotalSize(opened) \in 0..MaxTotal
      /\ \A n \in DOMAIN opened : Inside(opened[n])
      /\ \A i \in collected : \E n \in DOMAIN opened : i \in Sel(opened[n])
  BY DEF OpenedInv
<1>3. /\ TotalSize(opened') \in 0..MaxTotal
      /\ \A n \in DOMAIN opened' : Inside(opened'[n])
      /\ \A i \in collected' : \E n \in DOMAIN opened' : i \in Sel(opened'[n])
  <2>1. CASE opened' = opened /\ collected' = collected
    <3> HIDE DEF Inside, Sel
    <3> QED
      BY <1>2, <2>1
  <2>2. CASE \E g \in pending : Collect(g)
    <3>1. PICK g \in pending : Collect(g)
      BY <2>2
    <3>2. PICK f \in Entry : /\ opened' = Append(opened, f)
                             /\ f.group = g /\ f.path = Here /\ f.inside
                             /\ TotalSize(opened) + f.size <= MaxTotal
      BY <3>1, CollectAdds
    <3>3. walk = "opening" /\ collected' = collected \cup Selecting(g, Here)
      BY <3>1, CollectAdds
    <3>4. ~HasSensitiveSegment(Here) /\ g \in GroupsOf(Here)
      BY <3>3 DEF OpenedInv
    <3>5. Inside(f) /\ Sel(f) = Selecting(g, Here)
      BY <3>2, <3>4, SelectingOf
    <3>6. /\ DOMAIN opened' = DOMAIN opened \cup {Len(opened) + 1}
          /\ opened'[Len(opened) + 1] = f
          /\ \A n \in DOMAIN opened : opened'[n] = opened[n]
      BY <1>a, <3>2, AppendFacts
    <3>7. TotalSize(opened') = TotalSize(opened) + f.size /\ f.size \in {1, 2} /\ MaxTotal \in Nat
      BY <1>a, <3>2, TotalOfMore, CollectionAssumption DEF Entry
    <3>8. TotalSize(opened') \in 0..MaxTotal
      BY <1>2, <3>2, <3>7
    <3> HIDE DEF Inside, Sel
    <3>9. \A n \in DOMAIN opened' : Inside(opened'[n])
      BY <1>2, <3>5, <3>6
    <3>10. \A i \in collected' : \E n \in DOMAIN opened' : i \in Sel(opened'[n])
      <4> SUFFICES ASSUME NEW i \in collected' PROVE \E n \in DOMAIN opened' : i \in Sel(opened'[n])
        OBVIOUS
      <4>1. CASE i \in collected
        <5>1. PICK n \in DOMAIN opened : i \in Sel(opened[n])
          BY <1>2, <4>1
        <5> QED
          BY <3>6, <5>1
      <4>2. CASE i \in Selecting(g, Here)
        BY <3>5, <3>6, <4>2
      <4> QED
        BY <3>3, <4>1, <4>2
    <3> QED
      BY <3>8, <3>9, <3>10
  <2> QED
    BY <2>1, <2>2, WalkEffect
<1> QED
  BY <1>1, <1>3 DEF OpenedInv, Selecting, HasSensitiveSegment

\* The walk opens an entry once for each group.
LEMMA UniqueWalk ==
    ASSUME CollectTypeInv, OpenedInv, UniqueInv, CallInv, WalkStep
    PROVE  UniqueInv'
<1> DEFINE Served(f, m) == f.path = WalkOrder[m] /\ m <= place
                       /\ (m = place => walk # "visiting" /\ (walk = "opening" => f.group \notin pending))
           After(f, m) == f.path = WalkOrder[m] /\ m <= place'
                       /\ (m = place' => walk' # "visiting" /\ (walk' = "opening" => f.group \notin pending'))
<1>a. opened \in Seq(Entry) /\ place \in DOMAIN WalkOrder /\ DOMAIN WalkOrder \subseteq Nat
  BY PathsOf DEF CollectTypeInv, CollectTypeOK
<1>1. caller' # "start" /\ WalkMoves
  BY CallWalk, WalkEffect
<1>2. \A n \in DOMAIN opened : \E m \in DOMAIN WalkOrder : Served(opened[n], m)
  BY DEF UniqueInv
<1>3. ASSUME NEW f, NEW m \in DOMAIN WalkOrder, Served(f, m) PROVE After(f, m)
  BY <1>a, <1>1, <1>3 DEF WalkMoves
<1>4. CASE opened' = opened
  <2>1. \A n \in DOMAIN opened' : \E m \in DOMAIN WalkOrder : After(opened'[n], m)
    <3> HIDE DEF Served, After
    <3> QED
      BY <1>2, <1>3, <1>4
  <2>2. Unique(opened')
    BY <1>4 DEF UniqueInv
  <2> QED
    BY <1>1, <2>1, <2>2 DEF UniqueInv, Unique
<1>5. CASE \E g \in pending : Collect(g)
  <2>1. PICK g \in pending : Collect(g)
    BY <1>5
  <2>2. PICK f \in Entry : opened' = Append(opened, f) /\ f.group = g /\ f.path = Here
    BY <2>1, CollectAdds
  <2>3. walk = "opening" /\ pending' = pending \ {g}
    BY <2>1, CollectAdds
  <2>4. /\ DOMAIN opened' = DOMAIN opened \cup {Len(opened) + 1}
        /\ opened'[Len(opened) + 1] = f
        /\ \A n \in DOMAIN opened : opened'[n] = opened[n] /\ n # Len(opened) + 1
    BY <1>a, <2>2, AppendFacts
  <2>5. After(f, place)
    BY <1>a, <1>1, <2>2, <2>3 DEF WalkMoves, Here
  <2>6. \A n \in DOMAIN opened' : \E m \in DOMAIN WalkOrder : After(opened'[n], m)
    <3> HIDE DEF Served, After
    <3> QED
      BY <1>a, <1>2, <1>3, <2>4, <2>5
  <2>7. \A n \in DOMAIN opened : ~(opened[n].group = f.group /\ opened[n].path = f.path)
    <3> SUFFICES ASSUME NEW n \in DOMAIN opened, opened[n].group = g, opened[n].path = Here
                 PROVE  FALSE
      BY <2>2
    <3>1. PICK m \in DOMAIN WalkOrder : Served(opened[n], m)
      BY <1>2
    <3>2. m = place
      BY <1>a, <3>1, CollectionAssumption DEF Here
    <3> QED
      BY <2>3, <3>1, <3>2
  <2>8. Unique(opened')
    BY <2>4, <2>7 DEF UniqueInv, Unique
  <2> QED
    BY <1>1, <2>6, <2>8 DEF UniqueInv, Unique
<1> QED
  BY <1>4, <1>5, WalkEffect

\* Outside the walk only Start sets it going.
LEMMA OthersWalk ==
    ASSUME OtherStep
    PROVE  /\ walk' = walk \/ (caller = "start" /\ walk' = "visiting")
           /\ caller' = "start" => caller = "start"
<1> USE DEF walkVars, entryVars, callVars
<1>1. CASE HelperStep \/ HelperFails
  BY <1>1 DEF HelperStep, Send, GiveUp, HelperExits, HelperFails, Helps
<1>2. CASE ReceivePlan \/ ReceiveFile \/ ReceiveEnd \/ ReceiveFails
  BY <1>2 DEF ReceivePlan, ReceiveFile, ReceiveEnd, ReceiveFails, Receives
<1>3. CASE Start
  BY <1>3 DEF Start
<1>4. CASE StartFails \/ DirectoryRefused \/ Reap \/ EndWalk \/ ReleaseFails
  BY <1>4 DEF StartFails, DirectoryRefused, Reap, EndWalk, ReleaseFails, Fallback, Return
<1>5. CASE Environment
  BY <1>5 DEF Environment, Expire, Change, WriteTo, Disturb
<1> QED
  BY <1>1, <1>2, <1>3, <1>4, <1>5 DEF OtherStep, CallerStep, CollectFault, ReceiveMustFail

\* Every step keeps both.
LEMMA OpenedStep ==
    /\ CollectTypeInv /\ OpenedInv /\ UniqueInv /\ CallInv
    /\ [DeliveryNext]_deliveryVars
    => OpenedInv' /\ UniqueInv'
<1> SUFFICES ASSUME CollectTypeInv, OpenedInv, UniqueInv, CallInv, [DeliveryNext]_deliveryVars
             PROVE  OpenedInv' /\ UniqueInv'
  OBVIOUS
<1>1. CASE WalkStep
  BY <1>1, OpenedWalk, UniqueWalk
<1>2. ASSUME UNCHANGED <<place, pending, opened, collected>>,
             walk' = walk \/ (caller = "start" /\ walk' = "visiting"),
             caller' = "start" => caller = "start"
      PROVE  OpenedInv' /\ UniqueInv'
  <2>1. Here' = Here
    BY <1>2 DEF Here
  <2>2. OpenedInv'
    <3>1. walk' = "opening" => ~HasSensitiveSegment(Here') /\ pending' \subseteq GroupsOf(Here')
      <4> HIDE DEF HasSensitiveSegment, GroupsOf
      <4> QED
        BY <1>2, <2>1 DEF OpenedInv
    <3>2. /\ TotalSize(opened') \in 0..MaxTotal
          /\ \A n \in DOMAIN opened' :
                 /\ opened'[n].inside /\ ~HasSensitiveSegment(opened'[n].path)
                 /\ Selecting(opened'[n].group, opened'[n].path) # {}
          /\ \A i \in collected' : \E n \in DOMAIN opened' :
                 i \in Selecting(opened'[n].group, opened'[n].path)
      BY <1>2 DEF OpenedInv
    <3> QED
      BY <3>1, <3>2 DEF OpenedInv, HasSensitiveSegment, Selecting
  <2>3. UniqueInv'
    <3>1. (caller' = "start" => opened' = <<>>) /\ Unique(opened')
      BY <1>2 DEF UniqueInv
    <3>2. CASE walk' = walk
      BY <1>2, <3>1, <3>2 DEF UniqueInv, Unique
    <3>3. CASE caller = "start"
      <4>1. opened' = <<>>
        BY <1>2, <3>3 DEF UniqueInv
      <4>2. DOMAIN opened' = {}
        BY <4>1
      <4> QED
        BY <3>1, <4>2 DEF UniqueInv, Unique
    <3> QED
      BY <1>2, <3>2, <3>3
  <2> QED
    BY <2>2, <2>3
<1>3. CASE OtherStep
  <2>1. UNCHANGED <<place, pending, opened, collected>>
    BY <1>3, OthersKeepWalk DEF patternVars
  <2>2. /\ walk' = walk \/ (caller = "start" /\ walk' = "visiting")
        /\ caller' = "start" => caller = "start"
    BY <1>3, OthersWalk
  <2> QED
    BY <1>2, <2>1, <2>2
<1>4. CASE (Deliver \/ Break \/ Interfere) \/ UNCHANGED deliveryVars
  <2>1. UNCHANGED <<place, pending, opened, collected, walk, caller>>
    BY <1>4, DeliverKeepsCollection
       DEF deliveryVars, collectVars, treeVars, walkVars, entryVars, patternVars, callVars
  <2> QED
    BY <1>2, <2>1
<1> QED
  BY <1>1, <1>3, <1>4 DEF DeliveryNext, CollectStep, OtherStep

-----------------------------------------------------------------------------
(***************************************************************************)
(* The answer.                                                             *)
(***************************************************************************)
\* collectArtifacts returns what the walk has found, or the failed manifest.
AnswerInv ==
    /\ caller # "returned" => artifacts = FailedManifest
    /\ caller = "returned" =>
           \/ artifacts = FailedManifest
           \/ artifacts = Manifest /\ walk = "walked"

\* The manifest is made of the patterns' state and the opened files.
LEMMA ManifestKept ==
    ASSUME UNCHANGED patternVars PROVE Manifest' = Manifest
BY DEF patternVars, Manifest, Status, Omissions

\* Every step keeps the answer.
LEMMA AnswerStep ==
    CollectTypeInv /\ CallInv /\ AnswerInv /\ [DeliveryNext]_deliveryVars => AnswerInv'
<1> SUFFICES ASSUME CollectTypeInv, CallInv, AnswerInv, [DeliveryNext]_deliveryVars
             PROVE  AnswerInv'
  OBVIOUS
<1>a. FailedManifest' = FailedManifest
  BY DEF FailedManifest
<1>1. CASE WalkStep
  <2>1. caller' # "returned" /\ artifacts' = artifacts /\ caller' = caller
    BY <1>1, WalkEffect, CallWalk
  <2> QED
    BY <1>a, <2>1 DEF AnswerInv
<1>b. ASSUME UNCHANGED <<walk, caller, artifacts, patternVars>> PROVE AnswerInv'
  <2>1. Manifest' = Manifest
    BY <1>b, ManifestKept
  <2> HIDE DEF Manifest, FailedManifest
  <2> QED
    BY <1>a, <1>b, <2>1 DEF AnswerInv
<1>2. CASE OtherStep
  <2>1. UNCHANGED patternVars
    BY <1>2, OthersKeepWalk
  <2>2. Manifest' = Manifest
    BY <2>1, ManifestKept
  <2> HIDE DEF Manifest, FailedManifest
  <2>3. \/ UNCHANGED artifacts /\ (caller' = caller \/ (caller # "returned" /\ caller' # "returned"))
        \/ caller' = "returned" /\ artifacts' = FailedManifest
        \/ caller' = "returned" /\ artifacts' = Manifest /\ walk' = "walked"
    <3>1. CASE HelperStep \/ HelperFails \/ Environment
      BY <3>1 DEF HelperStep, Send, GiveUp, HelperExits, HelperFails, Helps, callVars,
                  Environment, Expire, Change, WriteTo, Disturb
    <3>2. CASE ReceivePlan \/ ReceiveFile \/ ReceiveEnd \/ ReceiveFails \/ Start
      BY <3>2 DEF ReceivePlan, ReceiveFile, ReceiveEnd, ReceiveFails, Receives, Start
    <3>3. CASE StartFails \/ DirectoryRefused \/ ReleaseFails
      BY <3>3 DEF StartFails, DirectoryRefused, ReleaseFails, Fallback
    <3>4. CASE Reap
      BY <3>4 DEF Reap, Return, Fallback, CallInv
    <3>5. CASE EndWalk
      BY <3>5 DEF EndWalk, Return, Fallback
    <3> QED
      BY <1>2, <3>1, <3>2, <3>3, <3>4, <3>5 DEF OtherStep, CallerStep, CollectFault, ReceiveMustFail
  <2>4. walk' = walk \/ caller = "start"
    BY <1>2, OthersWalk
  <2>5. caller = "returned" => caller # "start"
    OBVIOUS
  <2> QED
    BY <1>a, <2>2, <2>3, <2>4, <2>5 DEF AnswerInv
<1>3. CASE (Deliver \/ Break \/ Interfere) \/ UNCHANGED deliveryVars
  <2>1. UNCHANGED <<walk, caller, artifacts, patternVars>>
    BY <1>3, DeliverKeepsCollection DEF deliveryVars, collectVars, walkVars, entryVars, callVars
  <2> QED
    BY <1>b, <2>1
<1> QED
  BY <1>1, <1>2, <1>3 DEF DeliveryNext, CollectStep, OtherStep

\* What the broker's checks look at was seen to by the walk.
LEMMA WalkedIsValid ==
    ASSUME CollectTypeInv, OpenedInv, UniqueInv
    PROVE  ValidManifest(Manifest) /\ Allowed(Manifest) /\ PlanAccepted
<1>a. opened \in Seq(Entry) /\ ToSet(opened) = {opened[n] : n \in DOMAIN opened}
  BY DEF CollectTypeInv, ToSet
<1>1. Manifest.files = opened /\ Manifest.omissions = Omissions
      /\ Manifest.status = Status(opened, Omissions)
  BY DEF Manifest
<1>2. Len(opened) <= MaxFiles
  BY DEF CollectTypeInv, CollectTypeOK
<1>3. Unique(opened)
  BY DEF UniqueInv
<1>4. TotalSize(opened) <= MaxTotal
  BY CollectionAssumption DEF OpenedInv
<1>5. Selected(opened) /\ \A f \in ToSet(opened) : ~HasSensitiveSegment(f.path)
  BY <1>a DEF Selected, OpenedInv
<1>6. \A o \in Omissions : o.pattern \in Selections
  <2> SUFFICES ASSUME NEW o \in Omissions PROVE o.pattern \in Selections
    OBVIOUS
  <2>1. PICK i \in Selections :
            o = [pattern |-> i, reason |-> IF reason[i] = "" THEN "no_match" ELSE reason[i]]
    BY DEF Omissions
  <2> QED
    BY <2>1
<1>7. opened = <<>> => Omissions # {}
  <2> SUFFICES ASSUME opened = <<>> PROVE Omissions # {}
    OBVIOUS
  <2>1. DOMAIN opened = {}
    OBVIOUS
  <2>2. collected = {}
    BY <2>1 DEF OpenedInv
  <2>3. PICK i : i \in Selections
    <3>1. Patterns \in Seq([group : STRING, pattern : Seq(STRING)]) /\ Patterns # <<>>
      BY CollectionAssumption
    <3>2. \A R : Patterns \in Seq(R) => 1 \in DOMAIN Patterns
      BY <3>1
    <3>3. 1 \in DOMAIN Patterns
      BY <3>1, <3>2
    <3> QED
      BY <3>3 DEF Selections
  <2> QED
    BY <2>2, <2>3 DEF Omissions
<1>8. StatusShape(Manifest)
  <2>1. CASE opened = <<>>
    BY <1>1, <1>7, <2>1 DEF StatusShape, Status
  <2>2. CASE opened # <<>> /\ Omissions = {}
    BY <1>1, <2>2 DEF StatusShape, Status
  <2>3. CASE opened # <<>> /\ Omissions # {}
    BY <1>1, <2>3 DEF StatusShape, Status
  <2> QED
    BY <2>1, <2>2, <2>3
<1> HIDE DEF Manifest, Omissions, HasSensitiveSegment, StatusShape
<1>9. ValidManifest(Manifest)
  BY <1>1, <1>2, <1>3, <1>4, <1>5, <1>8 DEF ValidManifest
<1>10. Allowed(Manifest) /\ PlanAccepted
  BY <1>1, <1>2, <1>3, <1>4, <1>5, <1>6 DEF Allowed, PlanAccepted
<1> QED
  BY <1>9, <1>10

-----------------------------------------------------------------------------
(***************************************************************************)
(* No file is missed: while one that a pattern selects is neither opened   *)
(* nor told of, the walk has an entry on the way to it before it.          *)
(***************************************************************************)
Way(p, k) == SubSeq(p, 1, k)

Due(m, k, i, p) ==
    \/ m > place /\ walk # "walked" /\ listed[Way(p, k)] # "absent"
    \/ m = place /\ walk \in {"idle", "visiting"}
    \/ m = place /\ walk = "reading" /\ k < Len(p)
    \/ m = place /\ walk = "opening" /\ k = Len(p) /\ Patterns[i].group \in pending

Ahead(i, p) ==
    \/ walk = "failed"
    \/ \E m \in DOMAIN WalkOrder, k \in 0..Len(p) : WalkOrder[m] = Way(p, k) /\ Due(m, k, i, p)

Found(i, p) == \E n \in DOMAIN opened : opened[n].path = p /\ opened[n].group = Patterns[i].group

FoundInv ==
    changes = 0 /\ Copes =>
        \A i \in Selections : \A p \in Deliverable(i) :
            reason[i] # "" \/ Found(i, p) \/ Ahead(i, p)

\* The enumerations say what is there of the entries on the way to a file.
ListedInv ==
    /\ tree[<<>>] \in {"absent", "dir", "closed", "symlink"}
    /\ listed[<<>>] = "dir"
    /\ walk = "visiting" => listed[Here] # "absent"
    /\ caller = "start" => place = 1
    /\ changes = 0 =>
           \A p \in Paths : At(p) = "file" =>
               \A k \in 1..Len(p) : listed[Way(p, k)] \in {"absent", tree[Way(p, k)]}

\* A path has its parents among the paths.
LEMMA WayOf ==
    ASSUME NEW p \in Paths, NEW k \in 0..Len(p)
    PROVE  /\ Way(p, k) \in Paths /\ Len(Way(p, k)) = k /\ Way(p, Len(p)) = p
           /\ (k = 0 <=> Way(p, k) = <<>>)
           /\ k # 0 => Parent(Way(p, k)) = Way(p, k - 1)
           /\ \A j \in 0..k : Way(Way(p, k), j) = Way(p, j)
<1>1. p \in Name /\ Len(p) \in Nat /\ k \in Nat
  BY PathsOf DEF Name
<1>2. ASSUME NEW j \in 0..Len(p)
      PROVE  /\ Way(p, j) \in Name /\ Len(Way(p, j)) = j /\ Way(p, Len(p)) = p
             /\ (j = 0 <=> Way(p, j) = <<>>)
             /\ \A n \in 0..j : Way(Way(p, j), n) = Way(p, n)
  BY <1>1, PrefixFacts DEF Way
<1>3. ASSUME NEW j \in 0..Len(p), j # 0 PROVE Parent(Way(p, j)) = Way(p, j - 1)
  <2>1. Len(Way(p, j)) = j /\ j - 1 \in 0..j
    BY <1>1, <1>2, <1>3
  <2>2. Way(Way(p, j), j - 1) = Way(p, j - 1)
    BY <1>2, <2>1
  <2> QED
    BY <2>1, <2>2 DEF Parent, Way
<1>4. Way(p, k) \in Paths
  <2> DEFINE T == {j \in 0..Len(p) : Way(p, Len(p) - j) \notin Paths}
  <2>1. SUFFICES ASSUME T # {} PROVE FALSE
    <3>1. Len(p) - k \in 0..Len(p) /\ Len(p) - (Len(p) - k) = k
      BY <1>1
    <3>2. Len(p) - k \notin T
      BY <2>1
    <3> QED
      BY <3>1, <3>2
  <2>2. T \in SUBSET Nat
    BY <1>1
  <2>3. PICK j \in T : \A n \in T : j <= n
    <3> HIDE DEF T
    <3> QED
      BY <2>1, <2>2, Least
  <2>4. j # 0
    <3>1. Len(p) - 0 = Len(p) /\ Way(p, Len(p)) = p
      BY <1>1, <1>2
    <3> QED
      BY <2>3, <3>1
  <2>5. j - 1 \in 0..Len(p) /\ j - 1 \notin T /\ Len(p) - (j - 1) = Len(p) - j + 1
    BY <1>1, <2>3, <2>4
  <2>6. Way(p, Len(p) - j + 1) \in Paths
    BY <2>5
  <2>7. /\ Len(p) - j + 1 \in 0..Len(p) /\ Len(p) - j + 1 # 0
        /\ Len(p) - j + 1 - 1 = Len(p) - j
    BY <1>1, <2>3, <2>4
  <2>8. Parent(Way(p, Len(p) - j + 1)) = Way(p, Len(p) - j) /\ Way(p, Len(p) - j + 1) # <<>>
    BY <1>2, <1>3, <2>7
  <2>9. Way(p, Len(p) - j) \in Paths
    BY <2>6, <2>8, CollectionAssumption
  <2> QED
    BY <2>3, <2>9
<1> QED
  BY <1>2, <1>3, <1>4

\* A strict prefix of a path is a way to it.
LEMMA StrictPrefixOf ==
    ASSUME NEW q \in Paths, NEW p \in Paths
    PROVE  IsStrictPrefix(q, p) <=> \E k \in 0..(Len(p) - 1) : q = Way(p, k)
<1>1. q \in Name /\ p \in Name /\ Len(q) \in Nat /\ Len(p) \in Nat
  BY PathsOf DEF Name
<1>2. SubSeq(q, 1, Len(q)) = q /\ SubSeq(p, 1, Len(p)) = p
  BY <1>1, PrefixFacts
<1>3. ASSUME IsStrictPrefix(q, p) PROVE \E k \in 0..(Len(p) - 1) : q = Way(p, k)
  <2>1. Len(q) <= Len(p) /\ SubSeq(q, 1, Len(q)) = SubSeq(p, 1, Len(q)) /\ q # p
    BY <1>3 DEF IsStrictPrefix, IsPrefix
  <2>2. Len(q) # Len(p)
    BY <1>2, <2>1
  <2>3. Len(q) \in 0..(Len(p) - 1)
    BY <1>1, <2>1, <2>2
  <2>4. q = Way(p, Len(q))
    BY <1>2, <2>1 DEF Way
  <2> QED
    BY <2>3, <2>4
<1>4. ASSUME NEW k \in 0..(Len(p) - 1), q = Way(p, k) PROVE IsStrictPrefix(q, p)
  <2>1. k \in 0..Len(p) /\ k < Len(p)
    BY <1>1
  <2>2. Len(q) = k
    BY <1>4, <2>1, WayOf
  <2>3. q # p /\ Len(q) <= Len(p)
    BY <1>1, <2>1, <2>2
  <2>4. SubSeq(q, 1, Len(q)) = SubSeq(p, 1, Len(q))
    BY <1>2, <1>4, <2>2 DEF Way
  <2> QED
    BY <2>3, <2>4 DEF IsStrictPrefix, IsPrefix
<1> QED
  BY <1>3, <1>4

\* Above a file that can be reached there are directories.
LEMMA OnTheWay ==
    ASSUME NEW p \in Paths, At(p) = "file", NEW k \in 0..Len(p)
    PROVE  IF k = Len(p) THEN tree[Way(p, k)] = "file" /\ Way(p, k) = p
           ELSE tree[Way(p, k)] = "dir" /\ At(Way(p, k)) = "dir"
<1>1. p \in Name /\ Len(p) \in Nat
  BY PathsOf DEF Name
<1>2. /\ \A q \in Paths : IsStrictPrefix(q, p) => tree[q] = "dir"
      /\ tree[p] = "file"
  BY DEF At
<1>3. \A j \in 0..(Len(p) - 1) : tree[Way(p, j)] = "dir"
  <2> SUFFICES ASSUME NEW j \in 0..(Len(p) - 1) PROVE tree[Way(p, j)] = "dir"
    OBVIOUS
  <2>1. j \in 0..Len(p)
    BY <1>1
  <2>2. Way(p, j) \in Paths
    BY <2>1, WayOf
  <2> QED
    BY <1>2, <2>2, StrictPrefixOf
<1>4. CASE k = Len(p)
  BY <1>2, <1>4, WayOf
<1>5. CASE k # Len(p)
  <2>1. k \in 0..(Len(p) - 1) /\ k \in Nat
    BY <1>1, <1>5
  <2>2. Way(p, k) \in Paths /\ Len(Way(p, k)) = k /\ \A j \in 0..k : Way(Way(p, k), j) = Way(p, j)
    BY WayOf
  <2>3. \A q \in Paths : IsStrictPrefix(q, Way(p, k)) => tree[q] = "dir"
    <3> SUFFICES ASSUME NEW q \in Paths, IsStrictPrefix(q, Way(p, k)) PROVE tree[q] = "dir"
      OBVIOUS
    <3>1. PICK j \in 0..(k - 1) : q = Way(Way(p, k), j)
      BY <2>2, StrictPrefixOf
    <3>2. j \in 0..(Len(p) - 1) /\ j \in 0..k
      BY <1>1, <2>1, <3>1
    <3> QED
      BY <1>3, <2>2, <3>1, <3>2
  <2>4. At(Way(p, k)) = tree[Way(p, k)]
    BY <2>3 DEF At
  <2> QED
    BY <1>3, <1>5, <2>1, <2>4
<1> QED
  BY <1>4, <1>5

\* What an enumeration makes of the list.
SeenNow(seen) ==
    \/ seen = listed
    \/ walk = "visiting" /\ seen = AfterRejection(Here)
    \/ /\ walk = "reading" /\ tree[Here] = "dir" /\ At(Here) # "outside"
       /\ seen = [p \in Paths |-> IF p # <<>> /\ Parent(p) = Here THEN tree[p] ELSE listed[p]]
    \/ /\ walk = "reading" /\ (tree[Here] = "symlink" \/ At(Here) = "outside")
       /\ \E k \in {"absent", "file"} :
             seen = [p \in Paths |-> IF p # <<>> /\ Parent(p) = Here THEN k ELSE listed[p]]

\* Each step of the walk leaves the list alone or goes on with what it has seen.
LEMMA WalkSees ==
    ASSUME WalkStep
    PROVE  \/ listed' = listed /\ place' = place /\ walk' # "visiting"
           \/ \E seen : SeenNow(seen) /\ Advanced(seen)
<1> USE DEF SeenNow
<1>a. \A seen : Continue(seen) => Advanced(seen)
  BY ContinueAdvances
<1> HIDE DEF SeenNow
<1>b. SeenNow(listed)
  BY DEF SeenNow
<1>1. CASE EnterRoot \/ ScanLimit \/ Select \/ WalkCancelled
  BY <1>1 DEF EnterRoot, ScanLimit, Select, WalkCancelled
<1>2. CASE Reject
  <2>1. walk = "visiting" /\ Continue(AfterRejection(Here))
    BY <1>2 DEF Reject, Visit, Callback, Walking
  <2>2. SeenNow(AfterRejection(Here))
    BY <2>1 DEF SeenNow
  <2> QED
    BY <1>a, <2>1, <2>2
<1>c. ASSUME Leave PROVE \/ listed' = listed /\ place' = place /\ walk' # "visiting"
                        \/ Continue(listed)
  BY <1>c DEF Leave
<1>3. CASE Descend
  BY <1>3, <1>a, <1>b, <1>c DEF Descend
<1>4. CASE ReadDirectory
  <2>1. walk = "reading"
    BY <1>4 DEF ReadDirectory, Walking
  <2>2. \E seen : SeenNow(seen) /\ Continue(seen)
    BY <1>4, <2>1 DEF ReadDirectory, SeenNow
  <2> QED
    BY <1>a, <2>2
<1>5. CASE ReadDirectoryFails
  <2>1. \/ Continue(listed)
        \/ listed' = listed /\ place' = place /\ walk' # "visiting"
    BY <1>5 DEF ReadDirectoryFails
  <2> QED
    BY <1>a, <1>b, <2>1
<1>6. ASSUME NEW g \in pending, FileLimit(g) \/ Refuse(g) \/ Collect(g)
      PROVE  \/ listed' = listed /\ place' = place /\ walk' # "visiting"
             \/ Continue(listed)
  <2>1. Candidate(g)
    BY <1>6 DEF FileLimit, Refuse, Collect
  <2> QED
    BY <1>c, <2>1 DEF Candidate, Walking
<1> QED
  BY <1>1, <1>2, <1>3, <1>4, <1>5, <1>6, <1>a, <1>b DEF WalkStep

\* The walk lists what is there.
LEMMA ListedWalk ==
    ASSUME CollectTypeInv, CallInv, ListedInv, WalkStep
    PROVE  ListedInv'
<1>1. /\ UNCHANGED <<platform, tree, changes, caller>> /\ caller # "start"
  BY WalkEffect, CallWalk
<1>2. \A p : At(p)' = At(p)
  BY <1>1 DEF At
<1>3. CASE listed' = listed /\ place' = place /\ walk' # "visiting"
  <2> HIDE DEF At
  <2> QED
    BY <1>1, <1>2, <1>3 DEF ListedInv, Way
<1>4. ASSUME NEW seen, SeenNow(seen), Advanced(seen) PROVE ListedInv'
  <2>1. seen[<<>>] = "dir" /\ <<>> \in Paths
    BY <1>4, PathsOf DEF SeenNow, AfterRejection, ListedInv
  <2>2. listed' = seen /\ (walk' = "visiting" => seen[WalkOrder[place']] # "absent")
    BY <1>4 DEF Advanced
  <2>3. ASSUME changes = 0, NEW p \in Paths, At(p) = "file", NEW k \in 1..Len(p)
        PROVE  seen[Way(p, k)] \in {"absent", tree[Way(p, k)]}
    <3>0. Len(p) \in Nat
      BY PathsOf DEF Name
    <3>1. k \in 0..Len(p) /\ k # 0 /\ k - 1 \in 0..Len(p) /\ k - 1 # Len(p)
      BY <3>0
    <3>2. Way(p, k) \in Paths /\ Parent(Way(p, k)) = Way(p, k - 1)
      BY <3>1, WayOf
    <3>3. listed[Way(p, k)] \in {"absent", tree[Way(p, k)]}
      BY <2>3 DEF ListedInv
    <3>4. tree[Way(p, k - 1)] = "dir" /\ At(Way(p, k - 1)) = "dir"
      BY <2>3, <3>1, OnTheWay
    <3>5. CASE seen = listed
      BY <3>3, <3>5
    <3>6. CASE seen = AfterRejection(Here)
      <4>1. seen[Way(p, k)] \in {"absent", listed[Way(p, k)]}
        BY <3>2, <3>6 DEF AfterRejection
      <4> QED
        BY <3>3, <4>1
    <3>7. CASE seen = [q \in Paths |-> IF q # <<>> /\ Parent(q) = Here THEN tree[q] ELSE listed[q]]
      BY <3>2, <3>3, <3>7
    <3>8. CASE /\ tree[Here] = "symlink" \/ At(Here) = "outside"
               /\ \E c \in {"absent", "file"} :
                     seen = [q \in Paths |-> IF q # <<>> /\ Parent(q) = Here THEN c ELSE listed[q]]
      <4>1. Here # Way(p, k - 1)
        BY <3>4, <3>8
      <4>2. seen[Way(p, k)] = listed[Way(p, k)]
        BY <3>2, <3>8, <4>1
      <4> QED
        BY <3>3, <4>2
    <3> QED
      BY <1>4, <3>5, <3>6, <3>7, <3>8 DEF SeenNow
  <2>4. listed'[Here'] = seen[WalkOrder[place']]
    BY <2>2 DEF Here
  <2> HIDE DEF At
  <2>5. changes' = 0 =>
           \A p \in Paths : At(p)' = "file" =>
               \A k \in 1..Len(p) : listed'[Way(p, k)] \in {"absent", tree'[Way(p, k)]}
    BY <1>1, <1>2, <2>2, <2>3
  <2>6. /\ tree'[<<>>] \in {"absent", "dir", "closed", "symlink"} /\ listed'[<<>>] = "dir"
        /\ walk' = "visiting" => listed'[Here'] # "absent"
    BY <1>1, <2>1, <2>2, <2>4 DEF ListedInv
  <2> QED
    BY <1>1, <2>5, <2>6 DEF ListedInv, Way
<1> QED
  BY <1>3, <1>4, WalkSees

\* Only the environment changes the tree, and it counts its changes.
LEMMA OthersTree ==
    ASSUME CollectTypeInv, ListedInv, OtherStep
    PROVE  /\ tree'[<<>>] \in {"absent", "dir", "closed", "symlink"}
           /\ changes' = 0 => changes = 0 /\ tree' = tree
<1> USE DEF treeVars
<1>a. changes \in Nat /\ tree \in [Paths -> Kinds] /\ platform \in {"linux", "windows"}
  BY CollectionAssumption DEF CollectTypeInv, CollectTypeOK
<1>1. CASE HelperStep \/ HelperFails \/ Expire
  <2>1. UNCHANGED treeVars
    BY <1>1 DEF HelperStep, Send, GiveUp, HelperExits, HelperFails, Helps, Expire
  <2> QED
    BY <2>1 DEF ListedInv
<1>2. CASE ReceivePlan \/ ReceiveFile \/ ReceiveEnd \/ ReceiveFails
  <2>1. UNCHANGED treeVars
    BY <1>2 DEF ReceivePlan, ReceiveFile, ReceiveEnd, ReceiveFails, Receives
  <2> QED
    BY <2>1 DEF ListedInv
<1>3. CASE Start \/ StartFails \/ DirectoryRefused \/ Reap \/ EndWalk \/ ReleaseFails
  <2>1. UNCHANGED treeVars
    BY <1>3 DEF Start, StartFails, DirectoryRefused, Reap, EndWalk, ReleaseFails, Fallback, Return,
                Calls
  <2> QED
    BY <2>1 DEF ListedInv
<1>4. CASE \E p \in Paths : Change(p)
  <2>1. PICK p \in Paths : Change(p)
    BY <1>4
  <2>2. changes' # 0
    BY <1>a, <2>1 DEF Change, Disturb
  <2>3. PICK t \in Trees(platform) : tree' = [tree EXCEPT ![p] = t[p]]
    BY <2>1 DEF Change
  <2>4. t[<<>>] \in {"absent", "dir", "closed", "symlink"}
    BY <1>a, CollectionAssumption DEF Trees
  <2>5. tree'[<<>>] = IF p = <<>> THEN t[<<>>] ELSE tree[<<>>]
    BY <1>a, <2>3, PathsOf
  <2> QED
    BY <2>2, <2>4, <2>5 DEF ListedInv
<1>5. CASE \E i \in DOMAIN opened : WriteTo(i)
  <2>1. tree' = tree /\ changes' # 0
    BY <1>a, <1>5 DEF WriteTo, Disturb
  <2> QED
    BY <2>1 DEF ListedInv
<1> QED
  BY <1>1, <1>2, <1>3, <1>4, <1>5
     DEF OtherStep, CallerStep, CollectFault, ReceiveMustFail, Environment

\* Every step keeps the list.
LEMMA ListedStep ==
    CollectTypeInv /\ CallInv /\ ListedInv /\ [DeliveryNext]_deliveryVars => ListedInv'
<1> SUFFICES ASSUME CollectTypeInv, CallInv, ListedInv, [DeliveryNext]_deliveryVars
             PROVE  ListedInv'
  OBVIOUS
<1>1. CASE WalkStep
  BY <1>1, ListedWalk
<1>2. ASSUME UNCHANGED <<place, listed>>,
             tree'[<<>>] \in {"absent", "dir", "closed", "symlink"},
             changes' = 0 => changes = 0 /\ tree' = tree,
             walk' = walk \/ (caller = "start" /\ walk' = "visiting"),
             caller' = "start" => caller = "start"
      PROVE  ListedInv'
  <2>1. ASSUME changes' = 0, NEW p \in Paths, At(p)' = "file", NEW k \in 1..Len(p)
        PROVE  listed'[Way(p, k)] \in {"absent", tree'[Way(p, k)]}
    <3>1. tree' = tree /\ changes = 0
      BY <1>2, <2>1
    <3>2. At(p) = "file"
      BY <2>1, <3>1 DEF At
    <3> HIDE DEF At
    <3> QED
      BY <1>2, <3>1, <3>2 DEF ListedInv
  <2>2. Here' = Here
    BY <1>2 DEF Here
  <2>3. caller = "start" => Here = <<>>
    BY PathsOf DEF ListedInv, Here
  <2>4. /\ tree'[<<>>] \in {"absent", "dir", "closed", "symlink"} /\ listed'[<<>>] = "dir"
        /\ walk' = "visiting" => listed'[Here'] # "absent"
        /\ caller' = "start" => place' = 1
    BY <1>2, <2>2, <2>3 DEF ListedInv
  <2> HIDE DEF At
  <2> QED
    BY <2>1, <2>4 DEF ListedInv, Way
<1>3. CASE OtherStep
  <2>1. UNCHANGED <<place, listed>>
    BY <1>3, OthersKeepWalk
  <2>2. /\ walk' = walk \/ (caller = "start" /\ walk' = "visiting")
        /\ caller' = "start" => caller = "start"
    BY <1>3, OthersWalk
  <2>3. /\ tree'[<<>>] \in {"absent", "dir", "closed", "symlink"}
        /\ changes' = 0 => changes = 0 /\ tree' = tree
    BY <1>3, OthersTree
  <2> QED
    BY <1>2, <2>1, <2>2, <2>3
<1>4. CASE (Deliver \/ Break \/ Interfere) \/ UNCHANGED deliveryVars
  <2>1. UNCHANGED <<tree, changes, place, listed, walk, caller>>
    BY <1>4, DeliverKeepsCollection
       DEF deliveryVars, collectVars, treeVars, walkVars, entryVars, callVars
  <2>2. tree'[<<>>] \in {"absent", "dir", "closed", "symlink"}
    BY <2>1 DEF ListedInv
  <2> QED
    BY <1>2, <2>1, <2>2
<1> QED
  BY <1>1, <1>3, <1>4 DEF DeliveryNext, CollectStep, OtherStep

\* At first the working directory is listed, and nothing else.
LEMMA ListedInit == CollectInit => ListedInv
<1> SUFFICES ASSUME CollectInit PROVE ListedInv
  OBVIOUS
<1>1. tree \in Trees(platform) /\ platform \in {"linux", "windows"}
  BY DEF CollectInit
<1>2. tree[<<>>] \in {"absent", "dir", "closed", "symlink"}
  BY <1>1, CollectionAssumption DEF Trees
<1>3. listed = [Nowhere EXCEPT ![<<>>] = "dir"] /\ walk = "idle" /\ place = 1
  BY DEF CollectInit
<1>4. listed[<<>>] = "dir" /\ \A p \in Paths \ {<<>>} : listed[p] = "absent"
  BY <1>3, PathsOf DEF Nowhere
<1>5. \A p \in Paths : \A k \in 1..Len(p) : listed[Way(p, k)] = "absent"
  <2> SUFFICES ASSUME NEW p \in Paths, NEW k \in 1..Len(p) PROVE listed[Way(p, k)] = "absent"
    OBVIOUS
  <2>1. k \in 0..Len(p) /\ k # 0
    BY PathsOf DEF Name
  <2>2. Way(p, k) \in Paths \ {<<>>}
    BY <2>1, WayOf
  <2> QED
    BY <1>4, <2>2
<1> HIDE DEF At
<1> QED
  BY <1>2, <1>3, <1>4, <1>5 DEF ListedInv

\* An entry that was listed further on is still to come when the walk goes on.
LEMMA DueLater ==
    ASSUME CollectTypeInv, NEW seen, Continue(seen), NEW i, NEW p,
           NEW m \in DOMAIN WalkOrder, NEW k \in 0..Len(p), WalkOrder[m] = Way(p, k),
           m > place, seen[Way(p, k)] # "absent"
    PROVE  Due(m, k, i, p)'
<1>1. Advanced(seen)
  BY ContinueAdvances
<1>2. m \in Nat /\ place \in Nat /\ DOMAIN WalkOrder \subseteq Nat
  BY PathsOf DEF CollectTypeInv, CollectTypeOK
<1>3. /\ listed' = seen /\ walk' = "visiting" /\ place' \in DOMAIN WalkOrder
      /\ place' <= m
  BY <1>1 DEF Advanced
<1>4. place' = m \/ m > place'
  BY <1>2, <1>3
<1> QED
  BY <1>3, <1>4 DEF Due, Way

\* An entry that is due stays due, or the file it leads to is accounted for, with every
\* step of the walk.
LEMMA DueStays ==
    ASSUME CollectTypeInv, ListedInv, WalkStep, changes = 0, Copes,
           NEW i \in Selections, NEW p \in Deliverable(i),
           NEW m \in DOMAIN WalkOrder, NEW k \in 0..Len(p), WalkOrder[m] = Way(p, k),
           Due(m, k, i, p)
    PROVE  reason'[i] # "" \/ Found(i, p)' \/ Ahead(i, p)'
<1> DEFINE q == Way(p, k)
           Goal == reason'[i] # "" \/ Found(i, p)' \/ Ahead(i, p)'
<1> SUFFICES Goal
  OBVIOUS
<1>a. /\ p \in Paths /\ At(p) = "file" /\ ~HasSensitiveSegment(p)
      /\ Match(Patterns[i].pattern, p)
  BY DEF Deliverable
<1>b. p \in Name /\ Len(p) \in Nat /\ k \in Nat /\ k <= Len(p) /\ m \in Nat /\ place \in Nat
      /\ DOMAIN WalkOrder \subseteq Nat /\ place \in DOMAIN WalkOrder
  BY <1>a, PathsOf DEF CollectTypeInv, CollectTypeOK, Name
<1>c. /\ q \in Paths /\ Len(q) = k /\ (k = 0 <=> q = <<>>) /\ (k = Len(p) => q = p)
      /\ tree[q] = IF k = Len(p) THEN "file" ELSE "dir"
      /\ At(q) = IF k = Len(p) THEN "file" ELSE "dir"
      /\ Len(p) # 0
  <2>1. q \in Paths /\ Len(q) = k /\ (k = 0 <=> q = <<>>) /\ (k = Len(p) => q = p)
    BY <1>a, WayOf
  <2>2. tree[q] = (IF k = Len(p) THEN "file" ELSE "dir") /\ At(q) = (IF k = Len(p) THEN "file" ELSE "dir")
    BY <1>a, <2>1, OnTheWay
  <2>3. Len(p) # 0
    <3>1. Len(p) \in 0..Len(p) /\ Way(p, Len(p)) = p
      BY <1>a, <1>b, WayOf
    <3>2. tree[p] = "file"
      BY <1>a, <3>1, OnTheWay
    <3>3. Len(p) = 0 => p = <<>>
      BY <1>a, <1>b, <3>1, WayOf
    <3> QED
      BY <3>2, <3>3 DEF ListedInv
  <2> QED
    BY <2>1, <2>2, <2>3
<1>d. listed[q] \in IF k = 0 THEN {"dir"} ELSE {"absent", tree[q]}
  BY <1>a, <1>b, <1>c DEF ListedInv
<1>e. ASSUME NEW n \in DOMAIN WalkOrder, NEW j \in 0..Len(p), WalkOrder[n] = Way(p, j),
             Due(n, j, i, p)'
      PROVE  Goal
  <2>1. Ahead(i, p)'
    BY <1>e DEF Ahead, Way
  <2> QED
    BY <2>1
<1> HIDE DEF Goal
<1>f. Due(m, k, i, p)' => Goal
  BY <1>e
<1>g. ASSUME NEW seen, Continue(seen), m > place, seen[q] # "absent" PROVE Goal
  <2>1. Due(m, k, i, p)'
    BY <1>g, DueLater
  <2> QED
    BY <1>f, <2>1
<1>h. m > place => listed[q] # "absent"
  BY <1>b DEF Due
<1>i. m # place => m > place
  BY <1>b DEF Due
<1>j. m = place => Here = q
  BY DEF Here
<1>k. Goal <=> reason'[i] # "" \/ Found(i, p)' \/ Ahead(i, p)'
  BY DEF Goal
<1>l. ASSUME place' = place, walk' \in {"reading", "opening", "visiting"}, listed' = listed, m > place
      PROVE  Goal
  <2>1. Due(m, k, i, p)'
    BY <1>h, <1>l DEF Due, Way
  <2> QED
    BY <1>f, <2>1
<1>m. ASSUME walk = "visiting", m = place
      PROVE  Rejection(Here) = "" /\ listed[q] = tree[q]
  <2>1. listed[q] # "absent"
    BY <1>j, <1>m DEF ListedInv
  <2>2. k # 0 => listed[q] = tree[q]
    BY <1>d, <2>1
  <2>3. k = 0 => listed[q] = tree[q]
    BY <1>b, <1>c, <1>d
  <2>4. ~HasSensitiveSegment(q)
    <3>1. \A n \in DOMAIN q : n \in DOMAIN p /\ q[n] = p[n]
      <4>1. DOMAIN p = 1..Len(p) /\ q = SubSeq(p, 1, k)
        BY <1>b DEF Name, Way
      <4>2. DOMAIN q = 1..k /\ \A n \in 1..k : q[n] = p[n]
        BY <1>b, <4>1 DEF Name
      <4> QED
        BY <1>b, <4>1, <4>2
    <3> QED
      BY <1>a, <3>1 DEF HasSensitiveSegment
  <2>5. listed[q] # "symlink" /\ At(q) \notin {"absent", "symlink"}
    BY <1>c, <2>2, <2>3
  <2> QED
    BY <1>j, <1>m, <2>2, <2>3, <2>4, <2>5 DEF Rejection
<1>1. CASE EnterRoot
  <2>1. /\ walk = "visiting" /\ walk' = "reading" /\ place' = place /\ listed' = listed
        /\ Here = <<>>
    BY <1>1 DEF EnterRoot, Callback, Walking
  <2>2. m = place => Due(m, k, i, p)'
    BY <1>b, <1>c, <1>j, <2>1 DEF Due
  <2> QED
    BY <1>f, <1>i, <1>l, <2>1, <2>2
<1>2. CASE ScanLimit
  <2>1. reason'[i] # ""
    BY <1>2 DEF ScanLimit, Note
  <2> QED
    BY <1>k, <2>1
<1>3. CASE Reject
  <2>1. walk = "visiting" /\ Rejection(Here) # "" /\ Continue(AfterRejection(Here))
    BY <1>3 DEF Reject, Visit, Callback, Walking
  <2>2. m > place
    BY <1>i, <1>m, <2>1
  <2>3. AfterRejection(Here) = listed
    <3>1. SUFFICES ASSUME platform = "windows", Rejection(Here) = "link_rejected", LeadsToDirectory(Here)
                   PROVE  FALSE
      BY DEF AfterRejection
    <3>2. At(Here) = "symlink"
      BY <3>1 DEF Rejection
    <3>3. tree[Here] = "symlink"
      BY <3>2 DEF At
    <3>4. Here \in Paths
      BY <1>b, PathsOf DEF Here
    <3> QED
      BY <3>1, <3>3, <3>4 DEF Copes
  <2> QED
    BY <1>g, <1>h, <2>1, <2>2, <2>3
<1>n. ASSUME Leave, m > place PROVE Goal
  <2>1. \/ walk' = "reading" /\ place' = place /\ listed' = listed
        \/ Continue(listed)
    BY <1>n DEF Leave
  <2> QED
    BY <1>g, <1>h, <1>l, <1>n, <2>1
<1>4. CASE Descend
  <2>1. /\ walk = "visiting" /\ Here # <<>> /\ Leave
        /\ IsDirectory(Seen(Here)) \/ GroupsOf(Here) = {}
    BY <1>4 DEF Descend, Visit, Callback, Walking
  <2>2. CASE m = place
    <3>1. listed[q] = tree[q] /\ Here = q
      BY <1>j, <1>m, <2>1, <2>2
    <3>2. k # Len(p)
      <4>1. SUFFICES ASSUME k = Len(p) PROVE FALSE
        OBVIOUS
      <4>2. Here = p /\ listed[Here] = "file" /\ At(Here) = "file"
        BY <1>c, <3>1, <4>1
      <4>3. Patterns[i].group \in GroupsOf(Here)
        BY <1>a, <4>2 DEF GroupsOf
      <4>4. ~IsDirectory(Seen(Here))
        BY <4>2 DEF Seen, IsDirectory
      <4> QED
        BY <2>1, <4>3, <4>4
    <3>3. listed[Here] = "dir"
      BY <1>c, <3>1, <3>2
    <3>4. walk' = "reading" /\ place' = place
      BY <2>1, <3>3 DEF Leave, IsDirectory
    <3>5. Due(m, k, i, p)'
      BY <1>b, <2>2, <3>2, <3>4 DEF Due
    <3> QED
      BY <1>f, <3>5
  <2>3. CASE m > place
    BY <1>n, <2>1, <2>3
  <2> QED
    BY <1>i, <2>2, <2>3
<1>5. CASE Select
  <2>1. /\ walk = "visiting" /\ ~IsDirectory(Seen(Here)) /\ pending' = GroupsOf(Here)
        /\ walk' = "opening" /\ place' = place /\ listed' = listed
    BY <1>5 DEF Select, Visit, Callback, Walking
  <2>2. CASE m = place
    <3>1. listed[q] = tree[q] /\ Here = q
      BY <1>j, <1>m, <2>1, <2>2
    <3>2. k = Len(p)
      <4>1. k # Len(p) => listed[Here] = "dir" /\ At(Here) = "dir"
        BY <1>c, <3>1
      <4> QED
        BY <2>1, <4>1 DEF Seen, IsDirectory
    <3>3. Patterns[i].group \in pending'
      BY <1>a, <1>c, <2>1, <3>1, <3>2 DEF GroupsOf
    <3>4. Due(m, k, i, p)'
      BY <2>1, <2>2, <3>2, <3>3 DEF Due
    <3> QED
      BY <1>f, <3>4
  <2>3. CASE m > place
    BY <1>l, <2>1, <2>3
  <2> QED
    BY <1>i, <2>2, <2>3
<1>6. CASE ReadDirectory
  <2>1. walk = "reading"
    BY <1>6 DEF ReadDirectory, Walking
  <2>2. PICK seen :
          /\ Continue(seen)
          /\ \/ /\ tree[Here] = "dir" /\ At(Here) # "outside"
                /\ seen = [r \in Paths |-> IF r # <<>> /\ Parent(r) = Here THEN tree[r] ELSE listed[r]]
             \/ /\ tree[Here] = "symlink" \/ At(Here) = "outside"
                /\ \E c \in {"absent", "file"} :
                     seen = [r \in Paths |-> IF r # <<>> /\ Parent(r) = Here THEN c ELSE listed[r]]
    BY <1>6 DEF ReadDirectory
  <2>3. ASSUME NEW j \in 1..Len(p), Here = Way(p, j - 1)
        PROVE  /\ tree[Here] = "dir" /\ At(Here) = "dir"
               /\ Parent(Way(p, j)) = Here /\ Way(p, j) # <<>> /\ Way(p, j) \in Paths
               /\ tree[Way(p, j)] # "absent"
    <3>1. j \in 0..Len(p) /\ j # 0 /\ j - 1 \in 0..Len(p) /\ j - 1 # Len(p)
      BY <1>b
    <3>2. tree[Here] = "dir" /\ At(Here) = "dir"
      BY <1>a, <2>3, <3>1, OnTheWay
    <3>3. Parent(Way(p, j)) = Here /\ Way(p, j) # <<>> /\ Way(p, j) \in Paths
      BY <1>a, <2>3, <3>1, WayOf
    <3>4. tree[Way(p, j)] \in {"file", "dir"}
      BY <1>a, <3>1, OnTheWay
    <3> QED
      BY <3>2, <3>3, <3>4
  <2>4. CASE m = place
    <3>1. k < Len(p) /\ Here = q
      BY <1>b, <1>j, <2>1, <2>4 DEF Due
    <3>2. k + 1 \in 1..Len(p) /\ k + 1 \in 0..Len(p) /\ (k + 1) - 1 = k
      BY <1>b, <3>1
    <3> DEFINE r == Way(p, k + 1)
    <3>3. /\ tree[Here] = "dir" /\ At(Here) = "dir" /\ Parent(r) = Here /\ r # <<>> /\ r \in Paths
          /\ tree[r] # "absent"
      BY <2>3, <3>1, <3>2
    <3>4. PICK n \in DOMAIN WalkOrder : WalkOrder[n] = r
      BY <3>3, PathsOf
    <3>5. n > place
      <4>1. n # 1 /\ WalkOrder[place] = Parent(WalkOrder[n])
        BY <3>3, <3>4, PathsOf DEF Here
      <4>2. place < n
        BY <1>b, <4>1, CollectionAssumption
      <4> QED
        BY <1>b, <4>2
    <3>6. CASE seen = [s \in Paths |-> IF s # <<>> /\ Parent(s) = Here THEN tree[s] ELSE listed[s]]
      <4>1. seen[r] # "absent"
        BY <3>3, <3>6
      <4>2. Due(n, k + 1, i, p)'
        BY <2>2, <3>2, <3>4, <3>5, <4>1, DueLater
      <4> QED
        BY <1>e, <3>2, <3>4, <4>2
    <3>7. seen = [s \in Paths |-> IF s # <<>> /\ Parent(s) = Here THEN tree[s] ELSE listed[s]]
      <4>1. tree[Here] # "symlink" /\ At(Here) # "outside" /\ At(Here) = "dir"
        BY <3>3
      <4> QED
        BY <2>2, <4>1
    <3> QED
      BY <3>6, <3>7
  <2>5. CASE m > place
    <3>1. k # 0 => k \in 1..Len(p)
      BY <1>b
    <3>2. seen[q] # "absent"
      <4>1. CASE seen = [s \in Paths |-> IF s # <<>> /\ Parent(s) = Here THEN tree[s] ELSE listed[s]]
        <5>1. tree[q] # "absent"
          BY <1>c
        <5> QED
          BY <1>c, <1>h, <2>5, <4>1, <5>1
      <4>2. CASE /\ tree[Here] = "symlink" \/ At(Here) = "outside"
                 /\ \E c \in {"absent", "file"} :
                       seen = [s \in Paths |-> IF s # <<>> /\ Parent(s) = Here THEN c ELSE listed[s]]
        <5>1. ~(q # <<>> /\ Parent(q) = Here)
          <6>1. SUFFICES ASSUME q # <<>>, Parent(q) = Here PROVE FALSE
            OBVIOUS
          <6>2. k # 0 /\ Here = Way(p, k - 1)
            BY <1>a, <1>c, <6>1, WayOf
          <6>3. tree[Here] = "dir" /\ At(Here) = "dir"
            BY <2>3, <3>1, <6>2
          <6> QED
            BY <4>2, <6>3
        <5>2. seen[q] = listed[q]
          BY <1>c, <4>2, <5>1
        <5> QED
          BY <1>h, <2>5, <5>2
      <4> QED
        BY <2>2, <4>1, <4>2
    <3> QED
      BY <1>g, <2>2, <2>5, <3>2
  <2> QED
    BY <1>i, <2>4, <2>5
<1>7. CASE ReadDirectoryFails
  <2>1. walk = "reading" /\ At(Here) \notin {"dir", "symlink", "outside"}
    BY <1>7 DEF ReadDirectoryFails, Walking
  <2>2. m > place
    <3>1. SUFFICES ASSUME m = place PROVE FALSE
      BY <1>i
    <3>2. k < Len(p) /\ Here = q
      BY <1>b, <1>j, <2>1, <3>1 DEF Due
    <3>3. At(Here) = "dir"
      BY <1>b, <1>c, <3>2
    <3> QED
      BY <2>1, <3>3
  <2>3. walk' = "failed" \/ Note(Selections, "file_limit") \/ Continue(listed)
    BY <1>7 DEF ReadDirectoryFails
  <2>4. walk' = "failed" => Goal
    BY <1>k DEF Ahead
  <2>5. Note(Selections, "file_limit") => Goal
    <3>1. Note(Selections, "file_limit") => reason'[i] # ""
      BY DEF Note
    <3> QED
      BY <1>k, <3>1
  <2> QED
    BY <1>g, <1>h, <2>2, <2>3, <2>4, <2>5
<1>8. CASE WalkCancelled
  <2>1. walk' = "failed"
    BY <1>8 DEF WalkCancelled
  <2> QED
    BY <1>k, <2>1 DEF Ahead
<1>9. ASSUME NEW g \in pending, FileLimit(g) \/ Refuse(g) \/ Collect(g) PROVE Goal
  <2>1. Candidate(g)
    BY <1>9 DEF FileLimit, Refuse, Collect
  <2>2. walk = "opening" /\ pending' = pending \ {g}
    BY <2>1 DEF Candidate, Walking
  <2>3. \/ pending' = {} /\ Leave
        \/ pending' # {} /\ UNCHANGED <<walk, place, listed>>
    BY <2>1 DEF Candidate
  <2>4. CASE m > place
    <3>1. CASE Leave
      BY <1>n, <2>4, <3>1
    <3>2. CASE UNCHANGED <<walk, place, listed>>
      BY <1>l, <2>2, <2>4, <3>2
    <3> QED
      BY <2>3, <3>1, <3>2
  <2>5. CASE m = place
    <3>1. k = Len(p) /\ Patterns[i].group \in pending /\ Here = p
      BY <1>b, <1>c, <1>j, <2>2, <2>5 DEF Due
    <3>2. CASE Patterns[i].group # g
      <4>1. Patterns[i].group \in pending' /\ UNCHANGED <<walk, place, listed>>
        BY <2>2, <2>3, <3>1, <3>2
      <4>2. Due(m, k, i, p)'
        BY <2>2, <2>5, <3>1, <4>1 DEF Due
      <4> QED
        BY <1>f, <4>2
    <3>3. CASE Patterns[i].group = g
      <4>1. i \in Selecting(g, Here)
        BY <1>a, <3>1, <3>3 DEF Selecting
      <4>2. CASE FileLimit(g)
        <5>1. reason'[i] # ""
          BY <4>1, <4>2 DEF FileLimit, Note
        <5> QED
          BY <1>k, <5>1
      <4>3. CASE Refuse(g)
        <5>1. Refusal(At(Here)) # "" /\ Note(Selecting(g, Here), Refusal(At(Here)))
          BY <4>3 DEF Refuse
        <5>2. reason'[i] # ""
          BY <4>1, <5>1 DEF Note
        <5> QED
          BY <1>k, <5>2
      <4>4. CASE Collect(g)
        <5> DEFINE f == [group |-> g, path |-> Here, size |-> Size(At(Here)),
                         inside |-> At(Here) \in {"file", "large"}]
        <5>1. opened' = Append(opened, f) /\ opened \in Seq(Entry)
          BY <4>4 DEF Collect, CollectTypeInv
        <5>2. f.group = g /\ f.path = Here
          OBVIOUS
        <5> HIDE DEF f
        <5>3. Len(opened) + 1 \in DOMAIN opened' /\ opened'[Len(opened) + 1] = f
          BY <5>1
        <5>4. Found(i, p)'
          BY <3>1, <3>3, <5>2, <5>3 DEF Found
        <5> QED
          BY <1>k, <5>4
      <4> QED
        BY <1>9, <4>2, <4>3, <4>4
    <3> QED
      BY <3>2, <3>3
  <2> QED
    BY <1>i, <2>4, <2>5
<1> QED
  BY <1>1, <1>2, <1>3, <1>4, <1>5, <1>6, <1>7, <1>8, <1>9 DEF WalkStep

\* A reason once noted stays.
LEMMA ReasonStays ==
    ASSUME WalkStep, NEW i \in Selections, reason[i] # ""
    PROVE  reason'[i] # ""
<1>1. reason' = reason \/ \E indices, why : Note(indices, why)
  BY DEF WalkStep, EnterRoot, ScanLimit, Reject, Descend, Select, ReadDirectory, ReadDirectoryFails,
         WalkCancelled, FileLimit, Refuse, Collect, patternVars
<1>2. ASSUME NEW indices, NEW why, Note(indices, why) PROVE reason'[i] # ""
  BY <1>2 DEF Note
<1> QED
  BY <1>1, <1>2

\* A file once opened stays so.
LEMMA FoundStays ==
    ASSUME CollectTypeInv, OpenedInv, WalkStep, NEW i, NEW p, Found(i, p)
    PROVE  Found(i, p)'
<1>1. CASE opened' = opened
  BY <1>1 DEF Found
<1>2. CASE \E g \in pending : Collect(g)
  <2>1. PICK f \in Entry : opened' = Append(opened, f)
    BY <1>2, CollectAdds
  <2>2. opened \in Seq(Entry)
    BY DEF CollectTypeInv
  <2>3. \A n \in DOMAIN opened : n \in DOMAIN opened' /\ opened'[n] = opened[n]
    BY <2>1, <2>2, AppendFacts
  <2> QED
    BY <2>3 DEF Found
<1> QED
  BY <1>1, <1>2, WalkEffect

\* The selected files depend on the tree only.
LEMMA SameTree ==
    ASSUME tree' = tree, platform' = platform
    PROVE  /\ Copes' <=> Copes
           /\ \A i : Deliverable(i)' = Deliverable(i)
<1>1. \A p : At(p)' = At(p)
  BY DEF At
<1> HIDE DEF At
<1> QED
  BY <1>1 DEF Copes, Deliverable, LeadsToDirectory

\* Before the walk the working directory is ahead.
LEMMA FoundInit == CollectInit => FoundInv
<1> SUFFICES ASSUME CollectInit, NEW i \in Selections, NEW p \in Deliverable(i)
             PROVE  Ahead(i, p)
  BY DEF FoundInv
<1>1. p \in Paths
  BY DEF Deliverable
<1>2. 0 \in 0..Len(p)
  BY <1>1, PathsOf DEF Name
<1>3. Way(p, 0) = <<>>
  BY <1>1, <1>2, WayOf
<1>4. place = 1 /\ walk = "idle"
  BY DEF CollectInit
<1>5. 1 \in DOMAIN WalkOrder /\ WalkOrder[1] = Way(p, 0) /\ Due(1, 0, i, p)
  BY <1>3, <1>4, PathsOf DEF Due
<1> QED
  BY <1>2, <1>5 DEF Ahead

\* Every step finds the file, notes a reason, or has it ahead.
LEMMA FoundStep ==
    /\ CollectTypeInv /\ CallInv /\ OpenedInv /\ ListedInv /\ FoundInv
    /\ [DeliveryNext]_deliveryVars
    => FoundInv'
<1> SUFFICES ASSUME CollectTypeInv, CallInv, OpenedInv, ListedInv, FoundInv,
                    [DeliveryNext]_deliveryVars
             PROVE  FoundInv'
  OBVIOUS
<1>1. CASE WalkStep
  <2>1. UNCHANGED <<tree, platform, changes>> /\ walk # "failed"
    BY <1>1, WalkEffect
  <2>2. (Copes' <=> Copes) /\ \A i : Deliverable(i)' = Deliverable(i)
    BY <2>1, SameTree
  <2>3. ASSUME changes = 0, Copes, NEW i \in Selections, NEW p \in Deliverable(i)
        PROVE  reason'[i] # "" \/ Found(i, p)' \/ Ahead(i, p)'
    <3>1. reason[i] # "" \/ Found(i, p) \/ Ahead(i, p)
      BY <2>3 DEF FoundInv
    <3>2. CASE reason[i] # ""
      BY <1>1, <3>2, ReasonStays
    <3>3. CASE Found(i, p)
      BY <1>1, <3>3, FoundStays
    <3>4. CASE Ahead(i, p)
      <4>1. PICK m \in DOMAIN WalkOrder, k \in 0..Len(p) :
                WalkOrder[m] = Way(p, k) /\ Due(m, k, i, p)
        BY <2>1, <3>4 DEF Ahead
      <4> QED
        BY <1>1, <2>3, <4>1, DueStays
    <3> QED
      BY <3>1, <3>2, <3>3, <3>4
  <2> HIDE DEF Copes, Deliverable, Found, Ahead
  <2> QED
    BY <2>1, <2>2, <2>3 DEF FoundInv
<1>2. ASSUME UNCHANGED <<platform, place, listed, pending, opened, reason>>,
             changes' = 0 => changes = 0 /\ tree' = tree,
             walk' = walk \/ (walk = "idle" /\ walk' = "visiting")
      PROVE  FoundInv'
  <2>1. SUFFICES ASSUME changes' = 0, Copes', NEW i \in Selections, NEW p \in Deliverable(i)'
                 PROVE  reason'[i] # "" \/ Found(i, p)' \/ Ahead(i, p)'
    BY DEF FoundInv, Selections
  <2>2. changes = 0 /\ tree' = tree /\ platform' = platform
    BY <1>2, <2>1
  <2>3. Copes /\ p \in Deliverable(i)
    BY <2>1, <2>2, SameTree
  <2>4. reason[i] # "" \/ Found(i, p) \/ Ahead(i, p)
    BY <2>2, <2>3 DEF FoundInv
  <2>5. Found(i, p) => Found(i, p)'
    BY <1>2 DEF Found
  <2>6. \A m \in DOMAIN WalkOrder, k \in 0..Len(p) : Due(m, k, i, p) => Due(m, k, i, p)'
    BY <1>2 DEF Due, Way
  <2>7. Ahead(i, p) => Ahead(i, p)'
    BY <1>2, <2>6 DEF Ahead, Way
  <2> QED
    BY <1>2, <2>4, <2>5, <2>7
<1>3. CASE OtherStep
  <2>1. UNCHANGED <<platform, place, listed, pending, opened, reason>>
    BY <1>3, OthersKeepWalk DEF patternVars
  <2>2. changes' = 0 => changes = 0 /\ tree' = tree
    BY <1>3, OthersTree
  <2>3. walk' = walk \/ (walk = "idle" /\ walk' = "visiting")
    BY <1>3, OthersWalk DEF CallInv
  <2> QED
    BY <1>2, <2>1, <2>2, <2>3
<1>4. CASE (Deliver \/ Break \/ Interfere) \/ UNCHANGED deliveryVars
  <2>1. UNCHANGED <<platform, place, listed, pending, opened, reason, changes, tree, walk>>
    BY <1>4, DeliverKeepsCollection
       DEF deliveryVars, collectVars, treeVars, walkVars, entryVars, patternVars
  <2> QED
    BY <1>2, <2>1
<1> QED
  BY <1>1, <1>3, <1>4 DEF DeliveryNext, CollectStep, OtherStep

-----------------------------------------------------------------------------
(***************************************************************************)
(* The collection as a whole.                                              *)
(***************************************************************************)
CollectionInv ==
    /\ CollectTypeInv /\ CallInv /\ OpenedInv /\ UniqueInv /\ AnswerInv /\ ListedInv /\ FoundInv

\* The invariant of the collection holds at first,
LEMMA CollectionInit == CollectInit => CollectionInv
<1>1. CollectInit => AnswerInv
  BY DEF CollectInit, AnswerInv
<1> QED
  BY <1>1, CollectTypeInit, CallInit, OpenedInit, ListedInit, FoundInit DEF CollectionInv

\* is kept by every step,
LEMMA CollectionStep == CollectionInv /\ [DeliveryNext]_deliveryVars => CollectionInv'
BY CollectTypeStep, CallStep, OpenedStep, AnswerStep, ListedStep, FoundStep DEF CollectionInv

\* and so always holds.
LEMMA CollectionAlways == DeliverySpec => []CollectionInv
<1>1. DeliveryInit => CollectionInv
  BY CollectionInit DEF DeliveryInit
<1> QED
  BY <1>1, CollectionStep, PTL DEF DeliverySpec

\* NeverRefused: what a finished walk has found passes validateHelperPlan,
\* ValidateArtifactManifest and artifactCollectionAllowed.
THEOREM CollectedIsAccepted == DeliverySpec => []NeverRefused
<1>1. CollectionInv => NeverRefused
  BY WalkedIsValid DEF CollectionInv, NeverRefused
<1> QED
  BY <1>1, CollectionAlways, PTL

\* The answer, in sum: DeliveredIsInside, PatternsAccounted, NothingMissedIfReadable.
LEMMA AnswerAccounts == CollectionInv => SelectionAccounted
<1> SUFFICES ASSUME CollectionInv PROVE SelectionAccounted
  OBVIOUS
<1> USE DEF CollectionInv
<1>1. /\ FailedManifest.files = <<>> /\ ToSet(FailedManifest.files) = {}
      /\ \A i \in Selections : \E o \in FailedManifest.omissions :
             o.pattern = i /\ o.reason = "collection_failed"
  <2>1. FailedManifest.files = <<>>
    BY DEF FailedManifest
  <2>2. DOMAIN FailedManifest.files = {}
    BY <2>1
  <2>3. FailedManifest.omissions =
            {[pattern |-> i, reason |-> "collection_failed"] : i \in Selections}
    BY DEF FailedManifest
  <2> HIDE DEF FailedManifest
  <2>4. ASSUME NEW i \in Selections
        PROVE  \E o \in FailedManifest.omissions : o.pattern = i /\ o.reason = "collection_failed"
    <3> DEFINE o == [pattern |-> i, reason |-> "collection_failed"]
    <3>1. o \in FailedManifest.omissions /\ o.pattern = i /\ o.reason = "collection_failed"
      BY <2>3
    <3> QED
      BY <3>1
  <2> QED
    BY <2>1, <2>2, <2>4 DEF ToSet
<1>2. Manifest.files = opened /\ Manifest.omissions = Omissions
  BY DEF Manifest
<1>3. ToSet(opened) = {opened[n] : n \in DOMAIN opened}
  BY DEF ToSet
<1>4. \A i \in Selections : reason[i] # "" \/ i \notin collected =>
          \E o \in Omissions :
              /\ o.pattern = i
              /\ o.reason = IF reason[i] = "" THEN "no_match" ELSE reason[i]
  <2> SUFFICES ASSUME NEW i \in Selections, reason[i] # "" \/ i \notin collected
               PROVE  \E o \in Omissions :
                          /\ o.pattern = i
                          /\ o.reason = IF reason[i] = "" THEN "no_match" ELSE reason[i]
    OBVIOUS
  <2> DEFINE o == [pattern |-> i, reason |-> IF reason[i] = "" THEN "no_match" ELSE reason[i]]
  <2>1. o \in Omissions
    BY DEF Omissions
  <2> QED
    BY <2>1
<1>5. caller = "returned" => artifacts \in {FailedManifest, Manifest}
  BY DEF AnswerInv
<1>6. artifacts \in {FailedManifest, Manifest}
  BY DEF AnswerInv
<1>7. artifacts = Manifest => artifacts = FailedManifest \/ (caller = "returned" /\ walk = "walked")
  BY DEF AnswerInv
<1> HIDE DEF FailedManifest, Manifest, Omissions
<1>8. DeliveredIsInside
  BY <1>1, <1>2, <1>3, <1>6 DEF DeliveredIsInside, OpenedInv
<1>9. PatternsAccounted
  <2> SUFFICES ASSUME NEW i \in Selections
               PROVE  \/ \E f \in ToSet(artifacts.files) : i \in Selecting(f.group, f.path)
                      \/ \E o \in artifacts.omissions : o.pattern = i
    BY DEF PatternsAccounted
  <2>1. CASE artifacts = FailedManifest
    BY <1>1, <2>1
  <2>2. CASE artifacts = Manifest
    <3>1. CASE i \in collected
      <4>1. PICK n \in DOMAIN opened : i \in Selecting(opened[n].group, opened[n].path)
        BY <3>1 DEF OpenedInv
      <4>2. opened[n] \in ToSet(opened)
        BY <1>3
      <4> QED
        BY <1>2, <2>2, <4>1, <4>2
    <3>2. CASE i \notin collected
      BY <1>2, <1>4, <2>2, <3>2
    <3> QED
      BY <3>1, <3>2
  <2> QED
    BY <1>6, <2>1, <2>2
<1>10. NothingMissedIfReadable
  <2> SUFFICES ASSUME Copes, caller = "returned", changes = 0,
                      NEW i \in Selections, NEW p \in Deliverable(i)
               PROVE  \/ \E f \in ToSet(artifacts.files) : f.path = p /\ f.group = Patterns[i].group
                      \/ \E o \in artifacts.omissions : o.pattern = i /\ o.reason # "no_match"
    BY DEF NothingMissedIfReadable, NothingMissed
  <2>1. CASE artifacts = FailedManifest
    BY <1>1, <2>1
  <2>2. CASE artifacts # FailedManifest
    <3>1. artifacts = Manifest /\ walk = "walked"
      BY <1>6, <1>7, <2>2
    <3>2. ~Ahead(i, p)
      <4>1. p \in Name /\ place \in Nat /\ DOMAIN WalkOrder \subseteq Nat
        BY PathsOf DEF Deliverable, CollectTypeInv, CollectTypeOK
      <4> QED
        BY <3>1, <4>1 DEF Ahead, Due
    <3>3. reason[i] # "" \/ Found(i, p)
      BY <3>2 DEF FoundInv
    <3>4. CASE reason[i] # ""
      <4>1. PICK o \in Omissions : o.pattern = i /\ o.reason = reason[i]
        BY <1>4, <3>4
      <4>2. reason[i] # "no_match"
        BY DEF CollectTypeInv, CollectTypeOK, Reasons
      <4> QED
        BY <1>2, <3>1, <4>1, <4>2
    <3>5. CASE Found(i, p)
      <4>1. PICK n \in DOMAIN opened : opened[n].path = p /\ opened[n].group = Patterns[i].group
        BY <3>5 DEF Found
      <4>2. opened[n] \in ToSet(opened)
        BY <1>3
      <4> QED
        BY <1>2, <3>1, <4>1, <4>2
    <3> QED
      BY <3>3, <3>4, <3>5
  <2> QED
    BY <2>1, <2>2
<1> QED
  BY <1>8, <1>9, <1>10 DEF SelectionAccounted

\* SelectionAccounted: nothing from outside, no pattern without an answer, and "no_match"
\* only of a tree without such a file (walk, addFile, finalManifest).
THEOREM SelectionIsAccounted == DeliverySpec => []SelectionAccounted
BY AnswerAccounts, CollectionAlways, PTL

-----------------------------------------------------------------------------
(***************************************************************************)
(* The bundle.                                                             *)
(***************************************************************************)
Streaming == stream \in {"report", "begin", "files", "filling"}

BundleInv ==
    /\ caller # "returned" => stream = "report"
    /\ caller = "returned" => (bundle = "open" <=> files # <<>> /\ Streaming)

\* What the steps of the collection do to the answer.
LEMMA CollectAnswers ==
    ASSUME CallInv, CollectStep
    PROVE  \/ caller = "returned" /\ UNCHANGED <<caller, bundle, artifacts>>
           \/ caller # "returned" /\ caller' # "returned"
           \/ /\ caller # "returned" /\ caller' = "returned"
              /\ \/ artifacts'.files = <<>> /\ bundle' # "open"
                 \/ artifacts'.files # <<>> /\ bundle' = "open"
<1>a. FailedManifest.files = <<>> /\ Manifest.files = opened
  BY DEF FailedManifest, Manifest
<1> HIDE DEF FailedManifest, Manifest
<1>1. CASE WalkStep
  <2>1. caller' = caller /\ caller # "returned"
    BY <1>1, WalkEffect, CallWalk
  <2> QED
    BY <2>1
<1>2. CASE HelperStep \/ HelperFails \/ Environment
  <2>1. UNCHANGED <<caller, bundle, artifacts>>
    BY <1>2 DEF HelperStep, Send, GiveUp, HelperExits, HelperFails, Helps, callVars,
                Environment, Expire, Change, WriteTo, Disturb
  <2> QED
    BY <2>1
<1>3. CASE ReceivePlan \/ ReceiveFile \/ ReceiveEnd \/ ReceiveFails \/ Start
  BY <1>3 DEF ReceivePlan, ReceiveFile, ReceiveEnd, ReceiveFails, Receives, Start
<1>b. ASSUME Fallback PROVE caller' = "returned" /\ artifacts'.files = <<>> /\ bundle' # "open"
  BY <1>a, <1>b DEF Fallback, CloseBundle
<1>c. ASSUME Return, bundle = "open"
      PROVE  /\ caller' = "returned"
             /\ \/ artifacts'.files = <<>> /\ bundle' # "open"
                \/ artifacts'.files # <<>> /\ bundle' = "open"
  BY <1>a, <1>b, <1>c DEF Return, CloseBundle
<1>4. CASE StartFails \/ DirectoryRefused \/ ReleaseFails
  BY <1>4, <1>b DEF StartFails, DirectoryRefused, ReleaseFails
<1>5. CASE Reap \/ EndWalk
  <2>1. caller # "returned" /\ ((Return /\ caller \in {"waiting", "walking"}) \/ Fallback)
    BY <1>5 DEF Reap, EndWalk
  <2>2. caller \in {"waiting", "walking"} => bundle = "open"
    BY DEF CallInv
  <2> QED
    BY <1>b, <1>c, <2>1, <2>2
<1> QED
  BY <1>1, <1>2, <1>3, <1>4, <1>5 DEF CollectStep, CallerStep, CollectFault, ReceiveMustFail

\* The stream has not begun and there is no bundle.
LEMMA BundleInit == DeliveryInit => BundleInv
BY DEF DeliveryInit, CollectInit, DestinationInit, BundleInv

\* Every step keeps the bundle accounted for.
LEMMA BundleStep == CollectionInv /\ BundleInv /\ [DeliveryNext]_deliveryVars => BundleInv'
<1> SUFFICES ASSUME CollectionInv, BundleInv, [DeliveryNext]_deliveryVars PROVE BundleInv'
  OBVIOUS
<1> USE DEF BundleInv, Streaming, files
<1>1. CASE CollectStep /\ UNCHANGED destinationVars
  <2>1. stream' = stream
    BY <1>1 DEF destinationVars
  <2> QED
    BY <1>1, <2>1, CollectAnswers DEF CollectionInv
<1>a. ASSUME caller = "returned", UNCHANGED <<caller, artifacts>>,
             \/ bundle' = bundle /\ (Streaming <=> Streaming')
             \/ bundle' # "open" /\ ~Streaming'
             \/ bundle' = bundle /\ files = <<>>
      PROVE  BundleInv'
  BY <1>a
<1>b. Deliver \/ Break \/ Interfere => caller = "returned" /\ UNCHANGED <<caller, artifacts>>
  BY DeliverKeepsCollection
<1>2. CASE SendReport
  BY <1>2, <1>a, <1>b DEF SendReport, Proceed, Deliver
<1>3. CASE ReportTooLarge
  BY <1>3, <1>a, <1>b DEF ReportTooLarge, Proceed, Deliver, CloseBundle
<1>4. CASE Transfer
  <2>1. /\ bundle' = bundle
        /\ stream \in {"begin", "files", "filling"} /\ stream' \in {"begin", "files", "filling"}
    BY <1>4 DEF Transfer, Begin, EnsureDirectory, OpenArtifact, CloseArtifact, Proceed
  <2> QED
    BY <1>4, <1>a, <1>b, <2>1 DEF Deliver
<1>5. CASE NamesRefused
  BY <1>5, <1>a, <1>b DEF NamesRefused, BeginRefused, Proceed, Deliver, CloseBundle
<1>6. CASE Finish
  BY <1>6, <1>a, <1>b DEF Finish, Commit, Proceed, Deliver, CloseBundle
<1>7. CASE Store
  <2>1. /\ bundle' = bundle
        /\ stream \in {"publishing", "writing", "failing"}
        /\ stream' \in {"publishing", "writing", "failing", "published", "aborted"}
    BY <1>7 DEF Store, CreateMetadata, FillMetadata, Publish, PublishRefused, Abort, Proceed
  <2> QED
    BY <1>7, <1>a, <1>b, <2>1 DEF Deliver
<1>8. CASE Break
  BY <1>8, <1>a, <1>b DEF Break, DestinationFails, CloseBundle
<1>9. CASE Interfere
  BY <1>9, <1>a, <1>b DEF Interfere, Rival, collectVars, callVars
<1>10. CASE UNCHANGED deliveryVars
  <2>1. UNCHANGED <<caller, bundle, artifacts, stream>>
    BY <1>10 DEF deliveryVars, collectVars, callVars, destinationVars
  <2> QED
    BY <2>1
<1> QED
  BY <1>1, <1>2, <1>3, <1>4, <1>5, <1>6, <1>7, <1>8, <1>9, <1>10 DEF DeliveryNext, Deliver

\* BundleAccounted: when Collect is back no helper is left, and the bundle is open exactly
\* while there are files to stream (collectArtifacts, WriteExecution).
THEOREM BundleIsAccounted == DeliverySpec => []BundleAccounted
<1>1. DeliveryInit => CollectionInv /\ BundleInv
  BY CollectionInit, BundleInit DEF DeliveryInit
<1>2. CollectionInv /\ BundleInv => BundleAccounted
  BY DEF CollectionInv, CallInv, BundleInv, BundleAccounted, Streaming
<1> QED
  BY <1>1, <1>2, CollectionStep, BundleStep, PTL DEF DeliverySpec

-----------------------------------------------------------------------------
(***************************************************************************)
(* The response directory.                                                 *)
(***************************************************************************)
File == [path : Name \ {<<>>}, whole : BOOLEAN]

\* Directories have their parents before them.
DirInv ==
    /\ owned \in Seq(Name)
    /\ stream # "aborted" => <<>> \in ToSet(owned)
    /\ \A i \in DOMAIN owned : owned[i] # <<>> => DirectoryOf(owned[i]) \in ToSet(owned)
    /\ \A i, j \in DOMAIN owned : owned[i] # <<>> /\ DirectoryOf(owned[i]) = owned[j] => j < i

\* Only the last file may be incomplete, and only while it is written.
StoredInv ==
    /\ stored \in Seq(File)
    /\ \A n \in DOMAIN stored : Above(stored[n].path) \subseteq ToSet(owned)
    /\ stream \notin {"failing", "aborted"} =>
           \A n \in DOMAIN stored :
               stored[n].whole \/ (n = Len(stored) /\ stream \in {"filling", "writing"})

Received(n) == {StoredPath(files[k]) : k \in 1..n}

\* Which files there are at each point of the stream.
NamesInv ==
    /\ next \in Nat
    /\ stream \in {"report", "begin"} => Names = {} /\ next = 0
    /\ stream = "files" => next <= Len(files) /\ Names = Received(next)
    /\ stream = "filling" => next < Len(files) /\ Names = Received(next + 1)
    /\ stream \in {"publishing", "writing", "published"} =>
           /\ Received(Len(files)) \subseteq Names
           /\ Names \subseteq Received(Len(files)) \cup ToSet(Metadata)
    /\ stream = "published" => ToSet(Metadata) \subseteq Names
    /\ final = "ours" => stream = "published"

DirectoryInv == DirInv /\ StoredInv /\ NamesInv /\ AbortLeavesOnlyTheStuck

\* ToSet, by index.
LEMMA SetOf == \A list : ToSet(list) = {list[n] : n \in DOMAIN list}
BY DEF ToSet

\* Names, by index.
LEMMA NamesOf == Names = {stored[n].path : n \in DOMAIN stored}
BY SetOf DEF Names

\* Where an artifact is stored.
LEMMA StoredPathOf ==
    ASSUME NEW f \in Entry
    PROVE  StoredPath(f) \in Name \ {<<>>}
<1>1. f.group \in Segment /\ f.path \in Name /\ "artifacts" \in Segment
  BY PathsOf DEF Entry, Segment
<1>2. <<"artifacts", f.group>> \in Seq(Segment) /\ Len(<<"artifacts", f.group>>) = 2
  BY <1>1
<1>3. /\ StoredPath(f) \in Seq(Segment)
      /\ Len(StoredPath(f)) = Len(<<"artifacts", f.group>>) + Len(f.path)
      /\ Len(f.path) \in Nat
  BY <1>1, <1>2 DEF StoredPath, Name
<1>4. Len(StoredPath(f)) # 0
  BY <1>2, <1>3
<1>5. StoredPath(f) # <<>>
  BY <1>4
<1> QED
  BY <1>3, <1>5 DEF Name

\* The metadata is right below the staging directory.
LEMMA MetadataOf ==
    ASSUME NEW i \in DOMAIN Metadata
    PROVE  Metadata[i] \in Name \ {<<>>} /\ Above(Metadata[i]) = {<<>>} /\ Metadata[i] \in ToSet(Metadata)
<1>1. PICK x \in Segment : Metadata[i] = <<x>>
  <2>1. i \in 1..3
    BY DEF Metadata
  <2> QED
    BY <2>1 DEF Metadata, Segment
<1>2. <<x>> \in Seq(Segment) /\ Len(<<x>>) = 1 /\ <<x>> # <<>>
  BY <1>1
<1>3. Above(<<x>>) = {SubSeq(<<x>>, 1, 0)}
  BY <1>2 DEF Above
<1>4. SubSeq(<<x>>, 1, 0) = <<>>
  BY <1>2, PrefixFacts DEF Name
<1> QED
  BY <1>1, <1>2, <1>3, <1>4, SetOf DEF Name

\* The files of the answer.
LEMMA FilesOf ==
    ASSUME CollectionInv
    PROVE  files \in Seq(Entry) /\ Len(files) \in Nat /\ DOMAIN files = 1..Len(files)
           /\ Received(Len(files)) = {StoredPath(f) : f \in ToSet(files)}
<1>1. FailedManifest.files = <<>> /\ Manifest.files = opened
  BY DEF FailedManifest, Manifest
<1>2. artifacts \in {FailedManifest, Manifest}
  BY DEF CollectionInv, AnswerInv
<1>3. opened \in Seq(Entry)
  BY DEF CollectionInv, CollectTypeInv
<1> HIDE DEF FailedManifest, Manifest
<1>4. files = <<>> \/ files = opened
  BY <1>1, <1>2 DEF files
<1>5. files \in Seq(Entry)
  <2>1. <<>> \in Seq(Entry)
    OBVIOUS
  <2> QED
    BY <1>3, <1>4, <2>1
<1>6. Len(files) \in Nat /\ DOMAIN files = 1..Len(files)
  BY <1>5
<1> QED
  BY <1>5, <1>6, SetOf DEF Received

\* A further file in the list of those stored.
LEMMA StoreOne ==
    ASSUME stored \in Seq(File), NEW path \in Name \ {<<>>},
           stored' = Append(stored, [path |-> path, whole |-> FALSE])
    PROVE  /\ stored' \in Seq(File) /\ Len(stored') = Len(stored) + 1
           /\ DOMAIN stored' = DOMAIN stored \cup {Len(stored')}
           /\ stored'[Len(stored')].path = path
           /\ \A n \in DOMAIN stored : stored'[n] = stored[n]
           /\ Names' = Names \cup {path}
<1> DEFINE f == [path |-> path, whole |-> FALSE]
<1>1. f \in File /\ f.path = path
  BY DEF File
<1> HIDE DEF f
<1>2. stored' = Append(stored, f)
  BY DEF f
<1>3. /\ DOMAIN stored' = DOMAIN stored \cup {Len(stored) + 1} /\ stored'[Len(stored) + 1] = f
      /\ \A n \in DOMAIN stored : stored'[n] = stored[n]
  BY <1>1, <1>2, AppendFacts
<1>4. stored' \in Seq(File) /\ Len(stored') = Len(stored) + 1
  BY <1>1, <1>2
<1>5. Names' = {stored'[n].path : n \in DOMAIN stored'}
  BY SetOf DEF Names
<1>6. Names' = Names \cup {path}
  BY <1>1, <1>3, <1>5, NamesOf
<1> QED
  BY <1>1, <1>3, <1>4, <1>6

\* The last file becomes complete.
LEMMA CompleteOne ==
    ASSUME stored \in Seq(File), stored # <<>>,
           stored' = [stored EXCEPT ![Len(stored)].whole = TRUE]
    PROVE  /\ stored' \in Seq(File) /\ DOMAIN stored' = DOMAIN stored /\ Len(stored') = Len(stored)
           /\ Len(stored) \in DOMAIN stored /\ stored'[Len(stored)].whole
           /\ \A n \in DOMAIN stored :
                  /\ stored'[n].path = stored[n].path
                  /\ n # Len(stored) => stored'[n].whole = stored[n].whole
           /\ Names' = Names
<1>1. Len(stored) \in DOMAIN stored
  OBVIOUS
<1>2. \A n \in DOMAIN stored : stored[n] \in File
  BY ElementOf
<1>3. DOMAIN stored' = DOMAIN stored /\ Len(stored') = Len(stored)
  OBVIOUS
<1>4. \A n \in DOMAIN stored :
          stored'[n] = IF n = Len(stored) THEN [stored[n] EXCEPT !.whole = TRUE] ELSE stored[n]
  BY <1>1
<1>5. \A f \in File : /\ [f EXCEPT !.whole = TRUE] \in File
                      /\ [f EXCEPT !.whole = TRUE].path = f.path
                      /\ [f EXCEPT !.whole = TRUE].whole = TRUE
  BY DEF File
<1>6. \A n \in DOMAIN stored :
          /\ stored'[n] \in File /\ stored'[n].path = stored[n].path
          /\ n # Len(stored) => stored'[n].whole = stored[n].whole
  BY <1>2, <1>4, <1>5
<1>7. stored'[Len(stored)].whole
  BY <1>1, <1>2, <1>4, <1>5
<1>8. stored' \in Seq(File)
  <2>1. DOMAIN stored = 1..Len(stored) /\ Len(stored) \in Nat
    OBVIOUS
  <2>2. stored' = [n \in 1..Len(stored) |-> stored'[n]]
    BY <1>3, <2>1
  <2>3. stored' \in [1..Len(stored) -> File]
    BY <1>6, <2>1, <2>2
  <2> QED
    BY <2>1, <2>3, ListOf
<1>9. Names' = {stored'[n].path : n \in DOMAIN stored'}
  BY SetOf DEF Names
<1>10. Names' = Names
  BY <1>3, <1>6, <1>9, NamesOf
<1> QED
  BY <1>1, <1>3, <1>6, <1>7, <1>8, <1>10

\* At first there is the staging directory and nothing in it.
LEMMA DirectoryInit == DestinationInit => DirectoryInv
<1> SUFFICES ASSUME DestinationInit PROVE DirectoryInv
  OBVIOUS
<1>1. /\ stream = "report" /\ owned = <<<<>>>> /\ stored = <<>> /\ next = 0 /\ final = "absent"
  BY DEF DestinationInit
<1>2. <<>> \in Name
  BY DEF Name
<1>3. owned \in Seq(Name) /\ DOMAIN owned = {1} /\ owned[1] = <<>>
  BY <1>1, <1>2
<1>4. stored \in Seq(File) /\ DOMAIN stored = {}
  BY <1>1
<1>5. Names = {}
  BY <1>4, NamesOf
<1>6. <<>> \in ToSet(owned)
  BY <1>3, SetOf
<1> QED
  BY <1>1, <1>3, <1>4, <1>5, <1>6
     DEF DirectoryInv, DirInv, StoredInv, NamesInv, AbortLeavesOnlyTheStuck

\* The stream breaks: all that was made stays until it is removed.
LEMMA Failing ==
    ASSUME DirectoryInv, stream \notin {"aborted", "published"}, stream' = "failing",
           UNCHANGED stageVars
    PROVE  DirectoryInv'
<1>1. UNCHANGED <<owned, stored, next, stuck, remains, staging, final>>
  BY DEF stageVars
<1> QED
  BY <1>1 DEF DirectoryInv, DirInv, StoredInv, NamesInv, AbortLeavesOnlyTheStuck

\* Nothing of the directory changes.
LEMMA DirectoryKept ==
    ASSUME DirectoryInv, stream = "report" \/ files' = files, UNCHANGED destinationVars
    PROVE  DirectoryInv'
<1>1. UNCHANGED <<stream, owned, stored, next, stuck, remains, staging, final>>
  BY DEF destinationVars, stageVars
<1>2. Names' = Names
  BY <1>1 DEF Names
<1>3. files' = files => \A n : Received(n)' = Received(n)
  BY DEF Received
<1>4. DirInv' /\ StoredInv' /\ AbortLeavesOnlyTheStuck'
  BY <1>1 DEF DirectoryInv, DirInv, StoredInv, AbortLeavesOnlyTheStuck
<1>5. NamesInv'
  <2>1. CASE stream = "report"
    BY <1>1, <1>2, <2>1 DEF DirectoryInv, NamesInv
  <2>2. CASE files' = files
    BY <1>1, <1>2, <1>3, <2>2 DEF DirectoryInv, NamesInv
  <2> QED
    BY <2>1, <2>2
<1> QED
  BY <1>4, <1>5 DEF DirectoryInv

\* The stream goes on, and the files stay as they are.
LEMMA Proceeding ==
    ASSUME CollectionInv, DirectoryInv, files' = files, UNCHANGED <<owned, stored, next>>,
           \/ /\ stream = "report" /\ stream' = (IF files = <<>> THEN "publishing" ELSE "begin")
              /\ final' = final
           \/ stream = "begin" /\ stream' = "files" /\ final' = final
           \/ stream = "files" /\ next = Len(files) /\ stream' = "publishing" /\ final' = final
           \/ stream = "publishing" /\ ToSet(Metadata) \subseteq Names /\ stream' = "published"
           \/ stream = "publishing" /\ stream' = stream /\ final' = "foreign"
    PROVE  DirectoryInv'
<1>1. Names' = Names /\ \A n : Received(n)' = Received(n)
  BY DEF Names, Received
<1>2. files \in Seq(Entry) /\ Len(files) \in Nat
  BY FilesOf
<1>3. Received(0) = {} /\ (files = <<>> => Len(files) = 0)
  BY DEF Received
<1>4. stream # "aborted" /\ stream' \notin {"aborted", "failing", "filling", "writing"}
  OBVIOUS
<1>5. DirInv'
  BY <1>4 DEF DirectoryInv, DirInv
<1>6. StoredInv'
  <2>1. stream \notin {"failing", "aborted", "filling", "writing"}
    OBVIOUS
  <2> QED
    BY <1>4, <2>1 DEF DirectoryInv, StoredInv
<1>7. NamesInv'
  <2>1. CASE stream = "report"
    <3>1. Names' = {} /\ next' = 0 /\ final' # "ours" /\ stream' \in {"publishing", "begin"}
      BY <1>1, <2>1 DEF DirectoryInv, NamesInv
    <3>2. stream' = "publishing" => Received(Len(files)) = {}
      <4>1. stream' = "publishing" => files = <<>>
        BY <2>1
      <4> HIDE DEF Received
      <4> QED
        BY <1>3, <4>1
    <3>3. Received(Len(files))' = Received(Len(files))
      BY DEF Received
    <3> HIDE DEF Received, Names
    <3> QED
      BY <3>1, <3>2, <3>3 DEF NamesInv
  <2>2. CASE stream = "begin"
    <3>1. Names = {} /\ next = 0 /\ final' # "ours" /\ stream' = "files"
      BY <2>2 DEF DirectoryInv, NamesInv
    <3>2. Received(next)' = {}
      BY <3>1 DEF Received
    <3> QED
      BY <1>1, <1>2, <3>1, <3>2 DEF NamesInv
  <2>3. CASE stream = "files"
    BY <1>1, <1>2, <2>3 DEF DirectoryInv, NamesInv
  <2>4. CASE stream = "publishing"
    BY <1>1, <1>2, <2>4 DEF DirectoryInv, NamesInv
  <2> QED
    BY <2>1, <2>2, <2>3, <2>4
<1>8. AbortLeavesOnlyTheStuck'
  BY <1>4 DEF AbortLeavesOnlyTheStuck
<1> QED
  BY <1>5, <1>6, <1>7, <1>8 DEF DirectoryInv

\* The first missing directory is made: its parent is there, its children are not.
LEMMA Ensuring ==
    ASSUME CollectionInv, DirectoryInv, files' = files, EnsureDirectory(files)
    PROVE  DirectoryInv'
<1>a. /\ stream = "files" /\ stream' = "files" /\ next < Len(files) /\ next \in Nat
      /\ UNCHANGED <<stored, next, final>>
  BY DEF EnsureDirectory, Proceed, DirectoryInv, NamesInv
<1>b. files \in Seq(Entry) /\ DOMAIN files = 1..Len(files) /\ Len(files) \in Nat
  BY FilesOf
<1>c. next + 1 \in DOMAIN files
  BY <1>a, <1>b
<1>d. files[next + 1] \in Entry
  BY <1>b, <1>c, ElementOf
<1> DEFINE path == StoredPath(files[next + 1])
<1>e. path \in Name \ {<<>>}
  BY <1>d, StoredPathOf
<1>f. PICK d \in Above(path) : /\ d \notin ToSet(owned)
                              /\ \A e \in Above(path) : e \notin ToSet(owned) => Len(d) <= Len(e)
                              /\ owned' = Append(owned, d)
  BY DEF EnsureDirectory
<1> HIDE DEF path
<1>g. /\ owned \in Seq(Name) /\ <<>> \in ToSet(owned)
      /\ \A i \in DOMAIN owned : owned[i] # <<>> => DirectoryOf(owned[i]) \in ToSet(owned)
      /\ \A i, j \in DOMAIN owned : owned[i] # <<>> /\ DirectoryOf(owned[i]) = owned[j] => j < i
  BY <1>a DEF DirectoryInv, DirInv
<1>1. d \in Name /\ d # <<>> /\ DirectoryOf(d) \in Above(path) /\ Len(DirectoryOf(d)) < Len(d)
  BY <1>e, <1>f, <1>g, AboveOf
<1>2. DirectoryOf(d) \in ToSet(owned) /\ DirectoryOf(d) # d
  <2>1. DirectoryOf(d) \in Name /\ Len(DirectoryOf(d)) \in Nat /\ Len(d) \in Nat
    <3>1. DirectoryOf(d) \in Name
      BY <1>1, <1>e, AboveOf
    <3> QED
      BY <1>1, <3>1 DEF Name
  <2> QED
    BY <1>1, <1>f, <2>1
<1>3. /\ DOMAIN owned' = DOMAIN owned \cup {Len(owned) + 1} /\ owned'[Len(owned) + 1] = d
      /\ \A i \in DOMAIN owned : owned'[i] = owned[i] /\ i < Len(owned) + 1
  <2>1. \A i \in DOMAIN owned : i < Len(owned) + 1
    BY <1>g
  <2>2. owned \in Seq(Name) /\ d \in Name
    BY <1>1, <1>g
  <2>3. /\ DOMAIN Append(owned, d) = DOMAIN owned \cup {Len(owned) + 1}
        /\ Append(owned, d)[Len(owned) + 1] = d
        /\ \A i \in DOMAIN owned : Append(owned, d)[i] = owned[i]
    BY <2>2, AppendFacts
  <2>4. owned' = Append(owned, d)
    BY <1>f
  <2> QED
    BY <2>1, <2>3, <2>4
<1>4. owned' \in Seq(Name)
  BY <1>1, <1>f, <1>g
<1>5. ToSet(owned') = ToSet(owned) \cup {d}
  BY <1>3, SetOf
<1>6. \A i \in DOMAIN owned' : owned'[i] # <<>> => DirectoryOf(owned'[i]) \in ToSet(owned')
  BY <1>2, <1>3, <1>5, <1>g
<1>7. ASSUME NEW i \in DOMAIN owned', NEW j \in DOMAIN owned', owned'[i] # <<>>,
             DirectoryOf(owned'[i]) = owned'[j]
      PROVE  j < i
  <2>1. CASE i \in DOMAIN owned /\ j \in DOMAIN owned
    BY <1>3, <1>7, <1>g, <2>1
  <2>2. CASE i = Len(owned) + 1 /\ j \in DOMAIN owned
    BY <1>3, <2>2
  <2>3. CASE j = Len(owned) + 1
    <3>1. DirectoryOf(owned'[i]) = d
      BY <1>3, <1>7, <2>3
    <3>2. CASE i \in DOMAIN owned
      BY <1>3, <1>7, <1>f, <1>g, <3>1, <3>2
    <3>3. CASE i = Len(owned) + 1
      BY <1>2, <1>3, <3>1, <3>3
    <3> QED
      BY <1>3, <3>2, <3>3
  <2> QED
    BY <1>3, <2>1, <2>2, <2>3
<1>8. DirInv'
  BY <1>4, <1>5, <1>6, <1>7, <1>g DEF DirInv
<1>9. StoredInv'
  BY <1>5, <1>a DEF DirectoryInv, StoredInv
<1>10. NamesInv'
  <2>1. Names' = Names /\ \A n : Received(n)' = Received(n)
    BY <1>a DEF Names, Received
  <2> QED
    BY <1>a, <2>1 DEF DirectoryInv, NamesInv
<1>11. AbortLeavesOnlyTheStuck'
  BY <1>a DEF AbortLeavesOnlyTheStuck
<1> QED
  BY <1>8, <1>9, <1>10, <1>11 DEF DirectoryInv

\* Files are created where their directories are.
LEMMA Creating ==
    ASSUME CollectionInv, DirectoryInv, files' = files, OpenArtifact(files) \/ CreateMetadata(files)
    PROVE  DirectoryInv'
<1>a. /\ stream \in {"files", "publishing"} /\ stream' \in {"filling", "writing"}
      /\ stream = "files" <=> stream' = "filling"
      /\ UNCHANGED <<owned, next, final>>
  BY DEF OpenArtifact, CreateMetadata, Proceed
<1>b. files \in Seq(Entry) /\ DOMAIN files = 1..Len(files) /\ Len(files) \in Nat /\ next \in Nat
  BY FilesOf DEF DirectoryInv, NamesInv
<1>1. \E path \in Name \ {<<>>} :
          /\ Above(path) \subseteq ToSet(owned)
          /\ stored' = Append(stored, [path |-> path, whole |-> FALSE])
          /\ IF stream = "files" THEN next < Len(files) /\ path = StoredPath(files[next + 1])
             ELSE path \in ToSet(Metadata)
  <2>1. CASE OpenArtifact(files)
    <3>1. next < Len(files) /\ stream = "files"
      BY <2>1 DEF OpenArtifact, Proceed
    <3>2. next + 1 \in DOMAIN files
      BY <1>b, <3>1
    <3>3. files[next + 1] \in Entry
      BY <1>b, <3>2, ElementOf
    <3>4. StoredPath(files[next + 1]) \in Name \ {<<>>}
      BY <3>3, StoredPathOf
    <3> QED
      BY <2>1, <3>1, <3>4 DEF OpenArtifact
  <2>2. CASE CreateMetadata(files)
    <3>1. PICK i \in DOMAIN Metadata : stored' = Append(stored, [path |-> Metadata[i], whole |-> FALSE])
      BY <2>2 DEF CreateMetadata
    <3>2. stream = "publishing" /\ <<>> \in ToSet(owned)
      BY <2>2 DEF CreateMetadata, Proceed, DirectoryInv, DirInv
    <3>3. Metadata[i] \in Name \ {<<>>} /\ Above(Metadata[i]) = {<<>>} /\ Metadata[i] \in ToSet(Metadata)
      BY MetadataOf
    <3> QED
      BY <3>1, <3>2, <3>3
  <2> QED
    BY <2>1, <2>2
<1>2. PICK path \in Name \ {<<>>} :
          /\ Above(path) \subseteq ToSet(owned)
          /\ stored' = Append(stored, [path |-> path, whole |-> FALSE])
          /\ IF stream = "files" THEN next < Len(files) /\ path = StoredPath(files[next + 1])
             ELSE path \in ToSet(Metadata)
  BY <1>1
<1>3. /\ stored' \in Seq(File) /\ Len(stored') = Len(stored) + 1
      /\ DOMAIN stored' = DOMAIN stored \cup {Len(stored')}
      /\ stored'[Len(stored')].path = path
      /\ \A n \in DOMAIN stored : stored'[n] = stored[n]
      /\ Names' = Names \cup {path}
  BY <1>2, StoreOne DEF DirectoryInv, StoredInv
<1>4. \A n : Received(n)' = Received(n)
  BY DEF Received
<1>5. DirInv'
  BY <1>a DEF DirectoryInv, DirInv
<1>6. StoredInv'
  <2>1. \A n \in DOMAIN stored : stored[n].whole
    BY <1>a DEF DirectoryInv, StoredInv
  <2>2. \A n \in DOMAIN stored : Above(stored[n].path) \subseteq ToSet(owned)
    BY DEF DirectoryInv, StoredInv
  <2>3. \A n \in DOMAIN stored' : Above(stored'[n].path) \subseteq ToSet(owned')
    <3> HIDE DEF Above
    <3> QED
      BY <1>2, <1>3, <1>a, <2>2
  <2>4. \A n \in DOMAIN stored' : stored'[n].whole \/ n = Len(stored')
    BY <1>3, <2>1
  <2> QED
    BY <1>3, <1>a, <2>3, <2>4 DEF StoredInv
<1>7. NamesInv'
  <2>1. CASE stream = "files"
    <3>1. Names = Received(next) /\ path = StoredPath(files[next + 1]) /\ next < Len(files)
      BY <1>2, <2>1 DEF DirectoryInv, NamesInv
    <3>2. Received(next + 1) = Received(next) \cup {path}
      <4>1. \A n : n \in 1..(next + 1) <=> n \in 1..next \/ n = next + 1
        BY <1>b
      <4> QED
        BY <3>1, <4>1 DEF Received
    <3>3. stream' = "filling" /\ final # "ours"
      BY <1>a, <2>1 DEF DirectoryInv, NamesInv
    <3> QED
      BY <1>3, <1>4, <1>a, <1>b, <3>1, <3>2, <3>3 DEF NamesInv
  <2>2. CASE stream = "publishing"
    <3>1. /\ Received(Len(files)) \subseteq Names
          /\ Names \subseteq Received(Len(files)) \cup ToSet(Metadata)
          /\ path \in ToSet(Metadata) /\ final # "ours" /\ stream' = "writing"
      BY <1>2, <1>a, <2>2 DEF DirectoryInv, NamesInv
    <3> QED
      BY <1>3, <1>4, <1>a, <1>b, <3>1 DEF NamesInv
  <2> QED
    BY <1>a, <2>1, <2>2
<1>8. AbortLeavesOnlyTheStuck'
  BY <1>a DEF AbortLeavesOnlyTheStuck
<1> QED
  BY <1>5, <1>6, <1>7, <1>8 DEF DirectoryInv

\* A file that was created is filled.
LEMMA Completing ==
    ASSUME CollectionInv, DirectoryInv, files' = files, CloseArtifact \/ FillMetadata
    PROVE  DirectoryInv'
<1>a. /\ owned' = owned /\ final' = final /\ stored' = [stored EXCEPT ![Len(stored)].whole = TRUE]
      /\ \/ stream = "filling" /\ stream' = "files" /\ next' = next + 1
         \/ stream = "writing" /\ stream' = "publishing" /\ next' = next
  BY DEF CloseArtifact, FillMetadata, Proceed
<1>b. stored \in Seq(File) /\ next \in Nat /\ Len(files) \in Nat
  BY FilesOf DEF DirectoryInv, StoredInv, NamesInv
<1>c. \A n : Received(n)' = Received(n)
  BY DEF Received
<1>1. CASE stored = <<>>
  <2>1. DOMAIN stored' = DOMAIN stored /\ DOMAIN stored = {}
    BY <1>a, <1>1
  <2>2. Names = {} /\ stored' = <<>> /\ Names' = {}
    <3>1. stored' = <<>>
      BY <1>a, <1>1
    <3> QED
      BY <2>1, <3>1, SetOf, NamesOf DEF Names
  <2>3. stored' \in Seq(File)
    BY <1>b, <1>1, <2>2
  <2>4. StoredInv'
    BY <2>1, <2>3 DEF StoredInv
  <2>5. DirInv' /\ AbortLeavesOnlyTheStuck'
    BY <1>a DEF DirectoryInv, DirInv, AbortLeavesOnlyTheStuck
  <2>6. NamesInv'
    BY <1>a, <1>b, <1>c, <2>2 DEF DirectoryInv, NamesInv
  <2> QED
    BY <2>4, <2>5, <2>6 DEF DirectoryInv
<1>2. CASE stored # <<>>
  <2>1. /\ stored' \in Seq(File) /\ DOMAIN stored' = DOMAIN stored /\ Len(stored') = Len(stored)
        /\ stored'[Len(stored)].whole
        /\ \A n \in DOMAIN stored :
               /\ stored'[n].path = stored[n].path
               /\ n # Len(stored) => stored'[n].whole = stored[n].whole
        /\ Names' = Names
    BY <1>2, <1>a, <1>b, CompleteOne
  <2>2. \A n \in DOMAIN stored' : stored'[n].whole
    BY <1>a, <2>1 DEF DirectoryInv, StoredInv
  <2>3. \A n \in DOMAIN stored' : Above(stored'[n].path) \subseteq ToSet(owned')
    BY <1>a, <2>1 DEF DirectoryInv, StoredInv
  <2>4. StoredInv'
    BY <2>1, <2>2, <2>3 DEF StoredInv
  <2>5. DirInv' /\ AbortLeavesOnlyTheStuck'
    BY <1>a DEF DirectoryInv, DirInv, AbortLeavesOnlyTheStuck
  <2>6. NamesInv'
    BY <1>a, <1>b, <1>c, <2>1 DEF DirectoryInv, NamesInv
  <2> QED
    BY <2>4, <2>5, <2>6 DEF DirectoryInv
<1> QED
  BY <1>1, <1>2

\* What was created is removed, children first; a file that refuses keeps its directories.
LEMMA Aborting ==
    ASSUME DirectoryInv, Abort
    PROVE  DirectoryInv'
<1>a. /\ stream = "failing" /\ stream' = "aborted" /\ owned' = <<>> /\ stored' = <<>>
      /\ next' = next /\ final' = final
  BY DEF Abort, Proceed
<1>b. PICK kept \in {{}} \cup {{f} : f \in Names} :
          /\ stuck' = kept
          /\ remains' = Remaining(RemovalOrder, kept)
          /\ staging' = IF <<>> \in remains' THEN "left" ELSE "gone"
  BY DEF Abort
<1>c. /\ owned \in Seq(Name)
      /\ \A i, j \in DOMAIN owned : owned[i] # <<>> /\ DirectoryOf(owned[i]) = owned[j] => j < i
      /\ \A n \in DOMAIN stored : Above(stored[n].path) \subseteq ToSet(owned)
      /\ stored \in Seq(File)
  BY DEF DirectoryInv, DirInv, StoredInv
<1> DEFINE order == RemovalOrder
<1>1. /\ DOMAIN order = DOMAIN owned /\ order \in Seq(Name)
      /\ \A i \in DOMAIN order :
             Len(owned) - i + 1 \in DOMAIN owned /\ order[i] = owned[Len(owned) - i + 1]
  <2>1. DOMAIN owned = 1..Len(owned) /\ Len(owned) \in Nat
    BY <1>c
  <2>2. order = [i \in 1..Len(owned) |-> owned[Len(owned) - i + 1]]
    BY DEF RemovalOrder, Reverse
  <2>3. \A i \in 1..Len(owned) : Len(owned) - i + 1 \in 1..Len(owned)
    BY <2>1
  <2>4. \A i \in 1..Len(owned) : order[i] = owned[Len(owned) - i + 1]
    BY <2>2
  <2>5. \A i \in 1..Len(owned) : owned[i] \in Name
    BY <1>c, <2>1, ElementOf
  <2>6. order \in [1..Len(owned) -> Name]
    BY <2>2, <2>3, <2>5
  <2>7. order \in Seq(Name)
    <3> HIDE DEF order
    <3> QED
      BY <2>1, <2>6, ListOf
  <2> HIDE DEF order
  <2> QED
    BY <2>1, <2>3, <2>4, <2>6, <2>7
<1>2. ToSet(order) = ToSet(owned)
  <2>1. \A i \in DOMAIN order : order[i] \in ToSet(owned)
    BY <1>1, SetOf
  <2>2. \A i \in DOMAIN owned : owned[i] \in ToSet(order)
    <3> SUFFICES ASSUME NEW i \in DOMAIN owned PROVE owned[i] \in ToSet(order)
      OBVIOUS
    <3>1. Len(owned) - (Len(owned) - i + 1) + 1 = i /\ Len(owned) - i + 1 \in DOMAIN owned
      BY <1>c
    <3>2. order[Len(owned) - i + 1] = owned[i]
      BY <1>1, <3>1
    <3> HIDE DEF order
    <3> QED
      BY <1>1, <3>1, <3>2, SetOf
  <2> HIDE DEF order
  <2> QED
    BY <2>1, <2>2, SetOf
<1>3. \A i, j \in DOMAIN order : order[i] # <<>> /\ DirectoryOf(order[i]) = order[j] => i < j
  <2> SUFFICES ASSUME NEW i \in DOMAIN order, NEW j \in DOMAIN order, order[i] # <<>>,
                      DirectoryOf(order[i]) = order[j]
               PROVE  i < j
    OBVIOUS
  <2>1. Len(owned) - j + 1 < Len(owned) - i + 1
    BY <1>1, <1>c
  <2>2. i \in Nat /\ j \in Nat /\ Len(owned) \in Nat
    BY <1>1, <1>c
  <2> QED
    BY <2>1, <2>2
<1>4. kept \in SUBSET (Name \ {<<>>}) /\ \A f \in kept : Above(f) \subseteq ToSet(order)
  <2>1. \A f \in Names : f \in Name \ {<<>>} /\ Above(f) \subseteq ToSet(order)
    <3> SUFFICES ASSUME NEW n \in DOMAIN stored
                 PROVE  /\ stored[n].path \in Name \ {<<>>}
                        /\ Above(stored[n].path) \subseteq ToSet(order)
      BY NamesOf
    <3>1. stored[n] \in File
      BY <1>c, ElementOf
    <3> QED
      BY <1>2, <1>c, <3>1 DEF File
  <2> QED
    BY <1>b, <2>1
<1>5. remains' = UNION {Above(f) : f \in kept}
  <2> HIDE DEF order
  <2>1. Remaining(order, kept) = UNION {Above(f) : f \in kept}
    BY <1>1, <1>3, <1>4, RemainingAreAbove
  <2> QED
    BY <1>b, <2>1 DEF order
<1>6. staging' = IF kept = {} THEN "gone" ELSE "left"
  <2>1. kept # {} => <<>> \in remains'
    BY <1>4, <1>5, AboveOf
  <2> QED
    BY <1>5, <1>b, <2>1
<1>7. AbortLeavesOnlyTheStuck'
  BY <1>5, <1>6, <1>b DEF AbortLeavesOnlyTheStuck
<1>8. owned' \in Seq(Name) /\ stored' \in Seq(File) /\ DOMAIN owned' = {} /\ DOMAIN stored' = {}
  BY <1>a
<1>9. DirInv' /\ StoredInv'
  BY <1>8, <1>a DEF DirInv, StoredInv
<1>10. NamesInv'
  BY <1>a DEF DirectoryInv, NamesInv
<1> QED
  BY <1>7, <1>9, <1>10 DEF DirectoryInv

\* Every step keeps the directory in order.
LEMMA DirectoryStep ==
    CollectionInv /\ BundleInv /\ DirectoryInv /\ [DeliveryNext]_deliveryVars => DirectoryInv'
<1> SUFFICES ASSUME CollectionInv, BundleInv, DirectoryInv, [DeliveryNext]_deliveryVars
             PROVE  DirectoryInv'
  OBVIOUS
<1>1. CASE CollectStep /\ UNCHANGED destinationVars
  <2>1. CallInv
    BY DEF CollectionInv
  <2>2. \/ artifacts' = artifacts
        \/ caller # "returned"
    BY <1>1, <2>1, CollectAnswers
  <2>3. stream = "report" \/ files' = files
    BY <2>2 DEF BundleInv, files
  <2> QED
    BY <1>1, <2>3, DirectoryKept
<1>a. Deliver \/ Break \/ Interfere => files' = files
  BY DeliverKeepsCollection DEF files
<1>2. CASE SendReport
  <2>1. files' = files
    BY <1>2, <1>a DEF Deliver
  <2>2. stream = "report" /\ stream' = (IF files = <<>> THEN "publishing" ELSE "begin")
    BY <1>2 DEF SendReport, Proceed
  <2>3. UNCHANGED <<owned, stored, next>> /\ final' = final
    BY <1>2 DEF SendReport, stageVars
  <2> QED
    BY <2>1, <2>2, <2>3, Proceeding
<1>3. CASE ReportTooLarge \/ NamesRefused \/ PublishRefused \/ Break
  <2>1. stream' = "failing" /\ UNCHANGED stageVars /\ stream \notin {"aborted", "published"}
    BY <1>3 DEF ReportTooLarge, NamesRefused, BeginRefused, PublishRefused, Break, DestinationFails,
                Proceed
  <2> QED
    BY <2>1, Failing
<1>4. CASE Transfer
  <2>1. files' = files
    BY <1>4, <1>a DEF Deliver
  <2>2. CASE Begin(Storable)
    <3>1. /\ stream = "begin" /\ stream' = "files" /\ final' = final
          /\ UNCHANGED <<owned, stored, next>>
      BY <2>2 DEF Begin, Proceed
    <3> QED
      BY <2>1, <3>1, Proceeding
  <2> QED
    BY <1>4, <2>1, <2>2, Ensuring, Creating, Completing DEF Transfer
<1>5. CASE Finish
  <2>1. files' = files
    BY <1>5, <1>a DEF Deliver
  <2>2. /\ stream = "files" /\ next = Len(files) /\ stream' = "publishing" /\ final' = final
        /\ UNCHANGED <<owned, stored, next>>
    BY <1>5 DEF Finish, Commit, Proceed
  <2> QED
    BY <2>1, <2>2, Proceeding
<1>6. CASE Store
  <2>1. files' = files
    BY <1>6, <1>a DEF Deliver
  <2>2. CASE Publish
    <3>1. /\ stream = "publishing" /\ ToSet(Metadata) \subseteq Names /\ stream' = "published"
          /\ UNCHANGED <<owned, stored, next>>
      BY <2>2 DEF Publish, Proceed
    <3> QED
      BY <2>1, <3>1, Proceeding
  <2> QED
    BY <1>3, <1>6, <2>1, <2>2, Creating, Completing, Aborting DEF Store
<1>7. CASE Interfere
  <2>1. files' = files
    BY <1>7, <1>a
  <2>2. /\ stream = "publishing" /\ stream' = stream /\ final' = "foreign"
        /\ UNCHANGED <<owned, stored, next>>
    BY <1>7 DEF Interfere, Rival
  <2> QED
    BY <2>1, <2>2, Proceeding
<1>8. CASE UNCHANGED deliveryVars
  <2>1. files' = files /\ UNCHANGED destinationVars
    BY <1>8 DEF deliveryVars, collectVars, callVars, files
  <2> QED
    BY <2>1, DirectoryKept
<1> QED
  BY <1>1, <1>2, <1>3, <1>4, <1>5, <1>6, <1>7, <1>8 DEF DeliveryNext, Deliver

\* A directory in order is whole when it is published, and gone when it is removed.
LEMMA DirectoryIsWhole == CollectionInv /\ DirectoryInv => ResponseWhole
<1> SUFFICES ASSUME CollectionInv, DirectoryInv, final = "ours"
             PROVE  /\ Names = {StoredPath(f) : f \in ToSet(files)} \cup ToSet(Metadata)
                    /\ \A s \in ToSet(stored) : s.whole
                    /\ \A s \in ToSet(stored) : Above(s.path) \subseteq ToSet(owned)
  BY DEF ResponseWhole, PublishedIsWhole, PublishedWhole, DirectoryInv
<1>1. stream = "published"
  BY DEF DirectoryInv, NamesInv
<1>2. /\ Received(Len(files)) \subseteq Names /\ ToSet(Metadata) \subseteq Names
      /\ Names \subseteq Received(Len(files)) \cup ToSet(Metadata)
  BY <1>1 DEF DirectoryInv, NamesInv
<1>3. Received(Len(files)) = {StoredPath(f) : f \in ToSet(files)}
  BY FilesOf
<1>4. \A n \in DOMAIN stored : stored[n].whole /\ Above(stored[n].path) \subseteq ToSet(owned)
  BY <1>1 DEF DirectoryInv, StoredInv
<1>5. ToSet(stored) = {stored[n] : n \in DOMAIN stored}
  BY SetOf
<1> QED
  BY <1>2, <1>3, <1>4, <1>5

\* ResponseWhole: the response directory appears with everything the report lists, or what
\* stays is what could not be removed (Publish, Abort).
THEOREM ResponseIsWhole == DeliverySpec => []ResponseWhole
<1>1. DeliveryInit => CollectionInv /\ BundleInv /\ DirectoryInv
  BY CollectionInit, BundleInit, DirectoryInit DEF DeliveryInit
<1> QED
  BY <1>1, CollectionStep, BundleStep, DirectoryStep, DirectoryIsWhole, PTL DEF DeliverySpec
=============================================================================
