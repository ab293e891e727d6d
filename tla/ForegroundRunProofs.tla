------------------------- MODULE ForegroundRunProofs -------------------------
(***************************************************************************)
(* Proofs about ForegroundRun, for any limit of the capture and any amount *)
(* of output.                                                              *)
(***************************************************************************)
EXTENDS ForegroundRun, TLAPS

-----------------------------------------------------------------------------
(***************************************************************************)
(* The inductive invariant.                                                *)
(***************************************************************************)
Settled == {"finishing", "collecting", "reporting", "returned"}

\* The captures retain a prefix.
CaptureInv == retained = IF total < Limit THEN total ELSE Limit

\* There is an outcome as soon as the tree has ended.
ProcessInv ==
    /\ run = "launching" => tree = "none"
    /\ run \in {"launching", "awaiting"} => call["run"] = "idle"
    /\ tree \in {"none", "alive"} <=> outcome = "none"

\* The verdict, from the moment awaitProcess is left.
VerdictInv ==
    /\ run \in {"launching", "awaiting"} => status = "none"
    /\ run = "terminating" => status \in {"cancelled", "timed_out", "runtime_failed"}
    /\ run = "discarding" => status = "runtime_failed"
    /\ run \notin Settled => exitCode = "none" /\ ~safe
    /\ run \in Settled =>
          /\ status = "none" => run = "returned"
          /\ status \in {"completed", "failed"} => exitCode = outcome /\ call["run"] = "idle"
          /\ status = "completed" <=> exitCode = "zero"
          /\ status = "failed" <=> exitCode = "nonzero"
          /\ safe \/ status \notin {"none", "runtime_failed"} => Ended
    /\ status = "timed_out" => expired
    /\ status = "cancelled" => cancelled

\* The report is being made, or was.
Reported == run \in {"collecting", "reporting"} \/ result = "output"

\* The snapshot and the handles, from the end of the process to the return.
ReportInv ==
    /\ result = "none" <=> run # "returned"
    /\ run = "collecting" => safe
    /\ run \notin {"reporting", "returned"} =>
          bundle = "none" /\ manifest \in {"not_requested", "failed"}
    /\ run = "reporting" => (bundle = "open" <=> manifest = "files")
    /\ Reported /\ status # "runtime_failed" =>
          /\ status # "none"
          /\ snapshot = [total |-> total, retained |-> retained]

IInv == TypeOK /\ CaptureInv /\ ProcessInv /\ VerdictInv /\ ReportInv /\ BundleAccounted

-----------------------------------------------------------------------------
\* The initial state satisfies the invariant.
LEMMA InitInv == Init => IInv
<1> SUFFICES ASSUME Init PROVE IInv
  OBVIOUS
<1>1. requested \in BOOLEAN /\ cancelled \in BOOLEAN /\ expired \in BOOLEAN /\ safe \in BOOLEAN
  BY Zenon DEF Init
<1>2. TypeOK
  BY <1>1, RunAssumption DEF Init, TypeOK, NoSnapshot
<1>3. CaptureInv /\ ProcessInv
  BY RunAssumption DEF Init, CaptureInv, ProcessInv
<1>4. VerdictInv /\ ReportInv /\ BundleAccounted
  BY DEF Init, VerdictInv, ReportInv, BundleAccounted, Reported, Settled
<1> QED
  BY <1>2, <1>3, <1>4 DEF IInv

\* What a step of the process does to it, seen from the run.
LEMMA ProcessSteps ==
    ASSUME TypeOK
    PROVE  /\ Process!End => tree = "alive" /\ tree' = "reaped" /\ call' = call
           /\ Process!Signal => tree = "reaped" /\ tree' = "signalled" /\ call' = call
           /\ Process!Call("run") => /\ call["run"] = "idle" /\ tree' = tree
                                     /\ call' \in [{"run"} -> {"running"}]
           /\ Process!ReturnNil("run") => /\ tree = "signalled" /\ tree' = tree
                                          /\ call' \in [{"run"} -> {"nil"}]
           /\ Process!ReturnError("run") =>
                 /\ call["run"] = "running"
                 /\ call' \in [{"run"} -> {"error"}]
                 /\ tree' = tree \/ (tree = "alive" /\ tree' = "reaped")
BY DEF TypeOK, Process!End, Process!Signal, Process!Call, Process!ReturnNil,
       Process!ReturnError

\* Every step keeps the variables in their types.
LEMMA TypeStep == TypeOK /\ ProcessInv /\ [Next]_vars => TypeOK'
<1> SUFFICES ASSUME TypeOK, ProcessInv, [Next]_vars PROVE TypeOK'
  OBVIOUS
<1> USE RunAssumption DEF TypeOK, Step, processVars, captureVars, verdictVars, reportVars
<1>1. CASE TreeEnds \/ TreeSignals
  BY <1>1, ProcessSteps DEF TreeEnds, TreeSignals
<1>2. CASE CaptureWrites
  BY <1>2 DEF CaptureWrites
<1>3. CASE TimerFires \/ Cancel
  <2>1. expired' \in BOOLEAN /\ cancelled' \in BOOLEAN
    BY <1>3, Zenon DEF TimerFires, Cancel
  <2> QED
    BY <1>3, <2>1 DEF TimerFires, Cancel
<1>4. CASE Refuse \/ Launch \/ LaunchFails \/ LaunchHalfFails
  BY <1>4 DEF Refuse, Launch, LaunchFails, LaunchHalfFails
<1>5. CASE AwaitExit
  <2>1. safe' \in BOOLEAN
    BY <1>5, Zenon DEF AwaitExit
  <2> QED
    BY <1>5, <2>1 DEF AwaitExit, ProcessInv
<1>6. CASE AwaitCancel \/ AwaitTimeout \/ AwaitImpossible
  BY <1>6, ProcessSteps DEF AwaitCancel, AwaitTimeout, AwaitImpossible, Terminate
<1>7. CASE Terminated \/ TerminateFails
  <2>1. CASE Terminated
    <3>1. safe' \in BOOLEAN
      BY <2>1, Zenon DEF Terminated
    <3> QED
      BY <2>1, <3>1, ProcessSteps DEF Terminated
  <2>2. CASE TerminateFails
    <3>1. outcome' \in {"none", "zero", "nonzero", "unusable"}
      BY <2>2 DEF TerminateFails
    <3>2. tree' \in {"none", "alive", "reaped", "signalled"}
      BY <2>2, ProcessSteps DEF TerminateFails
    <3>3. call' \in [{"run"} -> {"idle", "running", "nil", "error"}]
      BY <2>2, ProcessSteps DEF TerminateFails
    <3> QED
      BY <2>2, <3>1, <3>2, <3>3 DEF TerminateFails
  <2> QED
    BY <1>7, <2>1, <2>2
<1>8. CASE ClockRegresses \/ Finish \/ CollectFails
  BY <1>8 DEF ClockRegresses, Finish, CollectFails
<1>9. ASSUME NEW files \in BOOLEAN, NEW handles \in BOOLEAN, NEW allowed \in BOOLEAN,
             Collect(files, handles, allowed)
      PROVE  TypeOK'
  BY <1>9 DEF Collect
<1>10. CASE Report \/ ReportWithoutArtifacts \/ ReportFails
  BY <1>10 DEF Report, ReportWithoutArtifacts, ReportFails
<1>11. CASE UNCHANGED vars
  BY <1>11 DEF vars
<1> QED
  BY <1>1, <1>2, <1>3, <1>4, <1>5, <1>6, <1>7, <1>8, <1>9, <1>10, <1>11 DEF Next, RunStep

\* Only the capture writes, and it keeps a prefix.
LEMMA CaptureStep == TypeOK /\ CaptureInv /\ [Next]_vars => CaptureInv'
<1> SUFFICES ASSUME TypeOK, CaptureInv, [Next]_vars PROVE CaptureInv'
  OBVIOUS
<1>1. CASE CaptureWrites
  BY <1>1, RunAssumption DEF CaptureWrites, CaptureInv, TypeOK
<1>2. CASE UNCHANGED <<total, retained>>
  BY <1>2 DEF CaptureInv
<1>3. ASSUME ~CaptureWrites PROVE UNCHANGED <<total, retained>>
  BY <1>3
     DEF Next, RunStep, TreeEnds, TreeSignals, TimerFires, Cancel, Refuse, Launch, LaunchFails,
         LaunchHalfFails, AwaitExit, AwaitCancel, AwaitTimeout, AwaitImpossible, Terminate,
         Terminated, TerminateFails, ClockRegresses, Finish, CollectFails, Collect, Report,
         ReportWithoutArtifacts, ReportFails, Step, captureVars, vars
<1> QED
  BY <1>1, <1>2, <1>3

\* The process and its outcome keep together.
LEMMA ProcessStep == TypeOK /\ ProcessInv /\ [Next]_vars => ProcessInv'
<1> SUFFICES ASSUME TypeOK, ProcessInv, [Next]_vars PROVE ProcessInv'
  OBVIOUS
<1> USE DEF TypeOK, ProcessInv, Step, processVars
<1>1. CASE TreeEnds \/ TreeSignals
  BY <1>1, ProcessSteps DEF TreeEnds, TreeSignals
<1>2. CASE CaptureWrites \/ TimerFires \/ Cancel
  BY <1>2 DEF CaptureWrites, TimerFires, Cancel
<1>3. CASE Refuse \/ Launch \/ LaunchFails \/ LaunchHalfFails
  BY <1>3 DEF Refuse, Launch, LaunchFails, LaunchHalfFails
<1>4. CASE AwaitCancel \/ AwaitTimeout \/ AwaitImpossible
  BY <1>4, ProcessSteps DEF AwaitCancel, AwaitTimeout, AwaitImpossible, Terminate
<1>5. CASE Terminated \/ TerminateFails
  BY <1>5, ProcessSteps DEF Terminated, TerminateFails
<1>6. CASE AwaitExit \/ ClockRegresses \/ Finish \/ CollectFails
  BY <1>6 DEF AwaitExit, ClockRegresses, Finish, CollectFails
<1>7. ASSUME NEW files \in BOOLEAN, NEW handles \in BOOLEAN, NEW allowed \in BOOLEAN,
             Collect(files, handles, allowed)
      PROVE  ProcessInv'
  BY <1>7 DEF Collect
<1>8. CASE Report \/ ReportWithoutArtifacts \/ ReportFails
  BY <1>8 DEF Report, ReportWithoutArtifacts, ReportFails
<1>9. CASE UNCHANGED vars
  BY <1>9 DEF vars
<1> QED
  BY <1>1, <1>2, <1>3, <1>4, <1>5, <1>6, <1>7, <1>8, <1>9 DEF Next, RunStep

\* A verdict, once given, stays true of what happens beside the run.
LEMMA VerdictStep == TypeOK /\ ProcessInv /\ VerdictInv /\ ReportInv /\ [Next]_vars => VerdictInv'
<1> SUFFICES ASSUME TypeOK, ProcessInv, VerdictInv, ReportInv, [Next]_vars PROVE VerdictInv'
  OBVIOUS
<1> USE DEF TypeOK, ProcessInv, VerdictInv, Settled, Ended, Step, processVars, verdictVars
<1>1. CASE TreeEnds \/ TreeSignals
  BY <1>1, ProcessSteps DEF TreeEnds, TreeSignals
<1>2. CASE CaptureWrites \/ TimerFires \/ Cancel
  BY <1>2 DEF CaptureWrites, TimerFires, Cancel
<1>3. CASE Refuse \/ Launch \/ LaunchFails \/ LaunchHalfFails
  BY <1>3 DEF Refuse, Launch, LaunchFails, LaunchHalfFails
<1>4. CASE AwaitExit
  BY <1>4 DEF AwaitExit
<1>5. CASE AwaitCancel \/ AwaitTimeout \/ AwaitImpossible
  BY <1>5, ProcessSteps DEF AwaitCancel, AwaitTimeout, AwaitImpossible, Terminate
<1>6. CASE Terminated
  BY <1>6, ProcessSteps DEF Terminated
<1>7. CASE TerminateFails
  BY <1>7, ProcessSteps DEF TerminateFails
<1>8. CASE ClockRegresses \/ Finish \/ CollectFails
  BY <1>8 DEF ClockRegresses, Finish, CollectFails
<1>9. ASSUME NEW files \in BOOLEAN, NEW handles \in BOOLEAN, NEW allowed \in BOOLEAN,
             Collect(files, handles, allowed)
      PROVE  VerdictInv'
  BY <1>9 DEF Collect
<1>10. CASE Report \/ ReportWithoutArtifacts \/ ReportFails
  BY <1>10 DEF Report, ReportWithoutArtifacts, ReportFails
<1>11. CASE UNCHANGED vars
  BY <1>11 DEF vars
<1> QED
  BY <1>1, <1>2, <1>3, <1>4, <1>5, <1>6, <1>7, <1>8, <1>9, <1>10, <1>11 DEF Next, RunStep

\* The snapshot stays that of the captures, and each way out of the
\* collection closes or hands over the handles.
LEMMA ReportStep ==
    TypeOK /\ ProcessInv /\ VerdictInv /\ ReportInv /\ BundleAccounted /\ [Next]_vars
        => ReportInv' /\ BundleAccounted'
<1> SUFFICES ASSUME TypeOK, ProcessInv, VerdictInv, ReportInv, BundleAccounted, [Next]_vars
             PROVE  ReportInv' /\ BundleAccounted'
  OBVIOUS
<1> USE DEF TypeOK, ReportInv, BundleAccounted, Reported, Step, processVars, captureVars,
            verdictVars, reportVars
<1>1. CASE TreeEnds \/ TreeSignals
  BY <1>1 DEF TreeEnds, TreeSignals
<1>2. CASE CaptureWrites
  <2>1. ~(Reported /\ status # "runtime_failed")
    BY <1>2 DEF CaptureWrites, VerdictInv, Ended, Settled
  <2> QED
    BY <1>2, <2>1 DEF CaptureWrites
<1>3. CASE TimerFires \/ Cancel
  BY <1>3 DEF TimerFires, Cancel
<1>4. CASE Refuse \/ Launch \/ LaunchFails \/ LaunchHalfFails
  BY <1>4 DEF Refuse, Launch, LaunchFails, LaunchHalfFails
<1>5. CASE AwaitExit \/ AwaitCancel \/ AwaitTimeout \/ AwaitImpossible
  BY <1>5 DEF AwaitExit, AwaitCancel, AwaitTimeout, AwaitImpossible, Terminate
<1>6. CASE Terminated \/ TerminateFails
  BY <1>6 DEF Terminated, TerminateFails
<1>7. CASE ClockRegresses
  BY <1>7 DEF ClockRegresses
<1>8. CASE Finish
  BY <1>8 DEF Finish, VerdictInv, Settled
<1>9. CASE CollectFails
  BY <1>9 DEF CollectFails
<1>10. ASSUME NEW files \in BOOLEAN, NEW handles \in BOOLEAN, NEW allowed \in BOOLEAN,
              Collect(files, handles, allowed)
       PROVE  ReportInv' /\ BundleAccounted'
  BY <1>10 DEF Collect
<1>11. CASE Report \/ ReportWithoutArtifacts \/ ReportFails
  BY <1>11 DEF Report, ReportWithoutArtifacts, ReportFails
<1>12. CASE UNCHANGED vars
  BY <1>12 DEF vars
<1> QED
  BY <1>1, <1>2, <1>3, <1>4, <1>5, <1>6, <1>7, <1>8, <1>9, <1>10, <1>11, <1>12
     DEF Next, RunStep

\* The invariant holds in every reachable state.
LEMMA Invariant == Spec => []IInv
<1>1. IInv /\ [Next]_vars => IInv'
  BY TypeStep, CaptureStep, ProcessStep, VerdictStep, ReportStep DEF IInv
<1> QED
  BY InitInv, <1>1, PTL DEF Spec

-----------------------------------------------------------------------------
(***************************************************************************)
(* The theorems.                                                           *)
(***************************************************************************)
\* Every variable of a run stays in its type (runForeground).
THEOREM TypeCorrect == Spec => []TypeOK
BY Invariant, PTL DEF IInv

\* Nothing is collected beside the workload, and the verdict a report names
\* is what happened (awaitProcess, runForeground).
THEOREM VerdictsTrue == Spec => []VerdictTrue
<1>1. IInv => VerdictTrue
  BY DEF IInv, TypeOK, VerdictInv, ReportInv, VerdictTrue, CollectsAfterTheEnd, Ended, Settled,
         Reported
<1> QED
  BY Invariant, <1>1, PTL

\* The report of a tree that has ended covers all its output, of which the
\* captures retained a prefix (outputcapture).
THEOREM OutputsWhole == Spec => []OutputIsWhole
<1>1. IInv => OutputIsWhole
  BY DEF IInv, CaptureInv, ReportInv, OutputIsWhole, Reported
<1> QED
  BY Invariant, <1>1, PTL

\* The handles of the artifacts are open in exactly the output that lists
\* files (collectArtifacts, Run).
THEOREM BundlesAccounted == Spec => []BundleAccounted
BY Invariant, PTL DEF IInv
=============================================================================
