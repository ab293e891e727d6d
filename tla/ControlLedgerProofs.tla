------------------------- MODULE ControlLedgerProofs -------------------------
(***************************************************************************)
(* Proofs about ControlLedger, for any number of issues, request           *)
(* identities, digests and run attempts, beside any edit of the control    *)
(* repository.                                                             *)
(***************************************************************************)
EXTENDS ControlLedger, TLAPS

-----------------------------------------------------------------------------
(***************************************************************************)
(* The inductive invariant.                                                *)
(***************************************************************************)
\* One job of a run is running at most, and the step is one of its own.
StepInv == \A r \in Runs :
    /\ \A j \in Jobs : Running(r, j) => \A n \in Needs[j] : job[r][n] = "succeeded"
    /\ step[r] = "none" => \A j \in Jobs : ~Running(r, j)
    /\ step[r] # "none" => attempt[r] > 0
    /\ step[r] = "accept" => Running(r, "accept")
    /\ step[r] = "call" => Running(r, "execute")
    /\ step[r] = "download" => Running(r, "finalize")
    /\ step[r] \in {"verify", "create"} => Running(r, "accept") \/ Running(r, "finalize")

\* The output a run keeps is the record it created.
GrantInv == \A r \in Runs :
    /\ job[r]["accept"] = "succeeded" => output[r] # None
    /\ output[r] # None => /\ accepted[output[r].id] = output[r]
                           /\ output[r].run = r
                           /\ output[r].attempt =< attempt[r]

\* A result record tells of an execution of the accepted request.
Reports(new) ==
    \E e \in executed :
        /\ e.id = new.id /\ e.grant = accepted[new.id]
        /\ new.digest = e.digest
        /\ new.run = e.grant.run
        /\ new.executed = e.attempt
        /\ new.attempt = e.attempt.attempt
        /\ new.attempt >= e.grant.attempt

\* What a job is about to publish.
RecordInv == \A r \in Runs : step[r] \in {"verify", "create"} =>
    /\ Running(r, "accept") => event[r] \in Requests /\ record[r] = AcceptedOf(r)
    /\ Running(r, "finalize") =>
          record[r] \in ResultRecord /\ record[r].run = r /\ Reports(record[r])

\* A response goes back to an execution.
ResponseInv == \A r \in Runs : \A s \in responses[r] :
    \E e \in executed : /\ e.grant = s.accepted /\ e.attempt = s.attempt
                        /\ e.id = s.accepted.id /\ e.digest = s.accepted.digest

ResultInv == \A q \in RequestIds : result[q] # None => result[q].id = q /\ Reports(result[q])

IInv == /\ LedgerTypeOK /\ StepInv /\ GrantInv /\ RecordInv /\ ResponseInv
        /\ ResultInv /\ ExecutionIsGranted /\ SuccessIsPublished

-----------------------------------------------------------------------------
\* A record is not the absence of one.
LEMMA Records ==
    /\ \A a \in AcceptedRecord : a # None
    /\ \A a \in ResultRecord : a # None
BY LedgerAssumption

\* What the end of a job does to the jobs of its run and of the others.
LEMMA EndJobEffect ==
    ASSUME LedgerTypeOK, NEW r \in Runs, NEW status \in {"succeeded", "failed"},
           EndJob(r, status)
    PROVE  /\ job' \in [Runs -> [Jobs -> Statuses]]
           /\ step' \in [Runs -> Steps]
           /\ record' \in [Runs -> AcceptedRecord \cup ResultRecord \cup {None}]
           /\ step'[r] = "none"
           /\ \A p \in Runs \ {r} : /\ job'[p] = job[p] /\ step'[p] = step[p]
                                    /\ record'[p] = record[p]
           /\ \A j \in Jobs :
                 /\ job'[r][j] # "running"
                 /\ job[r][j] = "succeeded" => job'[r][j] = "succeeded"
                 /\ job'[r][j] = "succeeded" =>
                       job[r][j] = "succeeded" \/ (Running(r, j) /\ status = "succeeded")
BY DEF LedgerTypeOK, EndJob, Statuses, Steps, Running

\* The initial state satisfies the invariant.
LEMMA InitInv == Init => IInv
<1> SUFFICES ASSUME JobInit PROVE IInv
  BY DEF Init
<1>1. LedgerTypeOK
  BY LedgerAssumption DEF JobInit, LedgerTypeOK, Untouched, Statuses, Steps
<1>2. StepInv /\ GrantInv /\ RecordInv /\ ResponseInv /\ ResultInv
  BY DEF JobInit, StepInv, GrantInv, RecordInv, ResponseInv, ResultInv, Running, Untouched, Jobs
<1>3. ExecutionIsGranted /\ SuccessIsPublished
  BY DEF JobInit, ExecutionIsGranted, SuccessIsPublished, Untouched, Jobs
<1> QED
  BY <1>1, <1>2, <1>3 DEF IInv

\* The result record a response makes is one.
LEMMA ResultOfType ==
    ASSUME LedgerTypeOK, NEW r \in Runs, NEW s \in responses[r], attempt[r] \in Attempts
    PROVE  ResultOf(r, s) \in ResultRecord
<1>1. s \in Response
  BY DEF LedgerTypeOK
<1> QED
  BY <1>1 DEF ResultOf, ResultRecord, Response, AcceptedRecord

\* A job runs in an attempt of its run.
LEMMA Attempting ==
    ASSUME LedgerTypeOK, StepInv, NEW r \in Runs, step[r] # "none"
    PROVE  attempt[r] \in Attempts
BY LedgerAssumption DEF LedgerTypeOK, StepInv, Attempts

\* The record an event makes is one.
LEMMA AcceptedOfType ==
    ASSUME LedgerTypeOK, NEW r \in Runs, event[r] \in Requests, attempt[r] \in Attempts
    PROVE  AcceptedOf(r) \in AcceptedRecord
BY DEF AcceptedOf, AcceptedRecord, Requests

\* Every step of the workflow keeps the variables in their types.
LEMMA TypeStep ==
    ASSUME LedgerTypeOK, StepInv, GrantInv, RecordInv, JobNext
    PROVE  LedgerTypeOK'
<1> PICK r \in Runs : \/ JobStep(r) \/ HostedClockCatchesUp(r)
                     \/ \E again \in RerunSets(r) : again # {} /\ Rerun(r, again)
  BY DEF JobNext
<1> USE DEF LedgerTypeOK
<1>0. attempt[r] > 0 => attempt[r] \in Attempts
  BY LedgerAssumption DEF Attempts
<1>1. CASE Trigger(r)
  BY <1>1, LedgerAssumption DEF Trigger, ledgerVars
<1>2. ASSUME NEW j \in Jobs, StartJob(r, j) PROVE LedgerTypeOK'
  <2>1. job' \in [Runs -> [Jobs -> Statuses]] /\ step' \in [Runs -> Steps]
    BY <1>2 DEF StartJob, Statuses, Steps, FirstStep, Jobs
  <2> QED
    BY <1>2, <2>1 DEF StartJob, ledgerVars
<1>3. CASE AcceptEvent(r)
  <2>1. AcceptedOf(r) \in AcceptedRecord
    BY <1>0, <1>3 DEF AcceptEvent, AcceptedOf, AcceptedRecord, StepInv, Requests
  <2> QED
    BY <1>3, <2>1 DEF AcceptEvent, Steps, ledgerVars
<1>4. CASE VerifyPrivate(r)
  BY <1>4 DEF VerifyPrivate, Steps, ledgerVars
<1>5. ASSUME NEW answered \in BOOLEAN, CreateAccepted(r, answered) PROVE LedgerTypeOK'
  <2>1. record[r] \in AcceptedRecord
    BY <1>0, <1>5
       DEF CreateAccepted, RecordInv, AcceptedOf, AcceptedRecord, StepInv, Requests, Running
  <2>2. accepted' \in [RequestIds -> AcceptedRecord \cup {None}]
    BY <1>5, <2>1 DEF CreateAccepted, Create, AcceptedRecord
  <2>3. output' \in [Runs -> AcceptedRecord \cup {None}]
    BY <1>5, <2>1 DEF CreateAccepted
  <2> QED
    BY <1>5, <2>2, <2>3, EndJobEffect DEF CreateAccepted
<1>6. ASSUME NEW answered \in BOOLEAN, CreateResult(r, answered) PROVE LedgerTypeOK'
  <2>1. record[r] \in ResultRecord
    BY <1>6 DEF CreateResult, RecordInv
  <2>2. result' \in [RequestIds -> ResultRecord \cup {None}]
    BY <1>6, <2>1 DEF CreateResult, Create, ResultRecord
  <2> QED
    BY <1>6, <2>2, EndJobEffect DEF CreateResult
<1>7. ASSUME NEW returned \in BOOLEAN, NEW ahead \in BOOLEAN, Execute(r, returned, ahead)
      PROVE  LedgerTypeOK'
  <2>1. output[r] \in AcceptedRecord
    BY <1>7 DEF Execute, StepInv, GrantInv, Needs, Running, Jobs
  <2>2. AttemptOf(r) \in AttemptId
    BY <1>0, <1>7 DEF Execute, StepInv, AttemptOf, AttemptId
  <2>3. executed' \subseteq Execution
    BY <1>7, <2>1, <2>2 DEF Execute, Execution, AcceptedRecord
  <2>4. responses' \in [Runs -> SUBSET Response]
    BY <1>7, <2>1, <2>2 DEF Execute, Response
  <2> QED
    BY <1>7, <2>3, <2>4, EndJobEffect DEF Execute, ledgerVars
<1>8. CASE HostedClockCatchesUp(r)
  <2>1. responses' \in [Runs -> SUBSET Response]
    <3>1. ASSUME NEW s \in Response PROVE [s EXCEPT !.ahead = FALSE] \in Response
      BY Zenon DEF Response
    <3>2. {[s EXCEPT !.ahead = FALSE] : s \in responses[r]} \in SUBSET Response
      BY <3>1, responses[r] \in SUBSET Response
    <3> QED
      BY <1>8, <3>2 DEF HostedClockCatchesUp
  <2> QED
    BY <1>8, <2>1 DEF HostedClockCatchesUp, ledgerVars
<1>9. CASE Finalize(r)
  <2>1. PICK s \in responses[r] : record' = [record EXCEPT ![r] = ResultOf(r, s)]
    BY <1>9 DEF Finalize
  <2>2. ResultOf(r, s) \in ResultRecord
    BY <1>0, <1>9, ResultOfType DEF Finalize, StepInv
  <2> QED
    BY <1>9, <2>1, <2>2 DEF Finalize, Steps, ledgerVars
<1>10. CASE FailJob(r)
  BY <1>10, EndJobEffect DEF FailJob, ledgerVars
<1>11. ASSUME NEW again, Rerun(r, again) PROVE LedgerTypeOK'
  <2>1. attempt' \in [Runs -> 0..MaxAttempts]
    BY <1>11, LedgerAssumption DEF Rerun
  <2>2. job' \in [Runs -> [Jobs -> Statuses]] /\ output' \in [Runs -> AcceptedRecord \cup {None}]
    BY <1>11 DEF Rerun, Statuses
  <2> QED
    BY <1>11, <2>1, <2>2 DEF Rerun, ledgerVars
<1> QED
  BY <1>1, <1>2, <1>3, <1>4, <1>5, <1>6, <1>7, <1>8, <1>9, <1>10, <1>11 DEF JobStep

\* Every step of the workflow keeps its jobs in order.
LEMMA StepStep ==
    ASSUME LedgerTypeOK, StepInv, JobNext
    PROVE  StepInv'
<1> PICK r \in Runs : \/ JobStep(r) \/ HostedClockCatchesUp(r)
                     \/ \E again \in RerunSets(r) : again # {} /\ Rerun(r, again)
  BY DEF JobNext
<1> USE DEF LedgerTypeOK, StepInv, Running, Needs, Jobs
<1>1. CASE Trigger(r)
  BY <1>1 DEF Trigger
<1>2. ASSUME NEW j \in Jobs, StartJob(r, j) PROVE StepInv'
  BY <1>2 DEF StartJob, FirstStep
<1>3. CASE AcceptEvent(r) \/ VerifyPrivate(r) \/ Finalize(r)
  BY <1>3 DEF AcceptEvent, VerifyPrivate, Finalize
<1>4. ASSUME NEW status \in {"succeeded", "failed"}, EndJob(r, status), UNCHANGED attempt
      PROVE  StepInv'
  BY <1>4, EndJobEffect
<1>5. ASSUME NEW answered \in BOOLEAN, CreateAccepted(r, answered) PROVE StepInv'
  BY <1>4, <1>5 DEF CreateAccepted
<1>6. ASSUME NEW answered \in BOOLEAN, CreateResult(r, answered) PROVE StepInv'
  BY <1>4, <1>6 DEF CreateResult
<1>7. ASSUME NEW returned \in BOOLEAN, NEW ahead \in BOOLEAN, Execute(r, returned, ahead)
      PROVE  StepInv'
  BY <1>4, <1>7 DEF Execute
<1>8. CASE HostedClockCatchesUp(r)
  BY <1>8 DEF HostedClockCatchesUp
<1>9. CASE FailJob(r)
  BY <1>4, <1>9 DEF FailJob
<1>10. ASSUME NEW again, Rerun(r, again) PROVE StepInv'
  BY <1>10 DEF Rerun, Complete
<1> QED
  BY <1>1, <1>2, <1>3, <1>5, <1>6, <1>7, <1>8, <1>9, <1>10 DEF JobStep

\* A record is created only where there was none, and executions are only
\* added.
LEMMA LedgerGrows ==
    ASSUME LedgerTypeOK, JobNext
    PROVE  /\ \A q \in RequestIds : /\ accepted[q] # None => accepted'[q] = accepted[q]
                                    /\ result[q] # None => result'[q] = result[q]
           /\ executed \subseteq executed'
BY DEF JobNext, JobStep, Trigger, StartJob, AcceptEvent, VerifyPrivate, CreateAccepted, CreateResult,
       Create, Execute, Finalize, FailJob, HostedClockCatchesUp, Rerun, ledgerVars, LedgerTypeOK

\* What was reported once stays reported.
LEMMA ReportsStay ==
    ASSUME LedgerTypeOK, ExecutionIsGranted, JobNext, NEW new, Reports(new)
    PROVE  Reports(new)'
<1>1. PICK e \in executed :
        /\ e.id = new.id /\ e.grant = accepted[new.id]
        /\ new.digest = e.digest
        /\ new.run = e.grant.run
        /\ new.executed = e.attempt
        /\ new.attempt = e.attempt.attempt
        /\ new.attempt >= e.grant.attempt
  BY DEF Reports
<1>2. e.grant \in AcceptedRecord /\ e.id \in RequestIds
  BY DEF LedgerTypeOK, Execution
<1>3. accepted'[new.id] = e.grant /\ e \in executed'
  BY <1>1, <1>2, LedgerGrows, Records DEF ExecutionIsGranted
<1>4. e.grant = accepted'[new.id]
  BY <1>3
<1> QED
  BY <1>1, <1>3, <1>4, Zenon DEF Reports

\* The output of a run stays what it created.
LEMMA GrantStep ==
    ASSUME LedgerTypeOK, StepInv, GrantInv, RecordInv, JobNext
    PROVE  GrantInv'
<1> PICK r \in Runs : \/ JobStep(r) \/ HostedClockCatchesUp(r)
                     \/ \E again \in RerunSets(r) : again # {} /\ Rerun(r, again)
  BY DEF JobNext
<1>1. ASSUME UNCHANGED <<output, attempt>>,
             \A p \in Runs : job'[p]["accept"] = "succeeded" => job[p]["accept"] = "succeeded"
      PROVE  GrantInv'
  <2> SUFFICES ASSUME NEW p \in Runs, output[p] # None
               PROVE  accepted'[output[p].id] = output[p]
    BY <1>1 DEF GrantInv
  <2>1. output[p].id \in RequestIds /\ accepted[output[p].id] # None
    BY DEF LedgerTypeOK, GrantInv, AcceptedRecord
  <2> QED
    BY <2>1, LedgerGrows DEF GrantInv
<1>2. ASSUME NEW status \in {"succeeded", "failed"}, EndJob(r, status),
             status = "failed" \/ ~Running(r, "accept"), UNCHANGED <<output, attempt>>
      PROVE  GrantInv'
  BY <1>1, <1>2, EndJobEffect DEF Jobs
<1>3. CASE Trigger(r)
  BY <1>3 DEF Trigger, GrantInv, LedgerTypeOK, AcceptedRecord, Attempts, ledgerVars
<1>4. ASSUME NEW j \in Jobs, StartJob(r, j) PROVE GrantInv'
  BY <1>1, <1>4 DEF StartJob, LedgerTypeOK
<1>5. CASE AcceptEvent(r) \/ VerifyPrivate(r) \/ Finalize(r) \/ HostedClockCatchesUp(r)
  BY <1>1, <1>5 DEF AcceptEvent, VerifyPrivate, Finalize, HostedClockCatchesUp
<1>6. ASSUME CreateAccepted(r, FALSE) PROVE GrantInv'
  BY <1>2, <1>6 DEF CreateAccepted
<1>7. ASSUME CreateAccepted(r, TRUE) PROVE GrantInv'
  <2>1. record[r] = AcceptedOf(r) /\ event[r] \in Requests
    BY <1>7 DEF CreateAccepted, RecordInv
  <2>2. accepted' = [accepted EXCEPT ![record[r].id] = record[r]] /\ record[r].id \in RequestIds
    BY <1>7, <2>1 DEF CreateAccepted, Create, AcceptedOf, Requests
  <2>3. output' = [output EXCEPT ![r] = record[r]] /\ EndJob(r, "succeeded") /\ attempt' = attempt
    BY <1>7 DEF CreateAccepted
  <2>4. accepted'[output'[r].id] = output'[r] /\ output'[r].run = r /\ output'[r].attempt = attempt[r]
    BY <2>1, <2>2, <2>3 DEF LedgerTypeOK, AcceptedOf
  <2>5. ASSUME NEW p \in Runs \ {r}, output[p] # None PROVE accepted'[output[p].id] = output[p]
    <3>1. output[p].id \in RequestIds /\ accepted[output[p].id] # None
      BY <2>5 DEF LedgerTypeOK, GrantInv, AcceptedRecord
    <3> QED
      BY <2>5, <3>1, LedgerGrows DEF GrantInv
  <2>6. output'[r] # None
    <3>1. AcceptedOf(r) \in AcceptedRecord
      BY <1>7, <2>1, Attempting, AcceptedOfType DEF CreateAccepted
    <3> QED
      BY <2>1, <2>3, <3>1, Records DEF LedgerTypeOK
  <2> QED
    BY <2>3, <2>4, <2>5, <2>6, EndJobEffect DEF GrantInv, LedgerTypeOK
<1>8. ASSUME NEW answered \in BOOLEAN, CreateResult(r, answered) PROVE GrantInv'
  <2>1. ~Running(r, "accept")
    BY <1>8 DEF CreateResult, StepInv, Running, Needs, Jobs
  <2> QED
    BY <1>2, <1>8, <2>1 DEF CreateResult
<1>9. ASSUME NEW returned \in BOOLEAN, NEW ahead \in BOOLEAN, Execute(r, returned, ahead)
      PROVE  GrantInv'
  <2>1. ~Running(r, "accept")
    BY <1>9 DEF Execute, StepInv, Running, Needs, Jobs
  <2> QED
    BY <1>2, <1>9, <2>1 DEF Execute
<1>10. CASE FailJob(r)
  BY <1>2, <1>10 DEF FailJob
<1>11. ASSUME NEW again, Rerun(r, again) PROVE GrantInv'
  BY <1>11 DEF Rerun, GrantInv, LedgerTypeOK, AcceptedRecord, Attempts, Jobs, ledgerVars
<1> QED
  BY <1>3, <1>4, <1>5, <1>6, <1>7, <1>8, <1>9, <1>10, <1>11 DEF JobStep

\* What a job of another run does, and the end of the own one, leaves a
\* record alone that is about to be published.
LEMMA RecordStep ==
    ASSUME LedgerTypeOK, StepInv, GrantInv, RecordInv, ResponseInv, ExecutionIsGranted, JobNext
    PROVE  RecordInv'
<1> PICK r \in Runs : \/ JobStep(r) \/ HostedClockCatchesUp(r)
                     \/ \E again \in RerunSets(r) : again # {} /\ Rerun(r, again)
  BY DEF JobNext
<1> DEFINE Intact(p) == /\ record'[p] = record[p] /\ event'[p] = event[p]
                        /\ attempt'[p] = attempt[p] /\ job'[p] = job[p]
           Good(p) == step[p] \in {"verify", "create"} =>
                /\ Running(p, "accept") => event[p] \in Requests /\ record[p] = AcceptedOf(p)
                /\ Running(p, "finalize") =>
                      record[p] \in ResultRecord /\ record[p].run = p /\ Reports(record[p])
<1>0. SUFFICES \A p \in Runs : Good(p)'
  BY DEF RecordInv
<1>1. ASSUME NEW p \in Runs, Intact(p), step'[p] \in {"verify", "create"} => step[p] \in {"verify", "create"}
      PROVE  Good(p)'
  <2>1. AcceptedOf(p)' = AcceptedOf(p)
    BY <1>1 DEF AcceptedOf
  <2>2. Reports(record[p]) => Reports(record[p])'
    BY <1>1, ReportsStay
  <2> QED
    BY <1>1, <2>1, <2>2 DEF RecordInv, Running
<1>2. ASSUME NEW status \in {"succeeded", "failed"}, EndJob(r, status),
             UNCHANGED <<event, attempt>>
      PROVE  \A p \in Runs : Good(p)'
  BY <1>1, <1>2, EndJobEffect
<1>3. CASE Trigger(r)
  BY <1>1, <1>3 DEF Trigger, StepInv, LedgerTypeOK
<1>4. ASSUME NEW j \in Jobs, StartJob(r, j) PROVE \A p \in Runs : Good(p)'
  <2>1. step'[r] \notin {"verify", "create"}
    BY <1>4 DEF StartJob, FirstStep, Jobs, LedgerTypeOK
  <2> QED
    BY <1>1, <1>4, <2>1 DEF StartJob, LedgerTypeOK
<1>5. CASE AcceptEvent(r)
  <2>1. Good(r)'
    <3>1. Running(r, "accept") /\ job' = job /\ event' = event /\ attempt' = attempt
      BY <1>5 DEF AcceptEvent, StepInv
    <3>2. ~Running(r, "finalize")
      BY <3>1 DEF StepInv, Running, Needs, Jobs
    <3> QED
      BY <1>5, <3>1, <3>2 DEF AcceptEvent, AcceptedOf, Running, LedgerTypeOK
  <2> QED
    BY <1>1, <1>5, <2>1 DEF AcceptEvent, LedgerTypeOK
<1>6. CASE VerifyPrivate(r)
  BY <1>1, <1>6 DEF VerifyPrivate, LedgerTypeOK
<1>7. ASSUME NEW answered \in BOOLEAN, CreateAccepted(r, answered)
      PROVE  \A p \in Runs : Good(p)'
  BY <1>2, <1>7 DEF CreateAccepted
<1>8. ASSUME NEW answered \in BOOLEAN, CreateResult(r, answered)
      PROVE  \A p \in Runs : Good(p)'
  BY <1>2, <1>8 DEF CreateResult
<1>9. ASSUME NEW returned \in BOOLEAN, NEW ahead \in BOOLEAN, Execute(r, returned, ahead)
      PROVE  \A p \in Runs : Good(p)'
  BY <1>2, <1>9 DEF Execute
<1>10. CASE HostedClockCatchesUp(r)
  BY <1>1, <1>10 DEF HostedClockCatchesUp
<1>11. CASE Finalize(r)
  <2>1. PICK s \in responses[r] : /\ s.attempt.attempt = attempt[r]
                                  /\ ResultBinds(s.accepted, s, r)
                                  /\ record' = [record EXCEPT ![r] = ResultOf(r, s)]
    BY <1>11 DEF Finalize
  <2>2. PICK e \in executed : /\ e.grant = s.accepted /\ e.attempt = s.attempt
                              /\ e.id = s.accepted.id /\ e.digest = s.accepted.digest
    BY <2>1 DEF ResponseInv
  <2>3. accepted[e.id] = e.grant
    BY DEF ExecutionIsGranted
  <2> PICK new : new = ResultOf(r, s)
    OBVIOUS
  <2>4. Reports(new)
    BY <2>1, <2>2, <2>3 DEF Reports, ResultOf, ResultBinds
  <2>5. new \in ResultRecord /\ new.run = r
    <3>1. attempt[r] \in Attempts
      BY <1>11, Attempting DEF Finalize
    <3> QED
      BY <3>1, ResultOfType DEF ResultOf
  <2>6. Running(r, "finalize") /\ job' = job
    BY <1>11 DEF Finalize, StepInv
  <2>7. ~Running(r, "accept")
    BY <2>6 DEF StepInv, Running, Needs, Jobs
  <2>8. record'[r] = new
    BY <2>1 DEF LedgerTypeOK
  <2>9. Reports(new)'
    BY <2>4, ReportsStay
  <2>10. Good(r)'
    BY <2>5, <2>6, <2>7, <2>8, <2>9 DEF Running
  <2> QED
    BY <1>1, <1>11, <2>10 DEF Finalize, LedgerTypeOK
<1>12. CASE FailJob(r)
  BY <1>2, <1>12 DEF FailJob
<1>13. ASSUME NEW again, Rerun(r, again) PROVE \A p \in Runs : Good(p)'
  <2>1. step[r] = "none" /\ step' = step
    BY <1>13 DEF Rerun, Complete, StepInv, Running, LedgerTypeOK, Steps, Jobs
  <2> QED
    BY <1>1, <1>13, <2>1 DEF Rerun, LedgerTypeOK
<1> QED
  BY <1>0, <1>3, <1>4, <1>5, <1>6, <1>7, <1>8, <1>9, <1>10, <1>11, <1>12, <1>13 DEF JobStep

\* Only an execution adds to what was executed and to the responses, and the
\* clock leaves a response to its execution.
LEMMA ExecutionStep ==
    ASSUME LedgerTypeOK, StepInv, GrantInv, ResponseInv, ExecutionIsGranted, JobNext
    PROVE  ExecutionIsGranted' /\ ResponseInv'
<1> PICK r \in Runs : \/ JobStep(r) \/ HostedClockCatchesUp(r)
                     \/ \E again \in RerunSets(r) : again # {} /\ Rerun(r, again)
  BY DEF JobNext
<1>1. ASSUME NEW e \in executed PROVE accepted'[e.id] = e.grant
  <2>1. e.id \in RequestIds /\ e.grant \in AcceptedRecord
    BY DEF LedgerTypeOK, Execution
  <2> QED
    BY <2>1, LedgerGrows, Records DEF ExecutionIsGranted
<1>2. CASE UNCHANGED <<executed, responses>>
  BY <1>1, <1>2 DEF ExecutionIsGranted, ResponseInv
<1>3. CASE HostedClockCatchesUp(r)
  <2>1. ASSUME NEW p \in Runs, NEW s \in responses'[p]
        PROVE  \E t \in responses[p] : s.accepted = t.accepted /\ s.attempt = t.attempt
    <3>1. CASE p # r
      BY <1>3, <3>1 DEF HostedClockCatchesUp, LedgerTypeOK
    <3>2. CASE p = r
      <4>1. PICK t \in responses[r] : s = [t EXCEPT !.ahead = FALSE]
        BY <1>3, <2>1, <3>2, Zenon DEF HostedClockCatchesUp, LedgerTypeOK
      <4>2. t \in Response
        BY DEF LedgerTypeOK
      <4> QED
        BY <3>2, <4>1, <4>2 DEF Response
    <3> QED
      BY <3>1, <3>2
  <2>2. ResponseInv'
    BY <1>3, <2>1 DEF ResponseInv, HostedClockCatchesUp
  <2> QED
    BY <1>1, <1>3, <2>2 DEF ExecutionIsGranted, HostedClockCatchesUp
<1>4. ASSUME NEW returned \in BOOLEAN, NEW ahead \in BOOLEAN, Execute(r, returned, ahead)
      PROVE  ExecutionIsGranted' /\ ResponseInv'
  <2> DEFINE new == [id |-> output[r].id, digest |-> output[r].digest,
                     grant |-> output[r], attempt |-> AttemptOf(r)]
  <2>1. executed' = executed \cup {new} /\ UNCHANGED accepted
    BY <1>4 DEF Execute, ledgerVars
  <2>2. accepted[output[r].id] = output[r] /\ output[r].run = r
    BY <1>4 DEF Execute, StepInv, GrantInv, Needs, Running, Jobs
  <2>3. ExecutionIsGranted'
    BY <2>1, <2>2 DEF ExecutionIsGranted, AttemptOf
  <2>4. \A p \in Runs : \A s \in responses'[p] :
           s \in responses[p] \/ (s.accepted = new.grant /\ s.attempt = new.attempt)
    BY <1>4 DEF Execute, LedgerTypeOK
  <2>5. ResponseInv'
    <3> SUFFICES ASSUME NEW p \in Runs, NEW s \in responses'[p]
                 PROVE  \E e \in executed' : /\ e.grant = s.accepted /\ e.attempt = s.attempt
                                             /\ e.id = s.accepted.id
                                             /\ e.digest = s.accepted.digest
      BY DEF ResponseInv
    <3>1. CASE s \in responses[p]
      BY <2>1, <3>1 DEF ResponseInv
    <3>2. CASE s.accepted = new.grant /\ s.attempt = new.attempt
      <4>1. new \in executed' /\ new.id = s.accepted.id /\ new.digest = s.accepted.digest
        BY <2>1, <3>2
      <4> QED
        BY <3>2, <4>1, Zenon
    <3> QED
      BY <2>4, <3>1, <3>2
  <2> QED
    BY <2>3, <2>5
<1> QED
  BY <1>2, <1>3, <1>4
     DEF JobStep, Trigger, StartJob, AcceptEvent, VerifyPrivate, CreateAccepted, CreateResult,
         Finalize, FailJob, Rerun

\* A result is published by the finalize job that made it, and stays.
LEMMA ResultStep ==
    ASSUME LedgerTypeOK, StepInv, RecordInv, ResultInv, ExecutionIsGranted, SuccessIsPublished,
           JobNext
    PROVE  ResultInv' /\ SuccessIsPublished'
<1> PICK r \in Runs : \/ JobStep(r) \/ HostedClockCatchesUp(r)
                     \/ \E again \in RerunSets(r) : again # {} /\ Rerun(r, again)
  BY DEF JobNext
<1>1. ASSUME NEW q \in RequestIds, result[q] # None
      PROVE  result'[q] = result[q] /\ result[q].id = q /\ Reports(result[q])'
  <2>1. result'[q] = result[q]
    BY <1>1, LedgerGrows
  <2> PICK new : new = result[q]
    OBVIOUS
  <2>2. new.id = q /\ Reports(new)
    BY <1>1 DEF ResultInv
  <2>3. Reports(new)'
    BY <2>2, ReportsStay
  <2>4. Reports(result[q])'
    BY <2>1, <2>3 DEF Reports
  <2> QED
    BY <2>1, <2>2, <2>4
<1>2. ASSUME UNCHANGED result,
             \A p \in Runs : job'[p]["finalize"] = "succeeded" => job[p]["finalize"] = "succeeded"
      PROVE  ResultInv' /\ SuccessIsPublished'
  <2>1. ResultInv'
    BY <1>1, <1>2 DEF ResultInv
  <2> QED
    BY <1>2, <2>1 DEF SuccessIsPublished
<1>3. ASSUME NEW status \in {"succeeded", "failed"}, EndJob(r, status),
             status = "failed" \/ ~Running(r, "finalize"), UNCHANGED result
      PROVE  ResultInv' /\ SuccessIsPublished'
  BY <1>2, <1>3, EndJobEffect DEF Jobs
<1>4. ASSUME NEW answered \in BOOLEAN, CreateResult(r, answered)
      PROVE  ResultInv' /\ SuccessIsPublished'
  <2> PICK new : new = record[r]
    OBVIOUS
  <2>1. new \in ResultRecord /\ new.run = r /\ Reports(new)
    BY <1>4 DEF CreateResult, RecordInv
  <2>2. new.id \in RequestIds /\ result' = [result EXCEPT ![new.id] = new]
    BY <1>4, <2>1 DEF CreateResult, Create, ResultRecord
  <2>3. Reports(new)'
    BY <2>1, ReportsStay
  <2>4. ResultInv'
    <3> SUFFICES ASSUME NEW q \in RequestIds, result'[q] # None
                 PROVE  result'[q].id = q /\ Reports(result[q])'
      BY DEF ResultInv
    <3>1. CASE q = new.id
      <4>1. result'[q] = new
        BY <2>2, <3>1 DEF LedgerTypeOK
      <4>2. Reports(result[q])'
        BY <2>3, <4>1 DEF Reports
      <4> QED
        BY <3>1, <4>1, <4>2
    <3>2. CASE q # new.id
      BY <1>1, <2>2, <3>2 DEF LedgerTypeOK
    <3> QED
      BY <3>1, <3>2
  <2>5. result'[new.id] # None /\ result'[new.id].run = r
    BY <2>1, <2>2, Records DEF LedgerTypeOK
  <2>6. \A p \in Runs : p # r => job'[p] = job[p]
    BY <1>4, EndJobEffect DEF CreateResult
  <2>7. SuccessIsPublished'
    BY <1>1, <2>2, <2>5, <2>6 DEF SuccessIsPublished
  <2> QED
    BY <2>4, <2>7
<1>5. ASSUME NEW answered \in BOOLEAN, CreateAccepted(r, answered)
      PROVE  ResultInv' /\ SuccessIsPublished'
  <2>1. ~Running(r, "finalize")
    BY <1>5 DEF CreateAccepted, StepInv, Running, Needs, Jobs
  <2> QED
    BY <1>3, <1>5, <2>1 DEF CreateAccepted
<1>6. ASSUME NEW returned \in BOOLEAN, NEW ahead \in BOOLEAN, Execute(r, returned, ahead)
      PROVE  ResultInv' /\ SuccessIsPublished'
  <2>1. ~Running(r, "finalize")
    BY <1>6 DEF Execute, StepInv, Running, Needs, Jobs
  <2> QED
    BY <1>3, <1>6, <2>1 DEF Execute, ledgerVars
<1>7. CASE FailJob(r)
  BY <1>3, <1>7 DEF FailJob, ledgerVars
<1>8. ASSUME NEW j \in Jobs, StartJob(r, j) PROVE ResultInv' /\ SuccessIsPublished'
  BY <1>2, <1>8 DEF StartJob, LedgerTypeOK, Jobs, ledgerVars
<1>9. ASSUME NEW again, Rerun(r, again) PROVE ResultInv' /\ SuccessIsPublished'
  BY <1>2, <1>9 DEF Rerun, LedgerTypeOK, Jobs, ledgerVars
<1> QED
  BY <1>2, <1>4, <1>5, <1>6, <1>7, <1>8, <1>9
     DEF JobStep, Trigger, AcceptEvent, VerifyPrivate, Finalize, HostedClockCatchesUp, ledgerVars

\* The invariant holds in every reachable state, whatever is edited in the
\* repository beside the workflow.
LEMMA Invariant == Spec => []IInv
<1>1. IInv /\ UNCHANGED <<jobVars, ledgerVars, executed>> => IInv'
  BY DEF IInv, LedgerTypeOK, StepInv, GrantInv, RecordInv, ResponseInv, ResultInv, Reports,
         ExecutionIsGranted, SuccessIsPublished, Running, AcceptedOf, jobVars, ledgerVars
<1>2. IInv /\ JobNext => IInv'
  BY TypeStep, StepStep, GrantStep, RecordStep, ExecutionStep, ResultStep DEF IInv
<1>3. IInv /\ [Next]_vars => IInv'
  BY <1>1, <1>2 DEF Next, vars
<1> QED
  BY InitInv, <1>3, PTL DEF Spec

-----------------------------------------------------------------------------
(***************************************************************************)
(* The client of the repository, beside any edit of its owner.             *)
(***************************************************************************)
\* GitHub gives an identity to one runner at a time.
IdsUnique == \A r, s \in runners : r.id = s.id => r = s

\* What an operation is about to delete is what it verified: the blob is ours,
\* and the identity, if a runner has it still, is a runner of our name.
CallInv ==
    /\ call.stage = "delete" => call.seen = Ours
    /\ call.stage = "deleteRunner" => \A r \in runners : r.id = call.runner => r.named

RepositoryInv == RepositoryTypeOK /\ IdsUnique /\ CallInv

\* An operation that returned is about to delete nothing.
LEMMA IdleCall ==
    /\ Idle.stage = "idle"
    /\ Idle \in [op : Ops \cup {"none"}, stage : Stages, path : ControlFiles \cup {"none"},
                 seen : Contents \cup {NoFile}, runner : RunnerIds \cup {NoRunner}]
BY DEF Idle, Stages

\* A request changes one component of the call, or ends it.
LEMMA GotoKeeps ==
    ASSUME RepositoryTypeOK, NEW stage \in Stages \ {"delete", "deleteRunner"}, Goto(stage)
    PROVE  /\ call' \in [op : Ops \cup {"none"}, stage : Stages,
                         path : ControlFiles \cup {"none"},
                         seen : Contents \cup {NoFile},
                         runner : RunnerIds \cup {NoRunner}]
           /\ call'.stage \notin {"delete", "deleteRunner"}
BY DEF RepositoryTypeOK, Goto

\* A call whose next request deletes nothing needs no promise.
LEMMA HarmlessCall ==
    ASSUME RepositoryInv, UNCHANGED <<repository, files, runners>>,
           Return \/ \E stage \in Stages \ {"delete", "deleteRunner"} : Goto(stage)
    PROVE  RepositoryInv'
<1>1. CASE Return
  BY <1>1, IdleCall DEF RepositoryInv, RepositoryTypeOK, IdsUnique, CallInv, Return
<1>2. ASSUME NEW stage \in Stages \ {"delete", "deleteRunner"}, Goto(stage)
      PROVE  RepositoryInv'
  <2>1. RepositoryTypeOK'
    BY <1>2, GotoKeeps DEF RepositoryInv, RepositoryTypeOK
  <2>2. CallInv'
    BY <1>2, GotoKeeps DEF RepositoryInv, CallInv
  <2> QED
    BY <2>1, <2>2 DEF RepositoryInv, IdsUnique
<1> QED
  BY <1>1, <1>2

\* The client keeps what its requests rely on.
LEMMA ClientStep == RepositoryInv /\ ClientNext => RepositoryInv'
<1> SUFFICES ASSUME RepositoryInv, ClientNext PROVE RepositoryInv'
  OBVIOUS
<1> USE DEF RepositoryInv
<1>1. ASSUME NEW op \in Ops, Begin(op) PROVE RepositoryInv'
  <2>1. PICK p \in ControlFiles \cup {"none"} :
           call' = [Idle EXCEPT !.op = op, !.path = p,
                        !.stage = IF op = "CreatePersonalPrivate"
                                  THEN "user" ELSE "repository"]
    BY <1>1 DEF Begin
  <2>2. RepositoryTypeOK'
    BY <1>1, <2>1, IdleCall DEF Begin, Idle, RepositoryTypeOK, Stages
  <2>3. call'.stage \notin {"delete", "deleteRunner"}
    BY <2>1 DEF Idle
  <2> QED
    BY <1>1, <2>2, <2>3 DEF Begin, IdsUnique, CallInv
<1>2. CASE ReadRepository \/ ReadUser \/ ReadCollaborators
  <2>1. AfterExclusive(call.op) \in Stages \ {"delete", "deleteRunner"}
    BY DEF AfterExclusive, Stages
  <2> QED
    BY <1>2, <2>1, HarmlessCall DEF ReadRepository, ReadUser, ReadCollaborators, Stages
<1>3. CASE ReadContent \/ RequestToken \/ RequestFails
  BY <1>3, HarmlessCall DEF ReadContent, RequestToken, RequestFails, Stages
<1>4. CASE RereadContent
  <2>1. CASE files[call.path] = Ours
    <3>1. call' = [call EXCEPT !.stage = "delete", !.seen = Ours]
      BY <1>4, <2>1 DEF RereadContent
    <3> QED
      BY <1>4, <3>1 DEF RereadContent, RepositoryTypeOK, Stages, Contents, IdsUnique, CallInv
  <2> QED
    BY <1>4, <2>1, HarmlessCall DEF RereadContent
<1>5. CASE PutContent \/ DeleteContent
  <2>1. files' \in [ControlFiles -> Contents \cup {NoFile}]
    BY <1>5 DEF PutContent, DeleteContent, RepositoryTypeOK, Contents
  <2> QED
    BY <1>5, <2>1, IdleCall
       DEF PutContent, DeleteContent, Return, RepositoryTypeOK, IdsUnique, CallInv
<1>6. CASE ListRunners
  <2>1. ASSUME NEW r \in FoundRunners,
               call' = [call EXCEPT !.stage = "deleteRunner", !.runner = r.id]
        PROVE  RepositoryInv'
    <3>1. r \in runners /\ r.named /\ r.id \in RunnerIds
      BY DEF FoundRunners, RepositoryTypeOK, Runner
    <3>2. UNCHANGED <<repository, files, runners>>
      BY <1>6 DEF ListRunners
    <3>3. RepositoryTypeOK'
      BY <2>1, <3>1, <3>2 DEF RepositoryTypeOK, Stages
    <3>4. call'.runner = r.id /\ call'.stage = "deleteRunner"
      BY <2>1 DEF RepositoryTypeOK
    <3> QED
      BY <3>1, <3>2, <3>3, <3>4 DEF IdsUnique, CallInv
  <2> QED
    BY <1>6, <2>1, HarmlessCall DEF ListRunners
<1>7. CASE DeleteListedRunner
  BY <1>7, IdleCall DEF DeleteListedRunner, Return, RepositoryTypeOK, IdsUnique, CallInv
<1>8. CASE PostRepository
  <2>1. repository' \in [exists : BOOLEAN, private : BOOLEAN,
                         personal : BOOLEAN, exclusive : BOOLEAN]
    BY <1>8 DEF PostRepository, RepositoryTypeOK
  <2> QED
    BY <1>8, <2>1, IdleCall DEF PostRepository, Return, RepositoryTypeOK, IdsUnique, CallInv
<1> QED
  BY <1>1, <1>2, <1>3, <1>4, <1>5, <1>6, <1>7, <1>8 DEF ClientNext

\* No edit of the owner makes a verified identity another runner's.
LEMMA OwnerStep == RepositoryInv /\ OwnerNext => RepositoryInv'
<1> SUFFICES ASSUME RepositoryInv, OwnerNext PROVE RepositoryInv'
  OBVIOUS
<1> USE DEF RepositoryInv
<1>1. CASE OwnerChangesAccess
  <2>1. repository' \in [exists : BOOLEAN, private : BOOLEAN,
                         personal : BOOLEAN, exclusive : BOOLEAN]
    BY <1>1 DEF OwnerChangesAccess, RepositoryTypeOK
  <2> QED
    BY <1>1, <2>1 DEF OwnerChangesAccess, RepositoryTypeOK, IdsUnique, CallInv
<1>2. CASE OwnerEditsFile
  BY <1>2 DEF OwnerEditsFile, RepositoryTypeOK, IdsUnique, CallInv
<1>3. CASE OwnerEditsRunners
  <2>1. ASSUME NEW r \in runners, runners' = runners \ {r} PROVE RepositoryInv'
    BY <1>3, <2>1 DEF OwnerEditsRunners, RepositoryTypeOK, IdsUnique, CallInv
  <2>2. ASSUME NEW i \in RunnerIds \ {call.runner}, NEW named \in BOOLEAN,
               NEW labelled \in BOOLEAN, \A r \in runners : r.id # i,
               runners' = runners \cup {[id |-> i, named |-> named, labelled |-> labelled]}
        PROVE  RepositoryInv'
    <3>1. RepositoryTypeOK'
      BY <1>3, <2>2 DEF OwnerEditsRunners, RepositoryTypeOK, Runner
    <3>2. IdsUnique'
      BY <2>2 DEF IdsUnique
    <3>3. CallInv'
      BY <1>3, <2>2 DEF OwnerEditsRunners, CallInv
    <3> QED
      BY <3>1, <3>2, <3>3
  <2> QED
    BY <1>3, <2>1, <2>2 DEF OwnerEditsRunners
<1> QED
  BY <1>1, <1>2, <1>3 DEF OwnerNext

\* The repository's invariant holds in every reachable state.
LEMMA RepositoryInvariant == Spec => []RepositoryInv
<1>1. Init => RepositoryInv
  BY IdleCall DEF Init, RepositoryInit, RepositoryInv, RepositoryTypeOK, IdsUnique, CallInv
<1>2. RepositoryInv /\ UNCHANGED repositoryVars => RepositoryInv'
  BY DEF RepositoryInv, RepositoryTypeOK, IdsUnique, CallInv, repositoryVars
<1>3. RepositoryInv /\ [Next]_vars => RepositoryInv'
  BY <1>2, ClientStep, OwnerStep DEF Next, RepositoryNext, vars
<1> QED
  BY <1>1, <1>3, PTL DEF Spec

\* A step of the client takes nothing of the owner's.
LEMMA ClientTakesOwn ==
    ASSUME RepositoryInv, ClientNext
    PROVE  /\ \A p \in ControlFiles : files'[p] # files[p] => files[p] \in {NoFile, Ours}
           /\ \A r \in runners \ runners' : r.named
<1> USE DEF RepositoryInv
<1>1. CASE PutContent
  BY <1>1 DEF PutContent, RepositoryTypeOK
<1>2. CASE DeleteContent
  BY <1>2 DEF DeleteContent, RepositoryTypeOK, CallInv
<1>3. CASE DeleteListedRunner
  BY <1>3 DEF DeleteListedRunner, CallInv
<1>4. CASE UNCHANGED <<files, runners>>
  BY <1>4
<1> QED
  BY <1>1, <1>2, <1>3, <1>4
     DEF ClientNext, Begin, ReadRepository, ReadUser, ReadCollaborators, ReadContent,
         RereadContent, ListRunners, RequestToken, PostRepository, RequestFails

-----------------------------------------------------------------------------
(***************************************************************************)
(* The theorems.                                                           *)
(***************************************************************************)
\* Every record of the workflow, of the ledger and of the client stays in its
\* type.
THEOREM TypeCorrect == Spec => []TypeOK
<1>1. IInv /\ RepositoryInv => TypeOK
  BY DEF IInv, RepositoryInv, TypeOK
<1> QED
  BY Invariant, RepositoryInvariant, <1>1, PTL

\* Execution, published result and the green finalize job all go back to one
\* accepted record (execute-local, ValidateResultBinding, create).
THEOREM LedgerIsTrue == Spec => []LedgerTrue
<1>1. IInv => ResultReportsGrant
  BY DEF IInv, ResultInv, Reports, ResultReportsGrant
<1>2. IInv => LedgerTrue
  BY <1>1 DEF IInv, LedgerTrue
<1> QED
  BY Invariant, <1>2, PTL

\* No race, re-run or lost answer replaces a record (githubcontrol create).
THEOREM RecordsStay == Spec => CreateOnce
<1>1. IInv /\ [Next]_vars =>
        [\A q \in RequestIds : /\ accepted[q] # None => accepted'[q] = accepted[q]
                               /\ result[q] # None => result'[q] = result[q]]_vars
  BY LedgerGrows DEF IInv, Next, vars, ledgerVars
<1> QED
  BY Invariant, <1>1, PTL DEF Spec, CreateOnce

\* However the owner's edits fall between the requests of an operation, the
\* client takes only files it wrote and runners of its name (EnsureControlFile,
\* DeleteOwnedControlFile, DeleteRunner).
THEOREM OwnersWorkIsKept == Spec => OwnersWorkKept
<1> DEFINE kept == call' # call =>
               /\ \A p \in ControlFiles : files'[p] # files[p] => files[p] \in {NoFile, Ours}
               /\ \A r \in runners \ runners' : r.named
<1>1. OwnerNext => call' = call
  BY DEF OwnerNext, OwnerChangesAccess, OwnerEditsFile, OwnerEditsRunners
<1>2. RepositoryInv /\ [Next]_vars => [kept]_repositoryVars
  BY <1>1, ClientTakesOwn DEF Next, RepositoryNext, vars
<1> HIDE DEF kept
<1>3. Spec => [][kept]_repositoryVars
  BY <1>2, RepositoryInvariant, PTL DEF Spec
<1> QED
  BY <1>3 DEF kept, OwnersWorkKept
=============================================================================
