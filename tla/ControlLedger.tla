---------------------------- MODULE ControlLedger ----------------------------
(***************************************************************************)
(* The control workflow: one run per opened issue, its three jobs, and the *)
(* create-once ledger in the control repository.                           *)
(*                                                                         *)
(*   accept    (hosted)       event -> accepted.json -> PUT, job output    *)
(*   execute   (workstation)  accepted.json -> broker -> response artifact *)
(*   finalize  (hosted)       artifact -> result.json -> PUT               *)
(*                                                                         *)
(* Runs of different issues race for the records of one request identity;  *)
(* every job may be lost at every step, every answer of GitHub may be lost *)
(* after it took effect, and a finished run may be re-run, whole or from   *)
(* the jobs that failed, or from any one job.                              *)
(***************************************************************************)
EXTENDS ControlRepository

CONSTANTS
    Runs,        \* workflow runs, one for each opened issue
    RequestIds,  \* the identities requesters choose
    Digests,     \* the canonical digests of their requests
    Malformed,   \* an issue body that is not one strict request
    MaxAttempts, \* bound: attempts of a run
    None         \* no record

Requests == [id : RequestIds, digest : Digests]

Attempts == 1..MaxAttempts

AcceptedRecord == [id : RequestIds, digest : Digests, run : Runs,
                   attempt : Attempts]

\* The attempt identity of an execution: run-<run id>-<run attempt>.
AttemptId == [run : Runs, attempt : Attempts]

ResultRecord == [id : RequestIds, digest : Digests, run : Runs,
                 attempt : Attempts, executed : AttemptId]

ASSUME LedgerAssumption ==
    /\ MaxAttempts \in Nat \ {0}
    /\ Malformed \notin Requests
    /\ None \notin AcceptedRecord \cup ResultRecord

VARIABLES
    event,      \* what each issue's opened event carries
    attempt,    \* the attempt each run is in, 0 before it was triggered
    job,        \* the status of each job of the run's current attempt
    step,       \* the next step of the job that is running
    record,     \* accepted.json or result.json in RUNNER_TEMP of that job
    output,     \* the accept job's output, kept across partial re-runs
    responses,  \* the response artifacts uploaded by the run
    accepted,   \* ledger/requests/<id>/accepted.json
    result,     \* ledger/requests/<id>/result.json
    executed    \* history: what the workstation was asked to execute

jobVars == <<event, attempt, job, step, record, output, responses>>
ledgerVars == <<accepted, result>>
vars == <<jobVars, ledgerVars, executed, repositoryVars>>

Jobs == {"accept", "execute", "finalize"}
Statuses == {"waiting", "running", "succeeded", "failed", "skipped"}
Steps == {"none", "accept", "verify", "create", "call", "download"}

\* A response holds a copy of the accepted record and the execution report;
\* the report is ahead when the workstation finished it at a time the hosted
\* clock has not reached.
Response == [accepted : AcceptedRecord, attempt : AttemptId, ahead : BOOLEAN]

Execution == [id : RequestIds, digest : Digests, grant : AcceptedRecord,
              attempt : AttemptId]

LedgerTypeOK ==
    /\ event \in [Runs -> Requests \cup {Malformed}]
    /\ attempt \in [Runs -> 0..MaxAttempts]
    /\ job \in [Runs -> [Jobs -> Statuses]]
    /\ step \in [Runs -> Steps]
    /\ record \in [Runs -> AcceptedRecord \cup ResultRecord \cup {None}]
    /\ output \in [Runs -> AcceptedRecord \cup {None}]
    /\ responses \in [Runs -> SUBSET Response]
    /\ accepted \in [RequestIds -> AcceptedRecord \cup {None}]
    /\ result \in [RequestIds -> ResultRecord \cup {None}]
    /\ executed \subseteq Execution

TypeOK == RepositoryTypeOK /\ LedgerTypeOK

Untouched == [j \in Jobs |-> "waiting"]

JobInit ==
    /\ event \in [Runs -> Requests \cup {Malformed}]
    /\ attempt = [r \in Runs |-> 0]
    /\ job = [r \in Runs |-> Untouched]
    /\ step = [r \in Runs |-> "none"]
    /\ record = [r \in Runs |-> None]
    /\ output = [r \in Runs |-> None]
    /\ responses = [r \in Runs |-> {}]
    /\ accepted = [q \in RequestIds |-> None]
    /\ result = [q \in RequestIds |-> None]
    /\ executed = {}

Init == RepositoryInit /\ JobInit

-----------------------------------------------------------------------------
(* The workflow                                                            *)

Needs == [j \in Jobs |-> CASE j = "accept" -> {}
                           [] j = "execute" -> {"accept"}
                           [] j = "finalize" -> {"accept", "execute"}]

FirstStep == [j \in Jobs |-> CASE j = "accept" -> "accept"
                               [] j = "execute" -> "call"
                               [] j = "finalize" -> "download"]

Running(r, j) == job[r][j] = "running"

Complete(r) ==
    attempt[r] > 0 /\ \A j \in Jobs : job[r][j] \notin {"waiting", "running"}

\* issues: opened.  A later edit of the issue triggers nothing.
Trigger(r) ==
    /\ attempt[r] = 0
    /\ attempt' = [attempt EXCEPT ![r] = 1]
    /\ UNCHANGED <<event, job, step, record, output, responses, ledgerVars,
                   executed>>

StartJob(r, j) ==
    /\ attempt[r] > 0
    /\ job[r][j] = "waiting"
    /\ \A n \in Needs[j] : job[r][n] = "succeeded"
    /\ job' = [job EXCEPT ![r][j] = "running"]
    /\ step' = [step EXCEPT ![r] = FirstStep[j]]
    /\ record' = [record EXCEPT ![r] = None]
    /\ UNCHANGED <<event, attempt, output, responses, ledgerVars, executed>>


\* A job ends; one that failed takes the jobs that need it with it.
EndJob(r, status) ==
    /\ job' = [job EXCEPT ![r] = [j \in Jobs |->
                  CASE job[r][j] = "running" -> status
                    [] status = "failed" /\ job[r][j] = "waiting" -> "skipped"
                    [] OTHER -> job[r][j]]]
    /\ step' = [step EXCEPT ![r] = "none"]
    /\ record' = [record EXCEPT ![r] = None]

\* A step of a job fails, or its runner is lost.
FailJob(r) ==
    /\ step[r] # "none"
    /\ EndJob(r, "failed")
    /\ UNCHANGED <<event, attempt, output, responses, ledgerVars, executed>>

\* The accepted record of an event: the request it carries, its digest and
\* the provenance of the run.
AcceptedOf(r) == [id |-> event[r].id, digest |-> event[r].digest,
                  run |-> r, attempt |-> attempt[r]]

\* awg-control accept: the event becomes a canonical record, or nothing.
AcceptEvent(r) ==
    /\ step[r] = "accept"
    /\ event[r] \in Requests
    /\ record' = [record EXCEPT ![r] = AcceptedOf(r)]
    /\ step' = [step EXCEPT ![r] = "verify"]
    /\ UNCHANGED <<event, attempt, job, output, responses, ledgerVars,
                   executed>>

\* awg-control publish asks once more whether the repository is private.
VerifyPrivate(r) ==
    /\ step[r] = "verify"
    /\ IsPrivate
    /\ step' = [step EXCEPT ![r] = "create"]
    /\ UNCHANGED <<event, attempt, job, record, output, responses, ledgerVars,
                   executed>>

\* Fault: an existing record of the identity counts as published.
CreateAcceptedTwice(r, answered) ==
    /\ step[r] = "create" /\ Running(r, "accept")
    /\ accepted' = IF accepted[record[r].id] = None
                   THEN [accepted EXCEPT ![record[r].id] = record[r]]
                   ELSE accepted
    /\ IF answered
       THEN output' = [output EXCEPT ![r] = record[r]] /\ EndJob(r, "succeeded")
       ELSE UNCHANGED output /\ EndJob(r, "failed")
    /\ UNCHANGED <<event, attempt, responses, result, executed>>

\* Fault: the request updates an existing file.
CreateAcceptedOver(r, answered) ==
    /\ step[r] = "create" /\ Running(r, "accept")
    /\ accepted' = [accepted EXCEPT ![record[r].id] = record[r]]
    /\ output' = IF answered THEN [output EXCEPT ![r] = record[r]] ELSE output
    /\ EndJob(r, IF answered THEN "succeeded" ELSE "failed")
    /\ UNCHANGED <<event, attempt, responses, result, executed>>

\* The PUT of create() carries no blob SHA: it takes effect when no record of
\* that kind exists, and is a conflict otherwise.
Create(records, new, after) ==
    /\ records[new.id] = None
    /\ after = [records EXCEPT ![new.id] = new]

CreateAccepted(r, answered) ==
    /\ step[r] = "create" /\ Running(r, "accept")
    /\ Create(accepted, record[r], accepted')
    /\ IF answered
       THEN output' = [output EXCEPT ![r] = record[r]] /\ EndJob(r, "succeeded")
       ELSE UNCHANGED output /\ EndJob(r, "failed")
    /\ UNCHANGED <<event, attempt, responses, result, executed>>

CreateResult(r, answered) ==
    /\ step[r] = "create" /\ Running(r, "finalize")
    /\ Create(result, record[r], result')
    /\ EndJob(r, IF answered THEN "succeeded" ELSE "failed")
    /\ UNCHANGED <<event, attempt, output, responses, accepted, executed>>

\* run-${GITHUB_RUN_ID}-${GITHUB_RUN_ATTEMPT}
AttemptOf(r) == [run |-> r, attempt |-> attempt[r]]

\* awg execute-local: the broker executes what the accept job handed over and
\* cannot ask the ledger.  The job may be lost before the response is read.
Execute(r, returned, ahead) ==
    /\ step[r] = "call"
    /\ LET id == AttemptOf(r) IN
       /\ executed' = executed \cup
              {[id |-> output[r].id, digest |-> output[r].digest,
                grant |-> output[r], attempt |-> id]}
       /\ IF returned
          THEN /\ responses' = [responses EXCEPT ![r] = @ \cup
                      {[accepted |-> output[r], attempt |-> id,
                        ahead |-> ahead]}]
               /\ EndJob(r, "succeeded")
          ELSE EndJob(r, "failed") /\ UNCHANGED responses
    /\ UNCHANGED <<event, attempt, output, ledgerVars>>

\* Time passes: the hosted clock reaches what a report calls its end.
HostedClockCatchesUp(r) ==
    /\ \E s \in responses[r] : s.ahead
    /\ responses' = [responses EXCEPT ![r] =
                        {[s EXCEPT !.ahead = FALSE] : s \in responses[r]}]
    /\ UNCHANGED <<event, attempt, job, step, record, output, ledgerVars,
                   executed>>

\* The result record: what the report says of the accepted request, and the
\* finalizing attempt as its provenance.
ResultOf(r, s) ==
    [id |-> s.accepted.id, digest |-> s.accepted.digest, run |-> r,
     attempt |-> attempt[r], executed |-> s.attempt]

\* ValidateResultBinding, as far as the two records and the finalizing run
\* attempt tell it apart.
ResultBinds(grant, response, r) ==
    /\ ~response.ahead
    /\ grant.run = r
    /\ attempt[r] >= grant.attempt

\* The response of this attempt is downloaded by its name and bound to the
\* accepted record that came with it.
Finalize(r) ==
    /\ step[r] = "download"
    /\ \E s \in responses[r] :
           /\ s.attempt.attempt = attempt[r]
           /\ ResultBinds(s.accepted, s, r)
           /\ record' = [record EXCEPT ![r] = ResultOf(r, s)]
    /\ step' = [step EXCEPT ![r] = "verify"]
    /\ UNCHANGED <<event, attempt, job, output, responses, ledgerVars,
                   executed>>

\* Re-run all jobs, the failed jobs with what they skipped, or one job with
\* the jobs that need it.  An attempt keeps the output of what it keeps.
Rerun(r, again) ==
    /\ Complete(r)
    /\ attempt[r] < MaxAttempts
    /\ attempt' = [attempt EXCEPT ![r] = @ + 1]
    /\ job' = [job EXCEPT ![r] = [j \in Jobs |->
                  IF j \in again THEN "waiting" ELSE job[r][j]]]
    /\ output' = IF "accept" \in again
                 THEN [output EXCEPT ![r] = None] ELSE output
    /\ UNCHANGED <<event, step, record, responses, ledgerVars, executed>>

Dependents(j) == {j} \cup {k \in Jobs : j \in Needs[k]}

RerunSets(r) ==
    {Jobs, {j \in Jobs : job[r][j] \in {"failed", "skipped"}} \cup
           UNION {Dependents(j) : j \in {k \in Jobs : job[r][k] = "failed"}}}
    \cup {Dependents(j) : j \in {k \in Jobs :
              \A n \in Needs[k] : job[r][n] = "succeeded"}}

JobStep(r) ==
    \/ Trigger(r)
    \/ \E j \in Jobs : StartJob(r, j)
    \/ AcceptEvent(r)
    \/ VerifyPrivate(r)
    \/ \E answered \in BOOLEAN : CreateAccepted(r, answered)
    \/ \E answered \in BOOLEAN : CreateResult(r, answered)
    \/ \E returned, ahead \in BOOLEAN : Execute(r, returned, ahead)
    \/ Finalize(r)
    \/ FailJob(r)

JobNext == \E r \in Runs :
    \/ JobStep(r)
    \/ HostedClockCatchesUp(r)
    \/ \E again \in RerunSets(r) : again # {} /\ Rerun(r, again)

Next ==
    \/ JobNext /\ UNCHANGED repositoryVars
    \/ RepositoryNext /\ UNCHANGED <<jobVars, ledgerVars, executed>>

Spec == Init /\ [][Next]_vars

\* GitHub schedules every job, and every job ends: by its steps or by a limit.
Fairness == \A r \in Runs : WF_vars(JobStep(r) /\ UNCHANGED repositoryVars)

FairSpec == Spec /\ Fairness

-----------------------------------------------------------------------------
(* Properties                                                              *)

\* What the ledger once holds it holds for good: create() sends no blob SHA,
\* and neither a race, a re-run nor a lost answer replaces a record.
CreateOnce ==
    [][\A q \in RequestIds :
           /\ accepted[q] # None => accepted'[q] = accepted[q]
           /\ result[q] # None => result'[q] = result[q]]_vars

\* The workstation executes only what the ledger holds as accepted, and only
\* for the run that won the creation: of two issues with one identity, of an
\* issue and its re-run, at most one is granted (the broker cannot tell).
ExecutionIsGranted ==
    \A e \in executed :
        /\ accepted[e.id] = e.grant
        /\ e.digest = e.grant.digest
        /\ e.attempt.run = e.grant.run

\* A published result reports an execution of the accepted request, made for
\* the accepted run in the same run attempt that published it: the artifact
\* of an earlier attempt is never finalised by a later one.
ResultReportsGrant ==
    \A q \in RequestIds : result[q] # None =>
        \E e \in executed :
            /\ e.id = q /\ e.grant = accepted[q]
            /\ result[q].digest = e.digest
            /\ result[q].run = e.grant.run
            /\ result[q].executed = e.attempt
            /\ result[q].attempt = e.attempt.attempt
            /\ result[q].attempt >= e.grant.attempt

\* A finalize job that succeeded published the result of its own run: an
\* existing record of somebody else is a conflict and never a success.
SuccessIsPublished ==
    \A r \in Runs : job[r]["finalize"] = "succeeded" =>
        \E q \in RequestIds : result[q] # None /\ result[q].run = r

\* Execution, published result and the green finalize job all go back to one
\* accepted record (execute-local, ValidateResultBinding, create).
LedgerTrue == ExecutionIsGranted /\ ResultReportsGrant /\ SuccessIsPublished

\* The run that was granted the request has ended and shows a failed job.
GrantedRunFailed(q) ==
    \E r \in Runs : /\ accepted[q] # None /\ accepted[q].run = r
                   /\ Complete(r)
                   /\ \E j \in Jobs : job[r][j] = "failed"


\* A statement of the documentation that a re-run of the execute job refutes:
\* README, "Disagreements".
\* docs/protocol-v1.md: a rerun "does not acquire permission to change the
\* accepted request or execution attempt".
AttemptIsStable ==
    \A e, f \in executed : e.id = f.id => e.attempt = f.attempt

=============================================================================
