---------------------------- MODULE ForegroundRun ----------------------------
(***************************************************************************)
(* One foreground execution: runForeground, awaitProcess and               *)
(* collectArtifacts of src/internal/executionrun/run.go, with the output   *)
(* capture of src/internal/outputcapture/capture.go.                       *)
(*                                                                         *)
(* The process is the one ProcessContract describes, the launcher and the  *)
(* artifact collector are any that keep to their interfaces.  The exit,    *)
(* the service stop and the timeout race each other, and the capture goes  *)
(* on beside all of them.  Standard output and error are one stream,       *)
(* counted in bytes.  Of the manifest only what decides about the content  *)
(* handles is kept.                                                        *)
(***************************************************************************)
EXTENDS Naturals

CONSTANTS
    Limit,      \* bytes a capture retains
    MaxBytes    \* bound: bytes the workload writes

ASSUME RunAssumption == Limit \in Nat /\ MaxBytes \in Nat

VARIABLES
    requested,          \* the plan selects artifacts
    cancelled,          \* ctx is done
    run,                \* where runForeground is
    tree, call,         \* the process, as in ProcessContract
    outcome,            \* the exit that was or will be signalled
    expired,            \* the timeout timer fired
    total, retained,    \* the capture
    status, exitCode,   \* the verdict
    safe,               \* safeToCollect
    snapshot,           \* the output in the report
    manifest, bundle,   \* what collectArtifacts returned
    result              \* what Run returned

processVars == <<tree, call, outcome>>
captureVars == <<total, retained>>
verdictVars == <<status, exitCode, safe>>
reportVars  == <<snapshot, manifest, bundle>>
vars == <<requested, cancelled, run, processVars, expired, captureVars, verdictVars,
          reportVars, result>>

Process == INSTANCE ProcessContract WITH Callers <- {"run"}

NoSnapshot == [total |-> 0, retained |-> 0]

TypeOK ==
    /\ requested \in BOOLEAN /\ cancelled \in BOOLEAN /\ expired \in BOOLEAN
    /\ run \in {"launching", "awaiting", "terminating", "discarding", "finishing",
                "collecting", "reporting", "returned"}
    /\ tree \in {"none", "alive", "reaped", "signalled"}
    /\ call \in [{"run"} -> {"idle", "running", "nil", "error"}]
    /\ outcome \in {"none", "zero", "nonzero", "unusable"}
    /\ total \in 0..MaxBytes /\ retained \in 0..total
    /\ status \in {"none", "completed", "failed", "cancelled", "timed_out", "runtime_failed"}
    /\ exitCode \in {"none", "zero", "nonzero"}
    /\ safe \in BOOLEAN
    /\ snapshot \in [total : 0..MaxBytes, retained : 0..MaxBytes]
    /\ manifest \in {"not_requested", "failed", "omissions", "files"}
    /\ bundle \in {"none", "open", "closed"}
    /\ result \in {"none", "output", "error"}

Init ==
    /\ requested \in BOOLEAN
    /\ cancelled = FALSE /\ expired = FALSE
    /\ run = "launching"
    /\ tree = "none" /\ call = [c \in {"run"} |-> "idle"] /\ outcome = "none"
    /\ total = 0 /\ retained = 0
    /\ status = "none" /\ exitCode = "none" /\ safe = FALSE
    /\ snapshot = NoSnapshot /\ manifest = "not_requested" /\ bundle = "none"
    /\ result = "none"

-----------------------------------------------------------------------------
(***************************************************************************)
(* Beside the run: the workload, its capture, the timer and the context.   *)
(***************************************************************************)
TreeEnds ==
    /\ Process!End
    /\ outcome' \in {"zero", "nonzero", "unusable"}
    /\ UNCHANGED <<requested, cancelled, run, expired, captureVars, verdictVars, reportVars,
                   result>>

TreeSignals ==
    /\ Process!Signal
    /\ UNCHANGED <<requested, cancelled, run, outcome, expired, captureVars, verdictVars,
                   reportVars, result>>

\* Fault: the exit is signalled before the pipe is drained.
CaptureWritesLate ==
    /\ tree # "none"
    /\ total < MaxBytes
    /\ total' = total + 1
    /\ retained' = IF retained < Limit THEN retained + 1 ELSE retained
    /\ UNCHANGED <<requested, cancelled, run, processVars, expired, verdictVars, reportVars,
                   result>>

\* The pipe is drained before the exit is signalled.
CaptureWrites ==
    /\ tree \in {"alive", "reaped"}
    /\ total < MaxBytes
    /\ total' = total + 1
    /\ retained' = IF retained < Limit THEN retained + 1 ELSE retained
    /\ UNCHANGED <<requested, cancelled, run, processVars, expired, verdictVars, reportVars,
                   result>>

TimerFires ==
    /\ run = "awaiting"
    /\ ~expired
    /\ expired' = TRUE
    /\ UNCHANGED <<requested, cancelled, run, processVars, captureVars, verdictVars,
                   reportVars, result>>

Cancel ==
    /\ ~cancelled
    /\ cancelled' = TRUE
    /\ UNCHANGED <<requested, run, processVars, expired, captureVars, verdictVars, reportVars,
                   result>>

-----------------------------------------------------------------------------
(***************************************************************************)
(* The run.                                                                *)
(***************************************************************************)
Step(next) == run' = next /\ UNCHANGED <<requested, cancelled, expired, captureVars>>

\* The plan does not make an invocation or a report.
Refuse ==
    /\ run = "launching"
    /\ Step("returned")
    /\ result' = "error"
    /\ UNCHANGED <<processVars, verdictVars, reportVars>>

Launch ==
    /\ run = "launching"
    /\ Step("awaiting")
    /\ tree' = "alive"
    /\ UNCHANGED <<call, outcome, verdictVars, reportVars, result>>

LaunchFails ==
    /\ run = "launching"
    /\ Step("finishing")
    /\ status' = "runtime_failed"
    /\ UNCHANGED <<processVars, exitCode, safe, reportVars, result>>

\* Start may return a process together with an error.
LaunchHalfFails ==
    /\ run = "launching"
    /\ Step("discarding")
    /\ tree' = "alive"
    /\ call' = [call EXCEPT !["run"] = "running"]
    /\ status' = "runtime_failed"
    /\ UNCHANGED <<outcome, exitCode, safe, reportVars, result>>

\* The exit is ready; select takes any branch that is.
AwaitExit ==
    /\ run = "awaiting"
    /\ tree = "signalled"
    /\ Step("finishing")
    /\ status' = CASE outcome = "zero"     -> "completed"
                   [] outcome = "nonzero"  -> "failed"
                   [] outcome = "unusable" -> "runtime_failed"
    /\ exitCode' = IF outcome = "unusable" THEN "none" ELSE outcome
    /\ safe' = TRUE
    /\ UNCHANGED <<processVars, reportVars, result>>

\* terminateTree is called, and the verdict stands if it returns nil.
Terminate(verdict) ==
    /\ run = "awaiting"
    /\ Step("terminating")
    /\ Process!Call("run")
    /\ status' = verdict
    /\ UNCHANGED <<outcome, exitCode, safe, reportVars, result>>

AwaitCancel == cancelled /\ Terminate("cancelled")

AwaitTimeout == expired /\ Terminate(IF cancelled THEN "cancelled" ELSE "timed_out")

\* No exit channel or no timer.
AwaitImpossible == Terminate("runtime_failed")

Terminated ==
    /\ run \in {"terminating", "discarding"}
    /\ Step("finishing")
    /\ Process!ReturnNil("run")
    /\ safe' = (run = "terminating")
    /\ UNCHANGED <<outcome, status, exitCode, reportVars, result>>

\* Fault: the error is taken into account only for the verdict.
TerminateFailsCollects ==
    /\ run \in {"terminating", "discarding"}
    /\ Step("finishing")
    /\ Process!ReturnError("run")
    /\ outcome' \in IF tree' = tree THEN {outcome} ELSE {"zero", "nonzero", "unusable"}
    /\ status' = "runtime_failed"
    /\ safe' = TRUE
    /\ UNCHANGED <<exitCode, reportVars, result>>

\* Fault: TerminateTree gets a context without a deadline.
TerminateFailsNever ==
    /\ run \in {"terminating", "discarding"}
    /\ tree = "signalled"
    /\ Step("finishing")
    /\ Process!ReturnError("run")
    /\ status' = "runtime_failed"
    /\ UNCHANGED <<outcome, exitCode, safe, reportVars, result>>

\* The grace has passed: the workload may be alive, and nobody owns it now.
TerminateFails ==
    /\ run \in {"terminating", "discarding"}
    /\ Step("finishing")
    /\ Process!ReturnError("run")
    /\ outcome' \in IF tree' = tree THEN {outcome} ELSE {"zero", "nonzero", "unusable"}
    /\ status' = "runtime_failed"
    /\ UNCHANGED <<exitCode, safe, reportVars, result>>

\* The wall clock was set back during the execution.
ClockRegresses ==
    /\ run = "finishing"
    /\ Step("returned")
    /\ result' = "error"
    /\ UNCHANGED <<processVars, verdictVars, reportVars>>

\* Snapshot, and the manifest the report starts from.
Finish ==
    /\ run = "finishing"
    /\ Step(IF safe /\ requested THEN "collecting" ELSE "reporting")
    /\ snapshot' = [total |-> total, retained |-> retained]
    /\ manifest' = IF requested THEN "failed" ELSE "not_requested"
    /\ UNCHANGED <<processVars, verdictVars, bundle, result>>

\* No collector, an error, or the collection timeout; what came with the error
\* is closed.
CollectFails ==
    /\ run = "collecting"
    /\ Step("reporting")
    /\ bundle' \in {"none", "closed"}
    /\ UNCHANGED <<processVars, verdictVars, snapshot, manifest, result>>

\* Fault: a bundle that came without files is forgotten.
CollectForgets(files, handles, allowed) ==
    /\ run = "collecting"
    /\ Step("reporting")
    /\ LET accepted == allowed /\ (files => handles)
       IN  /\ manifest' = IF ~accepted THEN "failed" ELSE IF files THEN "files" ELSE "omissions"
           /\ bundle' = IF ~handles THEN "none" ELSE IF accepted THEN "open" ELSE "closed"
    /\ UNCHANGED <<processVars, verdictVars, snapshot, result>>

\* A manifest is accepted when the selections allow it and files have handles.
Collect(files, handles, allowed) ==
    /\ run = "collecting"
    /\ Step("reporting")
    /\ LET accepted == allowed /\ (files => handles)
       IN  /\ manifest' = IF ~accepted THEN "failed" ELSE IF files THEN "files" ELSE "omissions"
           /\ bundle' = IF ~handles THEN "none" ELSE IF accepted /\ files THEN "open" ELSE "closed"
    /\ UNCHANGED <<processVars, verdictVars, snapshot, result>>

Report ==
    /\ run = "reporting"
    /\ Step("returned")
    /\ result' = "output"
    /\ UNCHANGED <<processVars, verdictVars, reportVars>>

\* The manifest makes the report invalid.
ReportWithoutArtifacts ==
    /\ run = "reporting"
    /\ manifest \in {"omissions", "files"}
    /\ Step("returned")
    /\ manifest' = "failed"
    /\ bundle' = IF bundle = "open" THEN "closed" ELSE bundle
    /\ result' = "output"
    /\ UNCHANGED <<processVars, verdictVars, snapshot>>

\* Even without artifacts the report is invalid.
ReportFails ==
    /\ run = "reporting"
    /\ Step("returned")
    /\ manifest' = IF requested THEN "failed" ELSE "not_requested"
    /\ bundle' = IF bundle = "open" THEN "closed" ELSE bundle
    /\ result' = "error"
    /\ UNCHANGED <<processVars, verdictVars, snapshot>>

RunStep ==
    \/ Refuse \/ Launch \/ LaunchFails \/ LaunchHalfFails
    \/ AwaitExit \/ AwaitCancel \/ AwaitTimeout
    \/ Terminated \/ TerminateFails \/ ClockRegresses \/ Finish
    \/ CollectFails \/ (\E files, handles, allowed \in BOOLEAN : Collect(files, handles, allowed))
    \/ Report \/ ReportWithoutArtifacts \/ ReportFails

Next ==
    \/ TreeEnds \/ TreeSignals \/ CaptureWrites \/ TimerFires \/ Cancel
    \/ RunStep \/ AwaitImpossible

Spec == Init /\ [][Next]_vars

(***************************************************************************)
(* Fairness.  The goroutine of the run gets on whenever it can: the grace  *)
(* bounds TerminateTree, the collection timeout the collector.  The timer  *)
(* fires.  The workload need not end, nor its output.                      *)
(***************************************************************************)
FairSpec == Spec /\ WF_vars(RunStep) /\ WF_vars(TimerFires)

-----------------------------------------------------------------------------
(***************************************************************************)
(* Properties.                                                             *)
(***************************************************************************)
Ended == tree = "signalled"

\* The collector never runs beside the workload (docs/architecture.md: after a
\* failed termination "artifact collection is skipped because the workload may
\* still be live").
CollectsAfterTheEnd == run = "collecting" => Ended

\* Neither the artifacts nor the verdict run ahead of the tree: nothing is
\* collected beside the workload, and the verdict names what happened. An exit
\* code belongs to a tree that ended by itself, a timeout to a timer that fired,
\* a cancellation to a context that was done, and every verdict but
\* runtime_failed to a tree that has ended (runForeground, awaitProcess).
VerdictTrue ==
    /\ CollectsAfterTheEnd
    /\ result = "output" =>
        /\ status \in {"completed", "failed"} =>
              exitCode = outcome /\ call["run"] = "idle"
        /\ status = "completed" <=> exitCode = "zero"
        /\ status = "failed" <=> exitCode = "nonzero"
        /\ status = "timed_out" => expired
        /\ status = "cancelled" => cancelled
        /\ status # "runtime_failed" => Ended

\* The report covers all output: once a verdict other than runtime_failed is
\* returned the captures have received everything, and they retain a prefix.
OutputIsWhole ==
    result = "output" /\ status # "runtime_failed" =>
        /\ snapshot = [total |-> total, retained |-> retained]
        /\ retained = IF total < Limit THEN total ELSE Limit

\* The artifact handles go to the caller with a manifest that lists files, and
\* are closed in every other case (refused or invalid manifests, errors).
BundleAccounted ==
    run = "returned" => (bundle = "open" <=> result = "output" /\ manifest = "files")

\* An execution ends with its timeout even if the workload never does.
RunEnds == run = "awaiting" ~> run = "returned"
=============================================================================
