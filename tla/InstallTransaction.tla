------------------------- MODULE InstallTransaction -------------------------
(***************************************************************************)
(* The installers of both platforms (linux/installer.Provision,            *)
(* windows/installer.Provision and Lease.Commit, with the sequence of      *)
(* cmd/awg before and after them) and the uninstallers (uninstaller.Run).  *)
(*                                                                         *)
(* An installation is a fixed sequence of steps.  A step creates an object *)
(* of the host and may fail before its effect, after it, or because        *)
(* somebody else made an object of that name since the preflight.  On      *)
(* failure the installer removes what it has recorded as its own.  The     *)
(* platforms differ in what they record and in what they report:           *)
(*   Linux     sets a flag once a step is complete, and ignores whether    *)
(*             the runner could be deregistered;                           *)
(*   Windows   stacks leases that record an object when it was created,    *)
(*             also when the step then failed, and takes any failure of a  *)
(*             lease's own constructor for the failure of its stage.       *)
(* The installer may be killed between any two steps: nothing of the       *)
(* transaction is on disk.                                                 *)
(***************************************************************************)
EXTENDS Naturals, FiniteSets, SequencesExt

CONSTANTS
    MaxRuns,        \* bound: runs of install and uninstall
    MaxForeign,     \* bound: objects somebody else creates
    MaxStray        \* bound: objects whose removal fails

ASSUME InstallAssumption == MaxRuns \in Nat /\ MaxForeign \in Nat /\ MaxStray \in Nat

VARIABLES
    platform,   \* "linux" or "windows"
    host,       \* what there is: every object absent, ours, foreign or stray
    phase,      \* what the program does
    step,       \* index of the step under way
    recorded,   \* objects the installer removes if it fails
    failedStep, \* the step that failed, or "none"
    masked,     \* objects whose failed removal is not reported
    broken,     \* a removal failed and will be reported
    pending,    \* removals still to be done
    owned,      \* control files this run has created
    saved,      \* whether the approved roots had an entry of ours before
    metadata,   \* what the installation state records: owned files, and the
                \* objects there were before it (history)
    before,     \* our objects when the run began (history)
    verdict,    \* how the last run ended
    runs        \* runs so far

installVars == <<platform, host, phase, step, recorded, failedStep, masked, broken,
                 pending, owned, saved, metadata, before, verdict, runs>>

ControlFiles == {"workflow", "version"}

\* The steps in their order.  The state files are part of the root, the runner
\* package and its control image part of the runner.
LinuxSteps == <<"workflow", "version", "controlGroup", "executionGroup", "controlUser",
                "executionUser", "root", "approvedRoots", "profile", "temp", "runner",
                "registration", "brokerUnit", "runnerUnit", "services">>
WindowsSteps == <<"workflow", "version", "controlUser", "executionUser", "approvedRoots",
                  "profile", "temp", "root", "brokerService", "runner", "registration",
                  "runnerService", "services">>
Steps == IF platform = "linux" THEN LinuxSteps ELSE WindowsSteps
HostObjects == ToSet(LinuxSteps) \cup ToSet(WindowsSteps)

\* The first step of Provision: what precedes it belongs to cmd/awg.
FirstStep == 3
Current == Steps[step]

Present(o) == host[o] # "absent"
Ours == {o \in HostObjects : host[o] \in {"ours", "stray"}}
Strays == {o \in HostObjects : host[o] = "stray"}
Foreign == {o \in HostObjects : host[o] = "foreign"}

\* The lease of the Windows transaction an object belongs to.
Stage(o) ==
    CASE o \in {"controlUser", "executionUser"} -> {"controlUser", "executionUser"}
      [] o \in {"approvedRoots", "profile", "temp"} -> {"approvedRoots", "profile", "temp"}
      [] OTHER -> {o}

\* Fault: the saved ACLs go with the root before they are restored.
RollbackOrderRootFirst ==
    IF platform = "linux"
    THEN <<"services", "runnerUnit", "brokerUnit", "registration", "root", "approvedRoots",
           "runner", "profile", "temp", "executionUser", "controlUser", "executionGroup",
           "controlGroup">>
    ELSE Reverse(WindowsSteps)

\* Fault: the temp root is forgotten.
RollbackOrderKeepsTemp ==
    IF platform = "linux"
    THEN <<"services", "runnerUnit", "brokerUnit", "registration", "approvedRoots", "runner",
           "profile", "root", "executionUser", "controlUser", "executionGroup",
           "controlGroup">>
    ELSE Reverse(WindowsSteps)

\* rollback and rollbackLocked: the order in which recorded objects go.
RollbackOrder ==
    IF platform = "linux"
    THEN <<"services", "runnerUnit", "brokerUnit", "registration", "approvedRoots", "runner",
           "profile", "temp", "root", "executionUser", "controlUser", "executionGroup",
           "controlGroup">>
    ELSE Reverse(WindowsSteps)

\* Fault: the object the failing step was about goes too.
RollbackTargetsCurrent(own) == own \cup {Current}

\* One flag stands for both units and the services.
RollbackTargets(own) ==
    IF platform = "linux" /\ "brokerUnit" \in own
    THEN own \cup {"services", "runnerUnit"} ELSE own

UninstallOrder ==
    IF platform = "linux"
    THEN <<"services", "registration", "workflow", "version", "runnerUnit", "brokerUnit",
           "approvedRoots", "runner", "temp", "profile", "root", "executionUser",
           "executionGroup", "controlUser", "controlGroup">>
    ELSE <<"services", "registration", "workflow", "version", "runnerService",
           "brokerService", "runner", "approvedRoots", "temp", "profile", "root",
           "executionUser", "controlUser">>

\* The removals are made in the order of the list: it is the turn of an object when
\* nothing before it is still to be done.
RemovalOrder == IF phase = "uninstall" THEN UninstallOrder ELSE RollbackOrder
Turn(o) ==
    /\ o \in pending
    /\ \E i \in DOMAIN RemovalOrder :
           /\ RemovalOrder[i] = o
           /\ \A j \in 1..(i - 1) : RemovalOrder[j] \notin pending

\* What must still be there for a removal to be possible: the runner's own
\* script deregisters it, under the control account on Linux; the saved ACLs are
\* in the root; systemctl knows the services by both unit files.
Tools(o) ==
    CASE o = "registration" /\ phase = "rollback" ->
              IF platform = "linux" THEN {"runner", "controlUser"} ELSE {"runner"}
      [] o = "approvedRoots" /\ platform = "linux" -> {"root"}
      [] o = "services" /\ platform = "linux" -> {"brokerUnit", "runnerUnit"}
      [] OTHER -> {}
\* A group that is still somebody's primary group is not deleted.
InUse(o) ==
    \/ o = "executionGroup" /\ "executionUser" \in Ours
    \/ o = "controlGroup" /\ "controlUser" \in Ours
CanBeRemoved(o) == (\A t \in Tools(o) : Present(t)) /\ ~InUse(o)
Without(o) == [host EXCEPT ![o] = IF o = "approvedRoots" THEN saved ELSE "absent"]
\* An object whose removal failed stays where it was.
Stray(o) == [host EXCEPT ![o] = IF @ = "ours" THEN "stray" ELSE @]

Phases == {"idle", "install", "rollback", "commitRunner", "commitService", "start",
           "uninstall"}
Verdicts == {"none", "installed", "failed", "rollback-failed", "start-failed",
             "uninstalled", "uninstall-failed", "killed"}

InstallTypeOK ==
    /\ platform \in {"linux", "windows"}
    /\ host \in [HostObjects -> {"absent", "ours", "foreign", "stray"}]
    /\ phase \in Phases /\ verdict \in Verdicts
    /\ step \in 1..Len(Steps)
    /\ recorded \subseteq HostObjects /\ masked \subseteq HostObjects
    /\ failedStep \in HostObjects \cup {"none", "commitRunner", "commitService"}
    /\ broken \in BOOLEAN
    /\ pending \subseteq HostObjects
    /\ owned \subseteq ControlFiles /\ saved \in {"absent", "ours", "stray"}
    /\ metadata \in [owned : SUBSET ControlFiles, before : SUBSET HostObjects]
    /\ before \subseteq HostObjects
    /\ runs \in 0..MaxRuns

-----------------------------------------------------------------------------
InstallInit ==
    /\ platform \in {"linux", "windows"}
    /\ host = [o \in HostObjects |-> "absent"]
    /\ phase = "idle" /\ step = 1
    /\ recorded = {} /\ failedStep = "none" /\ masked = {} /\ broken = FALSE
    /\ pending = {}
    /\ owned = {} /\ saved = "absent"
    /\ metadata = [owned |-> {}, before |-> {}]
    /\ before = {}
    /\ verdict = "none" /\ runs = 0

\* Somebody else makes an object of a name the installer uses.
ForeignAppears(o) ==
    /\ Cardinality(Foreign) < MaxForeign
    /\ o \in ToSet(Steps) \ {"approvedRoots", "services"}
    /\ ~Present(o)
    /\ host' = [host EXCEPT ![o] = "foreign"]
    /\ UNCHANGED <<platform, phase, step, recorded, failedStep, masked, broken, pending,
                   owned, saved, metadata, before, verdict, runs>>

End(v) == phase' = "idle" /\ verdict' = v

-----------------------------------------------------------------------------
(***************************************************************************)
(* awg install.                                                            *)
(***************************************************************************)
Install ==
    /\ phase = "idle" /\ runs < MaxRuns
    /\ runs' = runs + 1
    /\ phase' = "install" /\ step' = 1
    /\ recorded' = {} /\ failedStep' = "none" /\ masked' = {} /\ broken' = FALSE
    /\ owned' = {} /\ before' = Ours /\ verdict' = "none"
    /\ UNCHANGED <<platform, host, pending, saved, metadata>>

\* EnsureControlFile creates a missing file and accepts one of equal content,
\* then without owning it.
EnsureControlFile ==
    /\ phase = "install" /\ step < FirstStep
    /\ host' = [host EXCEPT ![Current] = IF @ = "absent" THEN "ours" ELSE @]
    /\ owned' = IF Present(Current) THEN owned ELSE owned \cup {Current}
    /\ step' = step + 1
    /\ UNCHANGED <<platform, phase, recorded, failedStep, masked, broken, pending, saved,
                   metadata, before, verdict, runs>>

\* A file of other content, a call that fails, a created file whose confirmation is
\* lost, or an existing object the preflight of Provision finds; none of it is
\* rolled back.
Refused ==
    /\ phase = "install" /\ step <= FirstStep
    /\ \/ host' = host
       \/ /\ step < FirstStep /\ ~Present(Current)
          /\ host' = [host EXCEPT ![Current] = "ours"]
    /\ failedStep' = Current
    /\ End("failed")
    /\ UNCHANGED <<platform, step, recorded, masked, broken, pending, owned, saved,
                   metadata, before, runs>>

\* What the preflight of Provision requires to be absent: everything of its own
\* on Linux, the two services on Windows.
Preflighted ==
    IF platform = "linux"
    THEN {"controlGroup", "executionGroup", "controlUser", "executionUser", "root",
          "profile", "temp", "runner", "brokerUnit", "runnerUnit"}
    ELSE {"brokerService", "runnerService"}
Preflight == step = FirstStep => \A o \in Preflighted : ~Present(o)

Provisions == phase = "install" /\ step >= FirstStep /\ Preflight

\* A step is done: the next one, or on Windows the commit.  The state in the
\* root records which control files this run created.
CreateObject ==
    /\ Provisions
    /\ Current = "approvedRoots" \/ ~Present(Current)
    /\ host' = [host EXCEPT ![Current] = "ours"]
    /\ recorded' = recorded \cup {Current}
    /\ saved' = IF Current = "approvedRoots" THEN host[Current] ELSE saved
    /\ metadata' = IF Current = "root" THEN [owned |-> owned, before |-> before]
                   ELSE metadata
    /\ CASE Current = "services" -> End("installed") /\ step' = step
         [] Current = "runnerService" ->
                phase' = "commitRunner" /\ step' = step + 1 /\ verdict' = verdict
         [] OTHER -> step' = step + 1 /\ UNCHANGED <<phase, verdict>>
    /\ UNCHANGED <<platform, failedStep, masked, broken, pending, owned, before, runs>>

\* The installer gives up: what it has recorded is to be removed.
GiveUp(s, own) ==
    /\ failedStep' = s
    /\ phase' = "rollback"
    /\ pending' = ToSet(RollbackOrder) \cap RollbackTargets(own)
    /\ recorded' = own
    /\ UNCHANGED <<platform, step, broken, owned, metadata, before, verdict, runs>>

\* The constructor of a Windows lease reports its own failure only; failures
\* after it, in a root or a runner store that exists, are the transaction's.
Masked ==
    IF platform = "linux" THEN {{"registration"}}
    ELSE {Stage(Current)} \cup IF Current \in {"root", "runner"} THEN {{}} ELSE {}

\* A step, or a check before it, fails without an effect.
StepFails ==
    /\ Provisions
    /\ \E m \in Masked : masked' = m
    /\ GiveUp(Current, recorded)
    /\ UNCHANGED <<host, saved>>

\* A step fails after its effect.  Linux sets the flag only afterwards.  Windows
\* records what was created, but for the workload's directories: the undoing of
\* a failed convergence is deferred without being called.
StepFailsLate ==
    /\ Provisions
    /\ Current = "approvedRoots" \/ ~Present(Current)
    /\ host' = [host EXCEPT ![Current] = "ours"]
    /\ saved' = IF Current = "approvedRoots" THEN host[Current] ELSE saved
    /\ \E m \in Masked : masked' = m
    /\ GiveUp(Current,
                IF platform = "linux" \/ Current \in {"approvedRoots", "profile", "temp"}
                THEN recorded ELSE recorded \cup {Current})

\* Linux: one removal of rollback.  Windows: one of a lease's Close.
RemoveObject ==
    /\ phase = "rollback"
    /\ \E o \in pending :
           /\ Turn(o) /\ CanBeRemoved(o)
           /\ host' = Without(o)
           /\ pending' = pending \ {o}
    /\ UNCHANGED <<platform, phase, step, recorded, failedStep, masked, broken, owned,
                   saved, metadata, before, verdict, runs>>

RemoveFails ==
    /\ phase = "rollback"
    /\ \E o \in pending :
           /\ Turn(o)
           /\ CanBeRemoved(o) => Cardinality(Strays) < MaxStray
           /\ host' = Stray(o)
           /\ broken' = (broken \/ o \notin masked)
           /\ pending' = pending \ {o}
    /\ UNCHANGED <<platform, phase, step, recorded, failedStep, masked, owned, saved,
                   metadata, before, verdict, runs>>

RollbackEnds ==
    /\ phase = "rollback" /\ pending = {}
    /\ End(IF broken THEN "rollback-failed" ELSE "failed")
    /\ UNCHANGED <<platform, host, step, recorded, failedStep, masked, broken, pending,
                   owned, saved, metadata, before, runs>>

\* Lease.Commit: each service in turn leaves the transaction when its handle is
\* closed; everything else follows and cannot fail.
CommitRunnerService ==
    /\ phase = "commitRunner"
    /\ phase' = "commitService" /\ recorded' = recorded \ {"runnerService"}
    /\ UNCHANGED <<platform, host, step, failedStep, masked, broken, pending, owned, saved,
                   metadata, before, verdict, runs>>

CommitService ==
    /\ phase = "commitService"
    /\ phase' = "start" /\ recorded' = {}
    /\ UNCHANGED <<platform, host, step, failedStep, masked, broken, pending, owned, saved,
                   metadata, before, verdict, runs>>

CommitFails ==
    /\ phase \in {"commitRunner", "commitService"}
    /\ masked' = {}
    /\ GiveUp(phase, recorded)
    /\ UNCHANGED <<host, saved>>

\* servicectl.Start, after the commit: it stops the broker again when the runner
\* does not start, if it can.  Nothing is removed.
StartServices ==
    /\ phase = "start"
    /\ \/ host' = [host EXCEPT !["services"] = "ours"] /\ End("installed")
       \/ host' = [host EXCEPT !["services"] = "ours"] /\ End("start-failed")
       \/ host' = host /\ End("start-failed")
    /\ UNCHANGED <<platform, step, recorded, failedStep, masked, broken, pending, owned,
                   saved, metadata, before, runs>>

-----------------------------------------------------------------------------
(***************************************************************************)
(* awg uninstall.                                                          *)
(***************************************************************************)
\* What InspectInstalled and the verification of the remote objects require.
Intact ==
    /\ \A o \in ToSet(Steps) \ ({"services"} \cup ControlFiles) : host[o] \in {"ours", "stray"}
    /\ \A o \in metadata.owned : Present(o)

Uninstall ==
    /\ phase = "idle" /\ runs < MaxRuns
    /\ Intact
    /\ runs' = runs + 1
    /\ phase' = "uninstall" /\ verdict' = "none"
    /\ pending' = {o \in ToSet(UninstallOrder) : o \in ControlFiles => o \in metadata.owned}
    /\ UNCHANGED <<platform, host, step, recorded, failedStep, masked, broken, owned,
                   saved, metadata, before>>

UninstallObject ==
    /\ phase = "uninstall"
    /\ \E o \in pending :
           /\ Turn(o) /\ CanBeRemoved(o)
           /\ host' = Without(o)
           /\ pending' = pending \ {o}
    /\ UNCHANGED <<platform, phase, step, recorded, failedStep, masked, broken, owned,
                   saved, metadata, before, verdict, runs>>

\* Fault: a removal that fails does not end the run.
UninstallGoesOn ==
    /\ phase = "uninstall"
    /\ \E o \in pending : Turn(o) /\ pending' = pending \ {o}
    /\ UNCHANGED <<platform, host, phase, step, recorded, failedStep, masked, broken,
                   owned, saved, metadata, before, verdict, runs>>

\* The first failure ends the run.
UninstallFails ==
    /\ phase = "uninstall" /\ pending # {}
    /\ End("uninstall-failed")
    /\ UNCHANGED <<platform, host, step, recorded, failedStep, masked, broken, pending,
                   owned, saved, metadata, before, runs>>

UninstallEnds ==
    /\ phase = "uninstall" /\ pending = {}
    /\ End("uninstalled")
    /\ UNCHANGED <<platform, host, step, recorded, failedStep, masked, broken, pending,
                   owned, saved, metadata, before, runs>>

\* The program is killed.
Killed ==
    /\ phase # "idle"
    /\ End("killed")
    /\ UNCHANGED <<platform, host, step, recorded, failedStep, masked, broken, pending,
                   owned, saved, metadata, before, runs>>

-----------------------------------------------------------------------------
InstallNext ==
    \/ \E o \in HostObjects : ForeignAppears(o)
    \/ Install \/ EnsureControlFile \/ Refused \/ CreateObject \/ StepFails \/ StepFailsLate
    \/ RemoveObject \/ RemoveFails \/ RollbackEnds
    \/ CommitRunnerService \/ CommitService \/ CommitFails \/ StartServices
    \/ Uninstall \/ UninstallObject \/ UninstallFails \/ UninstallEnds
    \/ Killed

InstallSpec == InstallInit /\ [][InstallNext]_installVars

-----------------------------------------------------------------------------
(***************************************************************************)
(* Properties.                                                             *)
(***************************************************************************)
NewObjects == Ours \ before

\* What the step that failed may leave although its rollback reports no failure.
Residue ==
    CASE platform = "linux" -> {failedStep, "registration"}
      [] failedStep = "commitRunner" -> {}
      [] failedStep = "commitService" -> {"runnerService"}
      [] OTHER -> Stage(failedStep)

\* An installation that fails and says nothing of a failed rollback leaves at most
\* the control files, what its failing step made and, on Linux, the registration of
\* the runner; a Windows commit that fails at its second service leaves the first.
CleanFailureLeavesLittle ==
    phase = "idle" /\ verdict = "failed" => NewObjects \subseteq ControlFiles \cup Residue

\* Neither rollback nor uninstallation removes what somebody else made, whenever it
\* appeared, but for a runner unit on Linux: one flag covers both units.
ForeignObjectsKept ==
    \A o \in HostObjects :
        host[o] = "foreign" /\ ~(platform = "linux" /\ o = "runnerUnit")
            => host'[o] = "foreign"
ForeignKept == [][ForeignObjectsKept]_installVars

\* The services run only while everything the installation consists of is there:
\* they start last and stop first, in a rollback and in an uninstallation too.
ServicesNeedEverything ==
    host["services"] = "ours" => \A o \in ToSet(Steps) : Present(o)

\* A removal whose turn has come is possible: what it works with is still there
\* and nothing depends on its object, unless an earlier removal has failed or the
\* failing step made something the rollback does not know of.
RemovalsPossible ==
    phase \in {"rollback", "uninstall"} =>
        \A o \in pending : Turn(o) /\ host[o] = "ours" =>
            CanBeRemoved(o) \/ Strays # {} \/ failedStep \in Ours \ recorded

\* The objects are made and unmade in an order their dependencies allow,
\* over every failure in between (the step lists of the installers).
DependenciesKept == ServicesNeedEverything /\ RemovalsPossible

\* An uninstallation that reports success leaves of ours only what was there before
\* the installation it undoes: control files and ACL entries of failed attempts.
UninstallRestores ==
    phase = "idle" /\ verdict = "uninstalled" => Ours \subseteq metadata.before

\* docs/windows.md and docs/adr/0009 of the convergence of the approved roots and
\* the workload's directories: an installation that fails there, with a rollback
\* that reports no failure, leaves none of its changes.
FailedConvergenceRestores ==
    phase = "idle" /\ verdict = "failed" /\ platform = "windows"
        /\ failedStep \in Stage("profile") /\ Strays = {}
        => NewObjects \subseteq ControlFiles
=============================================================================
