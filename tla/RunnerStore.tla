---------------------------- MODULE RunnerStore ----------------------------
(***************************************************************************)
(* Installation of the GitHub runner on Windows: the package is extracted  *)
(* into the runner root (internal/platform/windows/runnerstore), its       *)
(* configure process registers the workstation at GitHub                   *)
(* (internal/runnerregistration), and the transaction of the installer     *)
(* commits both leases or closes them in reverse order.                    *)
(*                                                                         *)
(* Paths are relative to the runner root, which is <<>>, and case-folded   *)
(* as the file system and the lease fold them.  Any operation on a file    *)
(* may be refused (a sharing violation, a full disk, a context that        *)
(* ended); "refused" remembers that one was.                               *)
(***************************************************************************)
EXTENDS RunnerPackage, FiniteSets

CONSTANTS Archives,        \* packages the installer may be handed
          RuntimeDirs,     \* the work and response directories, a sequence
          ControlImage,    \* the directory and the file of the awg image
          StateFiles,      \* .runner and .credentials: written by "configure"
          Logs             \* what the runner's processes create beside them

ASSUME StoreAssumption ==
    /\ Archives \subseteq Seq([path : Paths, dir : BOOLEAN, plain : BOOLEAN])
    /\ RuntimeDirs \in Seq(Paths)
    /\ ControlImage \in Seq([path : Paths, dir : BOOLEAN])
    /\ StateFiles \subseteq Paths \ {<<>>}
    /\ Logs \subseteq [path : Paths \ {<<>>}, dir : BOOLEAN]
    \* No directory of the runner is one of its state files.
    /\ \A log \in Logs : log.dir => log.path \notin StateFiles

\* reservedRuntimeRoots names the runtime directories, not the control image.
ASSUME ImageAssumption ==
    /\ \A i \in DOMAIN RuntimeDirs : /\ Len(RuntimeDirs[i]) = 1
                                     /\ Fold[RuntimeDirs[i][1]] \in ReservedRoots
    /\ \A i, j \in DOMAIN RuntimeDirs :
           Lower(RuntimeDirs[i]) = Lower(RuntimeDirs[j]) => i = j
    /\ Len(ControlImage) = 2
    /\ ControlImage[1].dir /\ Len(ControlImage[1].path) = 1
    /\ \A i \in DOMAIN RuntimeDirs : Lower(RuntimeDirs[i]) # Lower(ControlImage[1].path)
    /\ ~ControlImage[2].dir /\ Len(ControlImage[2].path) = 2
    /\ Above(ControlImage[2].path) = ControlImage[1].path

VARIABLES archive,     \* the package being installed
          pc,          \* what the installer is doing
          todo,        \* what is left of the list it works through
          disk,        \* objects in the runner root: path -> [dir, whole, sealed]
          lease,       \* runnerstore.Lease: the objects it owns, oldest first
          storage,     \* how the lease ended: "open", "committed", "clean", "failed"
          run,         \* the configure or remove process: its command and outcome
          alive,       \* processes of its job that run: "leader", "helper"
          remote,      \* GitHub has a registration of this runner
          cleanup,     \* registration Lease.cleanupRequired
          failed,      \* the registration or storage rollback met a failure
          registration,\* how it ended: "none", "open", "committed", "clean", "failed"
          refused      \* some operation on a file was refused

vars == <<archive, pc, todo, disk, lease, storage, run, alive, remote, cleanup,
          failed, registration, refused>>

Object(dir, whole, sealed) == [dir |-> dir, whole |-> whole, sealed |-> sealed]
Owned(files, dirs) == [files |-> files, dirs |-> dirs]
NoRun == [command |-> "none", started |-> FALSE, ok |-> FALSE]

Outcome(ok) == [command |-> run.command, started |-> run.started, ok |-> ok]

Remove1(f, x) == [y \in DOMAIN f \ {x} |-> f[y]]
Put(f, x, v) == [y \in DOMAIN f \cup {x} |-> IF y = x THEN v ELSE f[y]]
Children(path) == {p \in DOMAIN disk : p # <<>> /\ Above(p) = path}
Listing(path) == SetToSeq(Children(path))

OwnsDir(path) == \E i \in DOMAIN lease.dirs : lease.dirs[i] = path
OwnsFile(path) == \E i \in DOMAIN lease.files : lease.files[i] = path

\* Everything Provision and InstallControlImage create, in their order.
Layout == <<[path |-> <<>>, dir |-> TRUE]>> \o Extraction(archive)
          \o [i \in DOMAIN RuntimeDirs |-> [path |-> RuntimeDirs[i], dir |-> TRUE]]
          \o ControlImage

Init == /\ archive \in Archives
        /\ pc = "inspect" /\ todo = <<>>
        /\ disk = [path \in {} |-> Object(TRUE, TRUE, TRUE)]
        /\ lease = Owned(<<>>, <<>>) /\ storage = "none"
        /\ run = NoRun /\ alive = {}
        /\ remote = FALSE /\ cleanup = FALSE /\ failed = FALSE
        /\ registration = "none" /\ refused = FALSE

Calls(isRefused) == refused' = (refused \/ isRefused)

---------------------------------------------------------------------------
\* Provisioning of the store.

Inspect == /\ pc = "inspect"
           /\ IF Accepted(archive)
              THEN pc' = "create" /\ todo' = Layout /\ storage' = "open"
              ELSE pc' = "done" /\ UNCHANGED <<todo, storage>>
           /\ UNCHANGED <<archive, disk, lease, run, alive, remote, cleanup, failed,
                          registration, refused>>

\* Lease.Close: the files, then the directories, the newest first.
Rollback == /\ pc' = "close"
            /\ todo' = Reverse(lease'.files) \o Reverse(lease'.dirs)
            /\ failed' = FALSE

\* The parent belongs to the lease, and CREATE_NEW finds no such object.
Creatable(item) ==
    LET path == Lower(item.path)
    IN /\ path \notin DOMAIN disk
       /\ path # <<>> => /\ OwnsDir(Above(path)) /\ Above(path) \in DOMAIN disk
                         /\ disk[Above(path)].dir

Own(item) ==
    IF item.dir THEN [lease EXCEPT !.dirs = Append(@, Lower(item.path))]
    ELSE [lease EXCEPT !.files = Append(@, Lower(item.path))]

\* The object exists and belongs to the lease from here on, whatever fails.
Create(item, whole) ==
    /\ Creatable(item)
    /\ disk' = Put(disk, Lower(item.path), Object(item.dir, whole, TRUE))
    /\ lease' = Own(item)

CreateNext ==
    /\ pc = "create" /\ todo # <<>>
    /\ \/ Create(todo[1], TRUE) /\ Calls(FALSE)
          /\ todo' = Tail(todo) /\ UNCHANGED <<pc, failed>>
       \/ Create(todo[1], FALSE) /\ Calls(TRUE) /\ Rollback
       \/ Calls(Creatable(todo[1])) /\ UNCHANGED <<disk, lease>> /\ Rollback
    /\ UNCHANGED <<archive, storage, run, alive, remote, cleanup, registration>>

---------------------------------------------------------------------------
\* The process of the runner: its steps, and Executor.Run around them.

Start(command, isStarted) ==
    /\ pc' = "running" /\ todo' = <<>>
    /\ run' = [command |-> command, started |-> isStarted, ok |-> FALSE]
    /\ alive' = IF isStarted THEN {"leader"} ELSE {}

\* registration.Provision begins when the store is complete.
Configure == /\ pc = "create" /\ todo = <<>>
             /\ \E isStarted \in BOOLEAN : Start("configure", isStarted)
             /\ registration' = "open"
             /\ UNCHANGED <<archive, disk, lease, storage, remote, cleanup, failed, refused>>

RunnerSpawns == /\ "leader" \in alive
                /\ alive' = alive \cup {"helper"}
                /\ UNCHANGED <<archive, pc, todo, disk, lease, storage, run, remote, cleanup,
                               failed, registration, refused>>

\* Objects of the runner inherit the descriptor of their directory.
RunnerWrites(path, dir) ==
    /\ alive # {}
    /\ path \notin DOMAIN disk /\ Above(path) \in DOMAIN disk
    /\ disk[Above(path)].dir
    /\ disk' = Put(disk, path, Object(dir, TRUE, FALSE))
    /\ UNCHANGED <<archive, pc, todo, lease, storage, run, alive, remote, cleanup, failed,
                   registration, refused>>

WritesLog == \E log \in Logs : RunnerWrites(log.path, log.dir)

WritesState == /\ run.command = "configure" /\ remote
               /\ \E path \in StateFiles : RunnerWrites(path, FALSE)

ErasesState == /\ run.command = "remove" /\ alive # {} /\ ~remote
               /\ \E path \in StateFiles \cap DOMAIN disk :
                      ~disk[path].dir /\ disk' = Remove1(disk, path)
               /\ UNCHANGED <<archive, pc, todo, lease, storage, run, alive, remote, cleanup,
                              failed, registration, refused>>

TalksToGitHub == /\ "leader" \in alive
                 /\ remote' = (run.command = "configure")
                 /\ UNCHANGED <<archive, pc, todo, disk, lease, storage, run, alive, cleanup,
                                failed, registration, refused>>

\* Exit status 0 of either command: GitHub agreed.
ExitsWell == remote = (run.command = "configure")

LeaderExits == /\ "leader" \in alive
               /\ \E ok \in BOOLEAN : /\ ok => ExitsWell
                                      /\ run' = Outcome(ok)
               /\ alive' = alive \ {"leader"}
               /\ UNCHANGED <<archive, pc, todo, disk, lease, storage, remote, cleanup, failed,
                              registration, refused>>

\* Fault: the helpers outlive the leader.
HelpersSpared == alive \ {"leader"}
\* Run returns with the job terminated, whatever became of the leader.
JobTerminated == {}

\* Fault: a command that failed is taken to have done nothing.
CleanupIfConfigured == run.ok
\* ProcessResult.Started: the process may have reached GitHub.
CleanupRequired == run.started

SealAfterRun == /\ pc' = "seal" /\ todo' = Listing(<<>>)
                /\ alive' = JobTerminated
                /\ cleanup' = (cleanup \/ CleanupRequired)

RunReturns == /\ pc = "running" /\ "leader" \notin alive
              /\ SealAfterRun
              /\ UNCHANGED <<archive, disk, lease, storage, run, remote, failed,
                             registration, refused>>

\* The timeout of the command, the limit of its output, a failing call.
RunCutOff == /\ pc = "running"
             /\ SealAfterRun
             /\ run' = Outcome(FALSE)
             /\ UNCHANGED <<archive, disk, lease, storage, remote, failed, registration, refused>>

---------------------------------------------------------------------------
\* SealGeneratedState, and what follows it.

\* Fault: only the files the runner made are adopted.
AdoptFiles(path) == IF disk[path].dir THEN lease
                    ELSE [lease EXCEPT !.files = Append(@, path)]

\* Each object gets the exact descriptor and an owner, a directory's
\* children come next.
Adopt(path) ==
    IF disk[path].dir
    THEN IF OwnsDir(path) THEN lease ELSE [lease EXCEPT !.dirs = Append(@, path)]
    ELSE IF OwnsFile(path) THEN lease ELSE [lease EXCEPT !.files = Append(@, path)]

SealNext == /\ pc = "seal" /\ todo # <<>> /\ todo[1] \in DOMAIN disk
            /\ disk' = [disk EXCEPT ![todo[1]].sealed = TRUE]
            /\ lease' = Adopt(todo[1])
            /\ todo' = Listing(todo[1]) \o Tail(todo)
            /\ UNCHANGED <<archive, pc, storage, run, alive, remote, cleanup, failed,
                           registration, refused>>

\* registration Lease.Close: the remove command, when anything may have
\* reached GitHub; otherwise there is nothing to undo.
CloseRegistration ==
    IF cleanup
    THEN /\ \E isStarted \in BOOLEAN : Start("remove", isStarted)
         /\ UNCHANGED <<lease, failed, registration>>
    ELSE /\ registration' = "clean"
         /\ UNCHANGED <<lease, run, alive>>
         /\ Rollback

\* The files a registration leaves belong to the lease and are as sealed.
VerifyRegistrationState ==
    \A path \in StateFiles : /\ OwnsFile(path) /\ path \in DOMAIN disk
                             /\ ~disk[path].dir /\ disk[path].sealed

SealEnds(sealed) ==
    /\ pc = "seal"
    /\ sealed => todo = <<>>
    /\ ~sealed => todo # <<>>
    /\ Calls(~sealed)
    /\ IF run.command = "remove"
       THEN /\ registration' = IF run.ok /\ sealed THEN "clean" ELSE "failed"
            /\ UNCHANGED <<lease, run, alive>>
            /\ Rollback
       ELSE IF sealed /\ run.ok /\ VerifyRegistrationState
            THEN pc' = "ready" /\ UNCHANGED <<todo, lease, run, alive, failed, registration>>
            ELSE CloseRegistration
    /\ UNCHANGED <<archive, disk, storage, remote, cleanup>>

SealFails == SealEnds(FALSE)
Sealed == SealEnds(TRUE)

---------------------------------------------------------------------------
\* The transaction of the installer, and the rollback of the store.

Commit == /\ pc = "ready"
          /\ registration' = "committed" /\ storage' = "committed"
          /\ pc' = "done"
          /\ UNCHANGED <<archive, todo, disk, lease, run, alive, remote, cleanup, failed, refused>>

\* A later step of the installation failed.
Abort == /\ pc = "ready"
         /\ CloseRegistration
         /\ UNCHANGED <<archive, disk, storage, remote, cleanup, refused>>

Removable(path) ==
    /\ disk[path].sealed
    /\ IF OwnsDir(path) THEN disk[path].dir /\ Children(path) = {} ELSE ~disk[path].dir

\* A missing object is skipped, one that resists is left and remembered.
Undo(path, isRefused) ==
    IF path \notin DOMAIN disk THEN UNCHANGED <<disk, failed>>
    ELSE IF Removable(path) /\ ~isRefused THEN disk' = Remove1(disk, path) /\ UNCHANGED failed
    ELSE failed' = TRUE /\ UNCHANGED disk

CloseNext == /\ pc = "close" /\ todo # <<>>
             /\ \E isRefused \in BOOLEAN : Undo(todo[1], isRefused) /\ Calls(isRefused)
             /\ todo' = Tail(todo)
             /\ UNCHANGED <<archive, pc, lease, storage, run, alive, remote, cleanup, registration>>

Closed == /\ pc = "close" /\ todo = <<>>
          /\ storage' = IF failed THEN "failed" ELSE "clean"
          /\ pc' = "done"
          /\ UNCHANGED <<archive, todo, disk, lease, run, alive, remote, cleanup, failed,
                         registration, refused>>

Runner == \/ RunnerSpawns \/ WritesLog \/ WritesState \/ ErasesState \/ TalksToGitHub
          \/ LeaderExits

Installer == \/ Inspect \/ CreateNext \/ Configure \/ RunReturns \/ RunCutOff
             \/ SealNext \/ SealFails \/ Sealed \/ Commit \/ Abort
             \/ CloseNext \/ Closed

Next == Runner \/ Installer

Spec == Init /\ [][Next]_vars

\* The installer runs on, and the timeout of a command cuts it off.
FairSpec == Spec /\ WF_vars(Installer)

---------------------------------------------------------------------------
TypeOK == /\ archive \in Archives
          /\ pc \in {"inspect", "create", "running", "seal", "ready", "close", "done"}
          /\ storage \in {"none", "open", "committed", "clean", "failed"}
          /\ registration \in {"none", "open", "committed", "clean", "failed"}
          /\ alive \subseteq {"leader", "helper"}
          /\ run \in [command : {"none", "configure", "remove"}, started : BOOLEAN, ok : BOOLEAN]
          /\ remote \in BOOLEAN /\ cleanup \in BOOLEAN
          /\ failed \in BOOLEAN /\ refused \in BOOLEAN

\* The image of a package that was accepted extracts into the fresh root:
\* Lease.CreateDirectory and CreateFile refuse no object of it by
\* themselves, unless an entry names a directory whose parents the
\* archive does not list, or the root of the control image, which
\* reservedRuntimeRoots leaves out.
Orphaned == LET dirs == {Lower(path) : path \in AllDirs(archive)}
            IN \E path \in dirs : ~(ParentsOf(path) \subseteq dirs)
ControlRootTaken == \E path \in AllDirs(archive) \cup AllFiles(archive) :
                        Lower(path) = Lower(ControlImage[1].path)
AcceptedPackageExtracts ==
    pc = "create" /\ todo # <<>> /\ ~Creatable(todo[1]) => Orphaned \/ ControlRootTaken

\* A store that is committed holds the whole package and the state files
\* of the registration, each with the exact descriptor, and nothing with
\* another: no process of the runner outlives SealGeneratedState.
CommittedIsSealed ==
    storage = "committed" =>
        /\ \A i \in DOMAIN Layout :
               /\ Lower(Layout[i].path) \in DOMAIN disk
               /\ disk[Lower(Layout[i].path)].dir = Layout[i].dir
        /\ StateFiles \subseteq DOMAIN disk
        /\ \A path \in DOMAIN disk : disk[path].sealed /\ disk[path].whole
        /\ remote

\* The rollback of the store removes all it finds, what the configure and
\* the remove command left included, unless the system refused something;
\* and it reports "clean" only when nothing is left.
RollbackComplete == /\ storage = "clean" => DOMAIN disk = {}
                    /\ storage = "failed" => refused

\* When an installation that was not committed ends with the runner still
\* registered, registration Lease.Close has reported its failure.
RegistrationAccounted ==
    pc = "done" /\ storage # "committed" /\ remote => registration = "failed"

\* ADR 0019: a removal is attempted before the local storage goes: the
\* rollback of the store starts only when GitHub was asked, if a process
\* ran at all.
RemovalComesFirst ==
    [][pc # "close" /\ pc' = "close" /\ run'.started => run'.command = "remove"]_vars

\* Whatever the runner's processes do, the installation ends.
InstallEnds == <>(pc = "done")

\* What reached GitHub is undone or reported, before the means to undo it are
\* removed, and the installation comes to its end (registration Lease.Close,
\* rollbackLocked, the timeouts of both commands).
RegistrationUndone == []RegistrationAccounted /\ RemovalComesFirst /\ InstallEnds
=============================================================================
