-------------------------- MODULE ControlRepository --------------------------
(***************************************************************************)
(* The private control repository on GitHub, and the one client by which   *)
(* bootstrap, doctor and the uninstaller change it.                        *)
(*                                                                         *)
(* Every operation of githubcontrol.Client is a sequence of HTTP requests: *)
(* the repository, the authenticated user and the collaborators are read   *)
(* one after another, then the object is read, then it is changed.  The    *)
(* owner may edit the repository between any two of them, and an answer    *)
(* may be lost after the request took effect.                              *)
(***************************************************************************)
EXTENDS Naturals, FiniteSets

CONSTANTS
    ControlFiles,   \* the two paths the client may write
    Ours,           \* the content the installation renders
    Foreign,        \* any other content
    NoFile,         \* what a path without a file holds
    RunnerIds,      \* bound: the numeric identities GitHub may give out
    NoRunner        \* no identity

ASSUME RepositoryAssumption ==
    /\ Ours # Foreign /\ Ours # NoFile /\ Foreign # NoFile
    /\ NoRunner \notin RunnerIds

VARIABLES
    repository,  \* visibility, ownership and readership
    files,       \* the content at each control path
    runners,     \* the registered self-hosted runners
    call         \* the operation in progress and the request it sends next

repositoryVars == <<repository, files, runners, call>>

Contents == {Ours, Foreign}

FileOps == {"EnsureControlFile", "VerifyOwnedControlFile",
            "DeleteOwnedControlFile"}
RunnerOps == {"VerifyRunner", "DeleteRunner"}
Ops == FileOps \cup RunnerOps \cup {"runnerToken", "CreatePersonalPrivate"}

Stages == {"idle", "repository", "user", "readers", "content", "recheck",
           "put", "delete", "runners", "deleteRunner", "token", "post"}

\* A runner is ours by its name and the label the registration gives it.
Runner == [id : RunnerIds, named : BOOLEAN, labelled : BOOLEAN]

Idle == [op |-> "none", stage |-> "idle", path |-> "none",
         seen |-> NoFile, runner |-> NoRunner]

RepositoryTypeOK ==
    /\ repository \in [exists : BOOLEAN, private : BOOLEAN,
                       personal : BOOLEAN, exclusive : BOOLEAN]
    /\ files \in [ControlFiles -> Contents \cup {NoFile}]
    /\ runners \subseteq Runner
    /\ call \in [op : Ops \cup {"none"}, stage : Stages,
                 path : ControlFiles \cup {"none"},
                 seen : Contents \cup {NoFile},
                 runner : RunnerIds \cup {NoRunner}]

RepositoryInit ==
    /\ repository \in [exists : BOOLEAN, private : {TRUE},
                       personal : BOOLEAN, exclusive : {TRUE}]
    /\ files = [p \in ControlFiles |-> NoFile]
    /\ runners = {}
    /\ call = Idle

-----------------------------------------------------------------------------
(* The client                                                              *)

Goto(stage) == call' = [call EXCEPT !.stage = stage]

\* The operation returns, with or without an error.
Return == call' = Idle

\* The first request of an operation after VerifyExclusivePrivate.
AfterExclusive(op) ==
    CASE op \in FileOps -> "content"
      [] op \in RunnerOps -> "runners"
      [] OTHER -> "token"

Begin(op) ==
    /\ call = Idle
    /\ \E p \in IF op \in FileOps THEN ControlFiles ELSE {"none"} :
           call' = [Idle EXCEPT !.op = op, !.path = p,
                        !.stage = IF op = "CreatePersonalPrivate"
                                  THEN "user" ELSE "repository"]
    /\ UNCHANGED <<repository, files, runners>>

\* VerifyPrivate: the repository answers by its name and is private.
IsPrivate == repository.exists /\ repository.private

ReadRepository ==
    /\ call.stage = "repository"
    /\ IF IsPrivate THEN Goto("user") ELSE Return
    /\ UNCHANGED <<repository, files, runners>>

\* Creating asks for an owner of the same name as the user, the other
\* operations for an authenticated user who is the owner.
ReadUser ==
    /\ call.stage = "user"
    /\ IF ~repository.personal THEN Return
       ELSE IF call.op = "CreatePersonalPrivate" THEN Goto("post")
       ELSE Goto("readers")
    /\ UNCHANGED <<repository, files, runners>>

ReadCollaborators ==
    /\ call.stage = "readers"
    /\ IF repository.exclusive THEN Goto(AfterExclusive(call.op)) ELSE Return
    /\ UNCHANGED <<repository, files, runners>>

\* EnsureControlFile accepts an equal file, refuses another, creates a
\* missing one; the owned operations ask for the expected digest.
ReadContent ==
    /\ call.stage = "content"
    /\ CASE files[call.path] = NoFile /\ call.op = "EnsureControlFile" ->
              Goto("put")
         [] files[call.path] = Ours /\ call.op = "DeleteOwnedControlFile" ->
              Goto("recheck")
         [] OTHER -> Return
    /\ UNCHANGED <<repository, files, runners>>

\* DeleteOwnedControlFile reads the file once more and keeps its blob SHA.
RereadContent ==
    /\ call.stage = "recheck"
    /\ IF files[call.path] = Ours
       THEN call' = [call EXCEPT !.stage = "delete", !.seen = files[call.path]]
       ELSE Return
    /\ UNCHANGED <<repository, files, runners>>

\* A PUT without a blob SHA creates; GitHub refuses it when a file exists.
PutContent ==
    /\ call.stage = "put"
    /\ files' = IF files[call.path] = NoFile
                THEN [files EXCEPT ![call.path] = Ours] ELSE files
    /\ Return
    /\ UNCHANGED <<repository, runners>>

\* Fault: the request deletes whatever blob the path holds.
DeleteAnyContent ==
    /\ call.stage = "delete"
    /\ files' = [files EXCEPT ![call.path] = NoFile]
    /\ Return
    /\ UNCHANGED <<repository, runners>>

\* A DELETE names the blob it means; GitHub refuses it for another one.
DeleteContent ==
    /\ call.stage = "delete"
    /\ files' = IF files[call.path] = call.seen
                THEN [files EXCEPT ![call.path] = NoFile] ELSE files
    /\ Return
    /\ UNCHANGED <<repository, runners>>

\* The runner is found when one runner has the name and that one the label.
FoundRunners == {r \in runners : r.named}

ListRunners ==
    /\ call.stage = "runners"
    /\ IF /\ Cardinality(FoundRunners) = 1
          /\ \A r \in FoundRunners : r.labelled
          /\ call.op = "DeleteRunner"
       THEN \E r \in FoundRunners :
               call' = [call EXCEPT !.stage = "deleteRunner", !.runner = r.id]
       ELSE Return
    /\ UNCHANGED <<repository, files, runners>>

DeleteListedRunner ==
    /\ call.stage = "deleteRunner"
    /\ runners' = {r \in runners : r.id # call.runner}
    /\ Return
    /\ UNCHANGED <<repository, files>>

\* The token is handed to the runner's own configuration, which registers or
\* removes a runner with it: an edit of the owner, for the repository.
RequestToken ==
    /\ call.stage = "token"
    /\ Return
    /\ UNCHANGED <<repository, files, runners>>

PostRepository ==
    /\ call.stage = "post"
    /\ repository' = IF repository.exists THEN repository
                     ELSE [repository EXCEPT !.exists = TRUE,
                              !.private = TRUE, !.exclusive = TRUE]
    /\ Return
    /\ UNCHANGED <<files, runners>>

\* A request that fails before it takes effect, an unexpected status, a page
\* that is not the last, a response over its limit.
RequestFails ==
    /\ call.stage # "idle"
    /\ Return
    /\ UNCHANGED <<repository, files, runners>>

ClientNext ==
    \/ \E op \in Ops : Begin(op)
    \/ ReadRepository
    \/ ReadUser
    \/ ReadCollaborators
    \/ ReadContent
    \/ RereadContent
    \/ PutContent
    \/ DeleteContent
    \/ ListRunners
    \/ DeleteListedRunner
    \/ RequestToken
    \/ PostRepository
    \/ RequestFails

-----------------------------------------------------------------------------
(* The owner of the repository, who edits it at any time                   *)

OwnerChangesAccess ==
    /\ repository.exists
    /\ \E private, exclusive \in BOOLEAN :
           repository' = [repository EXCEPT !.private = private,
                                            !.exclusive = exclusive]
    /\ UNCHANGED <<files, runners, call>>

OwnerEditsFile ==
    /\ repository.exists
    /\ \E p \in ControlFiles, c \in Contents \cup {NoFile} :
           files' = [files EXCEPT ![p] = c]
    /\ UNCHANGED <<repository, runners, call>>

\* A runner is removed, and another may be registered: GitHub gives it an
\* identity no present runner has, and the client's remembered one is spent.
OwnerEditsRunners ==
    /\ repository.exists
    /\ \/ \E r \in runners : runners' = runners \ {r}
       \/ \E i \in RunnerIds \ {call.runner}, named, labelled \in BOOLEAN :
              /\ \A r \in runners : r.id # i
              /\ runners' = runners \cup
                     {[id |-> i, named |-> named, labelled |-> labelled]}
    /\ UNCHANGED <<repository, files, call>>

OwnerNext == OwnerChangesAccess \/ OwnerEditsFile \/ OwnerEditsRunners

RepositoryNext == ClientNext \/ OwnerNext

-----------------------------------------------------------------------------
(* Properties                                                              *)

\* However the owner's edits fall between the requests of an operation, the
\* client never overwrites or deletes a control file it did not write, and
\* removes no runner of another name: EnsureControlFile creates and never
\* updates, DeleteOwnedControlFile pins the blob it verified, DeleteRunner
\* pins the identity it verified.  (A step that moves the client is its own.)
OwnersWorkKept ==
    [][call' # call =>
          /\ \A p \in ControlFiles :
                 files'[p] # files[p] => files[p] \in {NoFile, Ours}
          /\ \A r \in runners \ runners' : r.named]_repositoryVars

=============================================================================
