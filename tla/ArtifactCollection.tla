-------------------------- MODULE ArtifactCollection --------------------------
(***************************************************************************)
(* The artifact collectors: src/internal/platform/linux/artifact and       *)
(* src/internal/platform/windows/artifact, up to the moment the runner     *)
(* has a manifest and a bundle (collectArtifacts).                         *)
(*                                                                         *)
(* On Linux the broker starts a helper under the execution identity.  The  *)
(* helper walks the working directory, opens what the patterns select,     *)
(* writes a plan and then the contents into a pipe; the broker copies them *)
(* into files of its own.  On Windows the walk runs in the broker under    *)
(* an impersonated token, and the bundle keeps the opened handles, which   *)
(* deny writers.                                                           *)
(*                                                                         *)
(* Background processes of the execution identity go on while a            *)
(* foreground execution is collected: they are the environment that        *)
(* changes the tree between two steps of the walk.  A path resolves through *)
(* its parents at the moment it is used; a directory replaced by a link    *)
(* leads outside.  A file is opened and checked in one step: the checks    *)
(* look at the descriptor.  Sizes are small numbers, the content of a file *)
(* is one part of the pipe, the order of the manifest is the order of the  *)
(* walk, and the patterns are listed in the order of their groups.         *)
(***************************************************************************)
EXTENDS ArtifactPattern, SequencesExt

CONSTANTS
    WalkOrder,      \* the paths a tree may have, parents first; the first is <<>>
    Patterns,       \* the selections: a sequence of [group, pattern]
    Sensitive,      \* names of segments that are never entered
    LinuxTrees, WindowsTrees,   \* what a collection may find at each path
    MaxChanges,     \* bound: changes to the tree during a collection
    MaxFiles,       \* v1.MaxArtifactFiles
    MaxScanned,     \* maxScannedEntries
    MaxTotal,       \* v1.MaxTotalArtifactBytes
    MaxPlan,        \* maxPlanBytes
    PipeParts       \* parts the pipe holds

Paths == ToSet(WalkOrder)
Selections == DOMAIN Patterns
Trees(p) == IF p = "linux" THEN LinuxTrees ELSE WindowsTrees

\* What a name may stand for.  A fifo is opened only when somebody writes to it,
\* a file that is denied or a directory that is closed refuses to be read, and a
\* linked file has other names.
Kinds == {"absent", "dir", "closed", "file", "large", "linked", "fifo", "denied", "symlink"}

\* Why a pattern has an omission, but for "no_match", which only Omissions gives.
Reasons == {"", "policy_rejected", "read_failed", "link_rejected", "file_limit",
            "unsupported_type", "byte_limit", "collection_failed"}

\* Names are listed once, parents first; a collection has a selection; the working
\* directory is not a file (validatePlan, openVerifiedDirectory).
ASSUME CollectionAssumption ==
    /\ WalkOrder \in Seq(Seq(STRING)) /\ WalkOrder # <<>> /\ WalkOrder[1] = <<>>
    /\ \A i, j \in DOMAIN WalkOrder : WalkOrder[i] = WalkOrder[j] => i = j
    /\ \A p \in Paths \ {<<>>} : Parent(p) \in Paths
    /\ \A i, j \in DOMAIN WalkOrder : j # 1 /\ WalkOrder[i] = Parent(WalkOrder[j]) => i < j
    /\ Patterns \in Seq([group : STRING, pattern : Seq(STRING)]) /\ Patterns # <<>>
    /\ LinuxTrees \cup WindowsTrees \subseteq [Paths -> Kinds]
    /\ \A t \in LinuxTrees \cup WindowsTrees : t[<<>>] \in {"absent", "dir", "closed", "symlink"}
    /\ {MaxChanges, MaxFiles, MaxScanned, MaxTotal, MaxPlan} \subseteq Nat
    /\ PipeParts \in Nat \ {0}

VARIABLES
    platform,
    tree,           \* what is at each path
    changes,        \* changes made so far
    walk, place,    \* the walk, and the entry it is at
    listed,         \* what the enumeration of its directory said of each path
    scanned,        \* entries seen
    pending,        \* groups still to be served at this entry
    opened,         \* the opened files
    written,        \* of these, those written to since
    reason,         \* patternState.reason
    collected,      \* patternState.collected
    helper,         \* the helper process
    sent, got,      \* parts written to and read from the pipe
    expired,        \* the context of the collection is done
    caller,         \* where Collect is
    bundle,
    artifacts       \* what collectArtifacts returned

treeVars == <<platform, tree, changes, written>>
entryVars == <<walk, place, listed, scanned, pending>>
patternVars == <<opened, reason, collected>>
walkVars == <<entryVars, patternVars>>
pipeVars == <<helper, sent, got>>
callVars == <<caller, bundle, artifacts>>
collectVars == <<treeVars, walkVars, pipeVars, expired, callVars>>

Here == WalkOrder[place]
Size(kind) == IF kind = "large" THEN 2 ELSE 1
TotalSize(files) ==
    LET sum[n \in 0..Len(files)] == IF n = 0 THEN 0 ELSE sum[n - 1] + files[n].size
    IN sum[Len(files)]

\* Indices of the patterns.
Selecting(group, path) ==
    {i \in Selections : Patterns[i].group = group /\ Match(Patterns[i].pattern, path)}
Reaching(path) ==
    {i \in Selections : \/ Match(Patterns[i].pattern, path)
                        \/ CouldMatchDescendant(Patterns[i].pattern, path)}
GroupsOf(path) == {Patterns[i].group : i \in {i \in Selections : Match(Patterns[i].pattern, path)}}
FirstOf(groups) == Patterns[Min({i \in Selections : Patterns[i].group \in groups})].group

\* hasSensitiveSegment, and ValidateArtifactFilePath, which knows the same names.
HasSensitiveSegment(path) == \E i \in DOMAIN path : path[i] \in Sensitive

\* What a path leads to when it is used.
At(path) ==
    LET above == {q \in Paths : IsStrictPrefix(q, path)}
    IN IF \E q \in above : tree[q] = "symlink" THEN "outside"
       ELSE IF \E q \in above : tree[q] # "dir" THEN "absent"
       ELSE tree[path]

-----------------------------------------------------------------------------
(***************************************************************************)
(* What is made of a finished walk.                                        *)
(***************************************************************************)

Omissions ==
    {[pattern |-> i, reason |-> IF reason[i] = "" THEN "no_match" ELSE reason[i]] :
        i \in {i \in Selections : reason[i] # "" \/ i \notin collected}}

Status(files, omissions) ==
    IF files = <<>> THEN "failed"
    ELSE IF omissions # {} THEN "complete_with_omissions" ELSE "complete"

Manifest == [status |-> Status(opened, Omissions), files |-> opened, omissions |-> Omissions]

FailedManifest ==
    [status |-> "failed", files |-> <<>>,
     omissions |-> {[pattern |-> i, reason |-> "collection_failed"] : i \in Selections}]

StatusShape(m) ==
    CASE m.status = "complete" -> m.files # <<>> /\ m.omissions = {}
      [] m.status \in {"complete_with_omissions", "failed"} -> m.omissions # {}

Unique(files) == \A i, j \in DOMAIN files :
    files[i].group = files[j].group /\ files[i].path = files[j].path => i = j

ValidManifest(m) ==
    /\ StatusShape(m)
    /\ Len(m.files) <= MaxFiles
    /\ Unique(m.files)
    /\ \A f \in ToSet(m.files) : ~HasSensitiveSegment(f.path)
    /\ TotalSize(m.files) <= MaxTotal

Selected(files) == \A f \in ToSet(files) : Selecting(f.group, f.path) # {}

\* validateHelperPlan
PlanAccepted ==
    /\ Len(opened) <= MaxFiles
    /\ Selected(opened) /\ Unique(opened)
    /\ TotalSize(opened) <= MaxTotal

\* artifactCollectionAllowed
Allowed(m) == Selected(m.files) /\ \A o \in m.omissions : o.pattern \in Selections

PlanSize == FoldSeq(LAMBDA f, sum : Len(f.path) + sum, 0, opened)

-----------------------------------------------------------------------------
Nowhere == [p \in Paths |-> "absent"]

CollectInit ==
    /\ platform \in {"linux", "windows"}
    /\ tree \in Trees(platform)
    /\ changes = 0 /\ written = {}
    /\ walk = "idle" /\ place = 1 /\ scanned = 0 /\ pending = {}
    /\ listed = [Nowhere EXCEPT ![<<>>] = "dir"]
    /\ opened = <<>> /\ reason = [i \in Selections |-> ""] /\ collected = {}
    /\ helper = "none" /\ sent = 0 /\ got = 0
    /\ expired = FALSE
    /\ caller = "start" /\ bundle = "none" /\ artifacts = FailedManifest

(***************************************************************************)
(* The environment.  A Windows handle without write and delete sharing     *)
(* keeps the file and the directories above it.                            *)
(***************************************************************************)
Disturb ==
    /\ changes < MaxChanges
    /\ caller \notin {"start", "returned"}
    /\ changes' = changes + 1
    /\ UNCHANGED <<platform, walkVars, pipeVars, expired, callVars>>

Change(p) ==
    /\ Disturb
    /\ platform = "windows" => \A f \in ToSet(opened) : ~IsPrefix(p, f.path)
    /\ \E k \in {t[p] : t \in Trees(platform)} \ {tree[p]} : tree' = [tree EXCEPT ![p] = k]
    /\ UNCHANGED written

WriteTo(i) ==
    /\ Disturb
    /\ platform = "linux"
    /\ written' = written \cup {j \in DOMAIN opened : opened[j].path = opened[i].path}
    /\ UNCHANGED tree

\* Fault: the helper is not killed.
ExpireContextOnly ==
    /\ caller \notin {"start", "returned"}
    /\ ~expired
    /\ expired' = TRUE
    /\ UNCHANGED <<treeVars, walkVars, pipeVars, callVars>>

Expire ==
    /\ caller \notin {"start", "returned"}
    /\ ~expired
    /\ expired' = TRUE
    /\ helper' = IF helper = "alive" THEN "killed" ELSE helper
    /\ UNCHANGED <<treeVars, walkVars, sent, got, callVars>>

-----------------------------------------------------------------------------
(***************************************************************************)
(* The walk: filepath.WalkDir with the callbacks of the two collectors.    *)
(***************************************************************************)
Aside == UNCHANGED <<treeVars, pipeVars, expired, callVars>>

Walking(step) ==
    /\ walk = step
    /\ IF platform = "linux" THEN helper = "alive" ELSE caller = "walking"
    /\ Aside

\* The callback of Windows looks at the context first.
Callback == Walking("visiting") /\ ~(platform = "windows" /\ expired)

Note(indices, why) ==
    reason' = [i \in Selections |-> IF i \in indices /\ reason[i] = "" THEN why ELSE reason[i]]

Continue(seen) ==
    LET later == {j \in DOMAIN WalkOrder : j > place /\ seen[WalkOrder[j]] # "absent"}
    IN /\ listed' = seen
       /\ IF later = {} THEN walk' = "walked" /\ UNCHANGED place
          ELSE walk' = "visiting" /\ place' = Min(later)

IsDirectory(kind) == kind \in {"dir", "closed"}

\* Whether the path, were it a link, leads to a directory.
LeadsToDirectory(path) == \E p \in Paths \ {<<>>} : Parent(p) = path

Rejection(path) ==
    IF HasSensitiveSegment(path) THEN "policy_rejected"
    ELSE IF platform = "linux" THEN IF listed[path] = "symlink" THEN "link_rejected" ELSE ""
    ELSE CASE At(path) = "absent" -> "read_failed"
           [] At(path) = "symlink" -> "link_rejected"
           [] OTHER -> ""

\* SkipDir for an entry that was not listed as a directory ends the
\* enumeration of the directory it is in.
AfterRejection(path) ==
    IF /\ platform = "windows"
       /\ Rejection(path) = "link_rejected"
       /\ LeadsToDirectory(path)
       /\ ~IsDirectory(listed[path])
    THEN [p \in Paths |-> IF p # <<>> /\ Parent(p) = Parent(path) THEN "absent" ELSE listed[p]]
    ELSE listed

EnterRoot ==
    /\ Callback
    /\ Here = <<>>
    /\ walk' = "reading"
    /\ UNCHANGED <<place, listed, scanned, pending, patternVars>>

ScanLimit ==
    /\ Callback
    /\ Here # <<>>
    /\ scanned = MaxScanned
    /\ Note(Selections, "file_limit")
    /\ walk' = "walked"
    /\ UNCHANGED <<place, listed, scanned, pending, opened, collected>>

Visit ==
    /\ Callback
    /\ Here # <<>>
    /\ scanned < MaxScanned
    /\ scanned' = scanned + 1

Reject ==
    /\ Visit
    /\ Rejection(Here) # ""
    /\ Note(Reaching(Here), Rejection(Here))
    /\ Continue(AfterRejection(Here))
    /\ UNCHANGED <<pending, opened, collected>>

\* The kind the callback goes by.
Seen(path) == IF platform = "linux" THEN listed[path] ELSE At(path)

\* WalkDir descends into what was listed as a directory.
Leave ==
    IF IsDirectory(listed[Here])
    THEN walk' = "reading" /\ UNCHANGED <<place, listed>>
    ELSE Continue(listed)

Descend ==
    /\ Visit
    /\ Rejection(Here) = ""
    /\ IsDirectory(Seen(Here)) \/ GroupsOf(Here) = {}
    /\ Leave
    /\ UNCHANGED <<pending, patternVars>>

Select ==
    /\ Visit
    /\ Rejection(Here) = ""
    /\ ~IsDirectory(Seen(Here))
    /\ GroupsOf(Here) # {}
    /\ pending' = GroupsOf(Here)
    /\ walk' = "opening"
    /\ UNCHANGED <<place, listed, patternVars>>

ReadDirectory ==
    /\ Walking("reading")
    /\ \/ /\ tree[Here] = "dir" /\ At(Here) # "outside"
          /\ Continue([p \in Paths |-> IF p # <<>> /\ Parent(p) = Here THEN tree[p] ELSE listed[p]])
       \/ /\ tree[Here] = "symlink" \/ At(Here) = "outside"
          /\ \E k \in {"absent", "file"} :
                Continue([p \in Paths |-> IF p # <<>> /\ Parent(p) = Here THEN k ELSE listed[p]])
    /\ UNCHANGED <<scanned, pending, patternVars>>

\* The callback is called once more, with the error.
ReadDirectoryFails ==
    /\ Walking("reading")
    /\ At(Here) \notin {"dir", "symlink", "outside"}
    /\ CASE platform = "linux" -> Continue(listed) /\ UNCHANGED <<scanned, reason>>
         [] platform = "windows" /\ (Here = <<>> \/ expired) ->
                walk' = "failed" /\ UNCHANGED <<place, listed, scanned, reason>>
         [] platform = "windows" /\ Here # <<>> /\ ~expired /\ scanned = MaxScanned ->
                Note(Selections, "file_limit") /\ walk' = "walked" /\ UNCHANGED <<place, listed, scanned>>
         [] OTHER -> Note(Reaching(Here), "read_failed") /\ Continue(listed) /\ scanned' = scanned + 1
    /\ UNCHANGED <<pending, opened, collected>>

WalkCancelled ==
    /\ Walking("visiting")
    /\ platform = "windows" /\ expired
    /\ walk' = "failed"
    /\ UNCHANGED <<place, listed, scanned, pending, patternVars>>

-----------------------------------------------------------------------------
(***************************************************************************)
(* openStableFile.  Opening a named pipe waits for a writer that nobody    *)
(* promises: no step is enabled.                                           *)
(***************************************************************************)
\* Fault: each file is measured alone.
TooLargeAlone(kind) == kind \in {"file", "large"} /\ Size(kind) > MaxTotal

TooLarge(kind) == kind \in {"file", "large"} /\ Size(kind) > MaxTotal - TotalSize(opened)

LinuxRefusal(kind) ==
    CASE kind \in {"absent", "symlink", "denied", "closed"} -> "read_failed"
      [] kind = "dir" -> "unsupported_type"
      [] kind \in {"linked", "outside"} -> "link_rejected"
      [] TooLarge(kind) -> "byte_limit"
      [] OTHER -> ""

WindowsRefusal(kind) ==
    CASE kind \in {"absent", "denied", "dir", "closed"} -> "read_failed"
      [] kind \in {"symlink", "linked", "outside"} -> "link_rejected"
      [] TooLarge(kind) -> "byte_limit"
      [] expired -> "collection_failed"
      [] OTHER -> ""

Refusal(kind) == IF platform = "linux" THEN LinuxRefusal(kind) ELSE WindowsRefusal(kind)

Candidate(group) ==
    /\ Walking("opening")
    /\ group = FirstOf(pending)
    /\ pending' = pending \ {group}
    /\ IF pending' = {} THEN Leave ELSE UNCHANGED <<walk, place, listed>>
    /\ UNCHANGED scanned

\* Fault: the limit is not noted.
FileLimitSilent(group) ==
    /\ Candidate(group)
    /\ Len(opened) >= MaxFiles
    /\ UNCHANGED <<opened, reason, collected>>

FileLimit(group) ==
    /\ Candidate(group)
    /\ Len(opened) >= MaxFiles
    /\ Note(Selecting(group, Here), "file_limit")
    /\ UNCHANGED <<opened, collected>>

Refuse(group) ==
    /\ Candidate(group)
    /\ Len(opened) < MaxFiles
    /\ At(Here) # "fifo"
    /\ Refusal(At(Here)) # ""
    /\ Note(Selecting(group, Here), Refusal(At(Here)))
    /\ UNCHANGED <<opened, collected>>

Collect(group) ==
    /\ Candidate(group)
    /\ Len(opened) < MaxFiles
    /\ At(Here) # "fifo"
    /\ Refusal(At(Here)) = ""
    /\ opened' = Append(opened, [group |-> group, path |-> Here, size |-> Size(At(Here)),
                                 inside |-> At(Here) \in {"file", "large"}])
    /\ collected' = collected \cup Selecting(group, Here)
    /\ UNCHANGED reason

WalkStep ==
    \/ EnterRoot \/ ScanLimit \/ Reject \/ Descend \/ Select
    \/ ReadDirectory \/ ReadDirectoryFails \/ WalkCancelled
    \/ \E g \in pending : FileLimit(g) \/ Refuse(g) \/ Collect(g)

-----------------------------------------------------------------------------
(***************************************************************************)
(* The helper writes to the pipe, receiveCollection reads from it.         *)
(***************************************************************************)
Parts == 1 + Len(opened)

Helps ==
    /\ helper = "alive"
    /\ UNCHANGED <<treeVars, walkVars, got, expired, callVars>>

Send ==
    /\ Helps
    /\ walk = "walked"
    /\ sent < Parts
    /\ sent - got < PipeParts
    /\ IF sent = 0 THEN PlanSize <= MaxPlan ELSE sent \notin written
    /\ sent' = sent + 1
    /\ UNCHANGED helper

\* The plan is too large, or the content is not what the plan says.
GiveUp ==
    /\ Helps
    /\ walk = "walked"
    /\ sent < Parts
    /\ IF sent = 0 THEN PlanSize > MaxPlan ELSE sent \in written
    /\ helper' = "failed"
    /\ UNCHANGED sent

HelperExits ==
    /\ Helps
    /\ walk = "walked"
    /\ sent = Parts
    /\ helper' = "done"
    /\ UNCHANGED sent

\* Its identity, its input, or an operation it needs.
HelperFails ==
    /\ Helps
    /\ helper' = "failed"
    /\ UNCHANGED sent

Receives == UNCHANGED <<treeVars, walkVars, helper, sent, expired, artifacts>>

ReceivePlan ==
    /\ caller = "plan"
    /\ sent > 0
    /\ PlanAccepted
    /\ caller' = "content" /\ bundle' = "open" /\ got' = 1
    /\ Receives

ReceiveFile ==
    /\ caller = "content"
    /\ sent > got
    /\ ~expired
    /\ got' = got + 1
    /\ UNCHANGED <<caller, bundle>>
    /\ Receives

ReceiveEnd ==
    /\ caller = "content"
    /\ got = Parts
    /\ helper # "alive"
    /\ caller' = "waiting"
    /\ UNCHANGED <<bundle, got>>
    /\ Receives

CloseBundle == bundle' = IF bundle = "open" THEN "closed" ELSE bundle

ReceiveFails ==
    /\ caller \in {"plan", "content"}
    /\ caller' = "failing"
    /\ CloseBundle
    /\ UNCHANGED got
    /\ Receives

\* The failures that do not depend on luck.
ReceiveMustFail ==
    /\ \/ helper # "alive" /\ sent = got /\ (caller = "plan" \/ got < Parts)
       \/ caller = "content" /\ expired /\ got < Parts
       \/ caller = "plan" /\ sent > 0 /\ ~PlanAccepted
    /\ ReceiveFails

-----------------------------------------------------------------------------
(***************************************************************************)
(* Collect, and what collectArtifacts makes of its answer.                 *)
(***************************************************************************)
Calls == UNCHANGED <<treeVars, place, listed, scanned, pending, patternVars, sent, got, expired>>

\* openVerifiedDirectory; the guard keeps the directory where it is.
Verified == platform = "windows" => tree[<<>>] = "dir"

Start ==
    /\ caller = "start"
    /\ Verified
    /\ walk' = "visiting"
    /\ IF platform = "linux" THEN caller' = "plan" /\ helper' = "alive" /\ UNCHANGED bundle
       ELSE caller' = "walking" /\ bundle' = "open" /\ UNCHANGED helper
    /\ UNCHANGED artifacts
    /\ Calls

\* Fault: the bundle is forgotten.
FallbackForgetsBundle ==
    /\ caller' = "returned"
    /\ artifacts' = FailedManifest
    /\ UNCHANGED <<walk, helper, bundle>>
    /\ Calls

Fallback ==
    /\ caller' = "returned"
    /\ artifacts' = FailedManifest
    /\ CloseBundle
    /\ UNCHANGED <<walk, helper>>
    /\ Calls

Return ==
    IF ~ValidManifest(Manifest) \/ ~Allowed(Manifest) THEN Fallback
    ELSE /\ caller' = "returned"
         /\ artifacts' = Manifest
         /\ IF opened = <<>> THEN CloseBundle ELSE UNCHANGED bundle
         /\ UNCHANGED <<walk, helper>>
         /\ Calls

\* validatePlan, and the operations before the walk: the token of the
\* execution identity and its impersonation, or the start of the helper.
StartFails == caller = "start" /\ Fallback

DirectoryRefused == caller = "start" /\ ~Verified /\ Fallback

\* command.Wait
Reap ==
    /\ caller \in {"waiting", "failing"}
    /\ helper # "alive"
    /\ IF caller = "waiting" /\ helper = "done" THEN Return ELSE Fallback

\* The thread reverts to the broker, the lease is closed.
EndWalk ==
    /\ caller = "walking"
    /\ \/ walk = "walked" /\ Return
       \/ walk = "failed" /\ Fallback

ReleaseFails ==
    /\ caller = "walking"
    /\ walk \in {"walked", "failed"}
    /\ Fallback

HelperStep == Send \/ GiveUp \/ HelperExits
CallerStep ==
    \/ Start \/ DirectoryRefused \/ ReceivePlan \/ ReceiveFile \/ ReceiveEnd
    \/ ReceiveMustFail \/ Reap \/ EndWalk
CollectFault == StartFails \/ HelperFails \/ ReceiveFails \/ ReleaseFails
Environment == Expire \/ (\E p \in Paths : Change(p)) \/ (\E i \in DOMAIN opened : WriteTo(i))

CollectStep == WalkStep \/ HelperStep \/ CallerStep \/ CollectFault \/ Environment

-----------------------------------------------------------------------------
CollectTypeOK ==
    /\ platform \in {"linux", "windows"}
    /\ tree \in [Paths -> Kinds] /\ changes \in 0..MaxChanges
    /\ walk \in {"idle", "visiting", "opening", "reading", "walked", "failed"}
    /\ place \in DOMAIN WalkOrder /\ listed \in [Paths -> Kinds]
    /\ scanned \in 0..MaxScanned
    /\ reason \in [Selections -> Reasons] /\ collected \subseteq Selections
    /\ Len(opened) <= MaxFiles /\ written \subseteq DOMAIN opened
    /\ helper \in {"none", "alive", "done", "failed", "killed"}
    /\ sent \in 0..Parts /\ got \in 0..sent
    /\ expired \in BOOLEAN
    /\ caller \in {"start", "plan", "content", "waiting", "failing", "walking", "returned"}
    /\ bundle \in {"none", "open", "closed"}

\* Whatever other processes do to the tree meanwhile, a file of the bundle was
\* a file of the working directory with one name when it was opened, at a path
\* without sensitive segments that its group selects (openStableFile).
DeliveredIsInside ==
    \A f \in ToSet(artifacts.files) :
        f.inside /\ ~HasSensitiveSegment(f.path) /\ Selecting(f.group, f.path) # {}

\* Every pattern of the request ends with a file or with an omission: no
\* refusal, limit, failure of the helper or change of the tree loses one.
PatternsAccounted ==
    caller = "returned" =>
        \A i \in Selections :
            \/ \E f \in ToSet(artifacts.files) : i \in Selecting(f.group, f.path)
            \/ \E o \in artifacts.omissions : o.pattern = i

\* What the walk found is never refused later on: not by validateHelperPlan,
\* not by ValidateArtifactManifest, not by artifactCollectionAllowed.
NeverRefused ==
    walk = "walked" =>
        ValidManifest(Manifest) /\ Allowed(Manifest) /\ (platform = "linux" => PlanAccepted)

\* The files the patterns select, had nobody touched the tree.
Deliverable(i) ==
    {p \in Paths : /\ At(p) = "file"
                   /\ ~HasSensitiveSegment(p)
                   /\ Match(Patterns[i].pattern, p)}

\* A file that a pattern selects is delivered, or the pattern has an omission
\* that tells of a limit or a refusal: "no_match" is the truth.
NothingMissed ==
    caller = "returned" /\ changes = 0 =>
        \A i \in Selections : \A p \in Deliverable(i) :
            \/ \E f \in ToSet(artifacts.files) : f.path = p /\ f.group = Patterns[i].group
            \/ \E o \in artifacts.omissions : o.pattern = i /\ o.reason # "no_match"

\* NothingMissed for the trees the collectors can cope with: on Windows no link
\* leads to a directory.
Copes ==
    platform = "windows" => \A p \in Paths : LeadsToDirectory(p) => tree[p] # "symlink"
NothingMissedIfReadable == Copes => NothingMissed

\* What a response says of the patterns is what was in the tree: nothing from
\* outside, no pattern without an answer, no silent loss but the known one
\* (walk, addFile, finalManifest).
SelectionAccounted == DeliveredIsInside /\ PatternsAccounted /\ NothingMissedIfReadable
=============================================================================
