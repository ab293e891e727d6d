-------------------------- MODULE ResponseDirectory --------------------------
(***************************************************************************)
(* The response directory of the control client, as Windows has it:        *)
(* src/internal/platform/windows/controlresponse.  Files are staged in a   *)
(* directory of their own, created one by one with the directories they    *)
(* need; the staging directory is renamed to the final path, or everything *)
(* created is removed again.  The directory of Linux goes the same way,    *)
(* without the look at the names in Begin.                                 *)
(*                                                                         *)
(* A directory is the sequence of its names below the staging directory,   *)
(* which is <<>> itself; a file is a directory and a name.  Any operation  *)
(* may fail.  The directories are looked at again before each use: one     *)
(* that was replaced is a failure too.                                     *)
(***************************************************************************)
EXTENDS SequencesExt

VARIABLES
    stream,         \* how far readResponse and Publish are
    owned,          \* ownedDirectories
    stored,         \* ownedFiles: [path, whole]
    next,           \* artifacts received
    begun, artifactsCommitted,
    stuck, remains, \* files and directories that could not be removed
    staging, final

stageVars ==
    <<owned, stored, next, begun, artifactsCommitted, stuck, remains, staging, final>>
destinationVars == <<stream, stageVars>>

Metadata == <<<<"execution-report.json">>, <<"stdout.bin">>, <<"stderr.bin">>>>
StoredPath(file) == <<"artifacts", file.group>> \o file.path
DirectoryOf(path) == SubSeq(path, 1, Len(path) - 1)
Above(path) == {SubSeq(path, 1, n) : n \in 0..(Len(path) - 1)}
Names == {s.path : s \in ToSet(stored)}

\* controlresponse.New has made the staging directory.
DestinationInit ==
    /\ stream = "report"
    /\ owned = <<<<>>>> /\ stored = <<>> /\ next = 0
    /\ begun = FALSE /\ artifactsCommitted = FALSE
    /\ stuck = {} /\ remains = {}
    /\ staging = "present" /\ final = "absent"

Proceed(from, to) == stream = from /\ stream' = to

\* Begin looks at the names of the groups and files first
\* (validateWindowsArtifactDestinations).
Begin(storable) ==
    /\ Proceed("begin", "files")
    /\ storable
    /\ ~begun
    /\ begun' = TRUE
    /\ UNCHANGED <<owned, stored, next, artifactsCommitted, stuck, remains, staging, final>>

BeginRefused(storable) ==
    /\ Proceed("begin", "failing")
    /\ ~storable
    /\ UNCHANGED stageVars

\* ensureDirectoryLocked, for the first directory that is missing.
EnsureDirectory(files) ==
    /\ Proceed("files", "files")
    /\ next < Len(files)
    /\ LET needed == {d \in Above(StoredPath(files[next + 1])) : d \notin ToSet(owned)}
       IN \E d \in needed :
            /\ \A e \in needed : Len(d) <= Len(e)
            /\ owned' = Append(owned, d)
    /\ UNCHANGED <<stored, next, begun, artifactsCommitted, stuck, remains, staging, final>>

OpenArtifact(files) ==
    /\ Proceed("files", "filling")
    /\ next < Len(files)
    /\ LET path == StoredPath(files[next + 1])
       IN /\ Above(path) \subseteq ToSet(owned)
          /\ path \notin Names
          /\ stored' = Append(stored, [path |-> path, whole |-> FALSE])
    /\ UNCHANGED <<owned, next, begun, artifactsCommitted, stuck, remains, staging, final>>

CloseArtifact ==
    /\ Proceed("filling", "files")
    /\ stored' = [stored EXCEPT ![Len(stored)].whole = TRUE]
    /\ next' = next + 1
    /\ UNCHANGED <<owned, begun, artifactsCommitted, stuck, remains, staging, final>>

Commit(files) ==
    /\ Proceed("files", "publishing")
    /\ next = Len(files)
    /\ artifactsCommitted' = TRUE
    /\ UNCHANGED <<owned, stored, next, begun, stuck, remains, staging, final>>

\* writeNewFileLocked creates a file and fills it.
CreateMetadata(files) ==
    /\ Proceed("publishing", "writing")
    /\ IF files # <<>> THEN begun /\ artifactsCommitted ELSE ~begun /\ ~artifactsCommitted
    /\ \E i \in DOMAIN Metadata :
        /\ Metadata[i] \notin Names
        /\ \A j \in 1..(i - 1) : Metadata[j] \in Names
        /\ stored' = Append(stored, [path |-> Metadata[i], whole |-> FALSE])
    /\ UNCHANGED <<owned, next, begun, artifactsCommitted, stuck, remains, staging, final>>

FillMetadata ==
    /\ Proceed("writing", "publishing")
    /\ stored' = [stored EXCEPT ![Len(stored)].whole = TRUE]
    /\ UNCHANGED <<owned, next, begun, artifactsCommitted, stuck, remains, staging, final>>

Publish ==
    /\ Proceed("publishing", "published")
    /\ ToSet(Metadata) \subseteq Names
    /\ final = "absent"
    /\ final' = "ours" /\ staging' = "moved"
    /\ UNCHANGED <<owned, stored, next, begun, artifactsCommitted, stuck, remains>>

\* "final-path-unavailable", or the rename itself refuses.
PublishRefused ==
    /\ Proceed("publishing", "failing")
    /\ ToSet(Metadata) \subseteq Names
    /\ final = "foreign"
    /\ UNCHANGED stageVars

\* The directories that remain when they are removed in the given order and
\* one that holds something refuses.
Remaining(order, files) ==
    LET left[i \in 0..Len(order)] ==
            IF i = 0 THEN ToSet(order)
            ELSE LET d == order[i] before == left[i - 1]
                 IN IF \/ \E e \in before : e # <<>> /\ DirectoryOf(e) = d
                       \/ \E f \in files : DirectoryOf(f) = d
                    THEN before ELSE before \ {d}
    IN left[Len(order)]

\* Fault: parents first.
OldestFirst == owned

RemovalOrder == Reverse(owned)

Abort ==
    /\ Proceed("failing", "aborted")
    /\ \E kept \in {{}} \cup {{f} : f \in Names} :
        /\ stuck' = kept
        /\ remains' = Remaining(RemovalOrder, kept)
        /\ staging' = IF <<>> \in remains' THEN "left" ELSE "gone"
    /\ stored' = <<>> /\ owned' = <<>>
    /\ UNCHANGED <<next, begun, artifactsCommitted, final>>

DestinationFails ==
    /\ stream \in {"begin", "files", "filling", "publishing", "writing"}
    /\ stream' = "failing"
    /\ UNCHANGED stageVars

\* Another invocation uses the same final path; only Publish looks at it.
Rival ==
    /\ final = "absent"
    /\ stream = "publishing" /\ ToSet(Metadata) \subseteq Names
    /\ final' = "foreign"
    /\ UNCHANGED <<stream, owned, stored, next, begun, artifactsCommitted, stuck, remains,
                   staging>>

\* The final directory appears with everything the report lists, complete.
PublishedWhole(files) ==
    final = "ours" =>
        /\ Names = {StoredPath(f) : f \in ToSet(files)} \cup ToSet(Metadata)
        /\ \A s \in ToSet(stored) : s.whole
        /\ \A s \in ToSet(stored) : Above(s.path) \subseteq ToSet(owned)

\* Abort leaves the files that refused to go and the directories they are in,
\* and nothing else; with none of them the staging directory is gone.
AbortLeavesOnlyTheStuck ==
    stream = "aborted" =>
        /\ remains = UNION {Above(f) : f \in stuck}
        /\ staging = IF stuck = {} THEN "gone" ELSE "left"
=============================================================================
