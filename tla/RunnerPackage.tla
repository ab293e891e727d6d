--------------------------- MODULE RunnerPackage ---------------------------
(***************************************************************************)
(* src/internal/runnerpackage: what the inspection of the runner archive   *)
(* accepts, and in which order an accepted image is extracted.  A path is  *)
(* a sequence of names; Fold is the case folding of a name.                *)
(***************************************************************************)
EXTENDS SequencesExt

CONSTANTS Fold,            \* [name -> its lower-case form]
          ReservedRoots,   \* reservedRuntimeRoots: names of the runtime state
          RequiredFiles,   \* requiredFiles, as paths
          MaxPathDepth

Names == DOMAIN Fold
Paths == Seq(Names)

ASSUME PackageAssumption == Fold \in [Names -> Names]

\* An entry of the archive: its path, whether it is a directory, and
\* whether its format, mode, size and spelling are admitted.
Entry(path, dir, plain) == [path |-> path, dir |-> dir, plain |-> plain]

Lower(path) == [i \in DOMAIN path |-> Fold[path[i]]]
Above(path) == SubSeq(path, 1, Len(path) - 1)
ParentsOf(path) == {SubSeq(path, 1, n) : n \in 1..(Len(path) - 1)}

\* What the inspection has met after n entries: the files, the directories
\* with an entry of their own, all directories, and all names.
Files(archive, n) == {archive[i].path : i \in {k \in 1..n : ~archive[k].dir}}
Explicit(archive, n) == {archive[i].path : i \in {k \in 1..n : archive[k].dir}}
Dirs(archive, n) == Explicit(archive, n) \cup UNION {ParentsOf(file) : file \in Files(archive, n)}
Met(archive, n) == Files(archive, n) \cup Dirs(archive, n)

ValidEntry(entry) == /\ entry.plain
                     /\ Len(entry.path) \in 1..MaxPathDepth
                     /\ Fold[entry.path[1]] \notin ReservedRoots

\* Another spelling of the path was met before.
Aliased(known, path) == \E other \in known : Lower(other) = Lower(path) /\ other # path

DirectoryAdmitted(archive, n) ==
    archive[n].path \notin Explicit(archive, n - 1) \cup Files(archive, n - 1)

\* Fault: the parents of a file may be files.
FileAloneAdmitted(archive, n) ==
    archive[n].path \notin Met(archive, n - 1)
FileAdmitted(archive, n) ==
    /\ archive[n].path \notin Met(archive, n - 1)
    /\ \A parent \in ParentsOf(archive[n].path) :
           parent \notin Files(archive, n - 1) /\ ~Aliased(Met(archive, n - 1), parent)

Admitted(archive, n) ==
    /\ ValidEntry(archive[n])
    /\ ~Aliased(Met(archive, n - 1), archive[n].path)
    /\ IF archive[n].dir THEN DirectoryAdmitted(archive, n) ELSE FileAdmitted(archive, n)

AllFiles(archive) == Files(archive, Len(archive))
AllDirs(archive) == Dirs(archive, Len(archive))

Accepted(archive) == /\ archive # <<>>
                     /\ \A n \in DOMAIN archive : Admitted(archive, n)
                     /\ RequiredFiles \subseteq AllFiles(archive)

\* The paths in an order in which none comes before a shorter one.
ByDepth(paths) ==
    CHOOSE order \in [1..Cardinality(paths) -> paths] :
        /\ IsInjective(order)
        /\ \A i, j \in DOMAIN order : i < j => Len(order[i]) =< Len(order[j])

\* Directories by depth, then the files.
Extraction(archive) ==
    LET Each(paths, dir) == [i \in DOMAIN paths |-> [path |-> paths[i], dir |-> dir]]
    IN Each(ByDepth(AllDirs(archive)), TRUE) \o Each(SetToSeq(AllFiles(archive)), FALSE)
=============================================================================
