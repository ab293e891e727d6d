--------------------------- MODULE MCRunnerStore ---------------------------
(***************************************************************************)
(* Instance of RunnerStore for TLC: packages of the required listener and  *)
(* up to two more entries, alias spellings, reserved roots and collisions  *)
(* of files with directories among them.                                   *)
(***************************************************************************)
EXTENDS RunnerStore

MCNames == {"bin", "BIN", "x", "X", "lib", "_diag", "log", "_work", "_awg", "awg",
            ".runner", ".credentials"}
MCFold == [n \in MCNames |-> CASE n = "BIN" -> "bin" [] n = "X" -> "x" [] OTHER -> n]

MCListener == Entry(<<"bin", "x">>, FALSE, TRUE)
MCExtra == {Entry(<<"bin">>, TRUE, TRUE),          \* an explicit directory
            Entry(<<"BIN", "lib">>, FALSE, TRUE),  \* an alias of a parent
            Entry(<<"bin", "X">>, FALSE, TRUE),    \* an alias of a file
            Entry(<<"bin", "x">>, FALSE, TRUE),    \* a duplicate
            Entry(<<"bin", "x">>, TRUE, TRUE),     \* a file and a directory
            Entry(<<"bin">>, FALSE, TRUE),         \* a file above a file
            Entry(<<"lib", "x">>, TRUE, TRUE),     \* a directory without its parent
            Entry(<<"lib">>, FALSE, TRUE),
            Entry(<<"_work">>, TRUE, TRUE),        \* a reserved root
            Entry(<<"_awg">>, TRUE, TRUE),         \* a root that is not reserved
            Entry(<<"lib">>, FALSE, FALSE)}        \* a denied format

MCArchives == {<<MCListener>>} \cup {<<e, MCListener>> : e \in MCExtra}
              \cup {<<MCListener, e>> : e \in MCExtra} \cup {<<e>> : e \in MCExtra}
MCReserved == {"_work", "_diag", ".runner", ".credentials"}
MCRequired == {<<"bin", "x">>}
MCRuntimeDirs == <<<<"_work">>>>
MCControlImage == <<[path |-> <<"_awg">>, dir |-> TRUE], [path |-> <<"_awg", "awg">>, dir |-> FALSE]>>
MCStateFiles == {<<".runner">>, <<".credentials">>}
MCLogs == {[path |-> <<"_diag">>, dir |-> TRUE], [path |-> <<"_diag", "log">>, dir |-> FALSE]}
=============================================================================
