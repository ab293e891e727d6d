--------------------------- MODULE MCControlLedger ---------------------------
(***************************************************************************)
(* Instances of ControlLedger for TLC.  The jobs and the client of the     *)
(* installation share nothing but the visibility of the repository, so a   *)
(* behaviour explores one of them beside the owner's edits.                *)
(***************************************************************************)
EXTENDS ControlLedger

CONSTANTS r1, r2, d1, d2, q1

VARIABLE scenario

MCInit ==
    /\ Init
    /\ scenario \in {"installation", "requests"}
    /\ scenario = "requests" => repository.exists /\ repository.personal
    /\ scenario = "installation" => \A r \in Runs : event[r] = Malformed

InstallationStep ==
    /\ scenario = "installation"
    /\ RepositoryNext
    /\ UNCHANGED <<jobVars, ledgerVars, executed>>

RequestStep ==
    /\ scenario = "requests"
    /\ \/ JobNext /\ UNCHANGED repositoryVars
       \/ /\ OwnerChangesAccess
          /\ repository'.exclusive = repository.exclusive
          /\ UNCHANGED <<jobVars, ledgerVars, executed>>

MCNext == (InstallationStep \/ RequestStep) /\ UNCHANGED scenario

MCSpec == MCInit /\ [][MCNext]_<<vars, scenario>>

MCFairSpec == MCSpec /\ Fairness
=============================================================================
