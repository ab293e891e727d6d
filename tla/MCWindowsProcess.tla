-------------------------- MODULE MCWindowsProcess --------------------------
(***************************************************************************)
(* Instances of WindowsProcess for TLC.                                    *)
(***************************************************************************)
EXTENDS WindowsProcess

CONSTANTS p1, p2, p3, c1, c2
=============================================================================
