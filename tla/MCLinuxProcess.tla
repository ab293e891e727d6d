--------------------------- MODULE MCLinuxProcess ---------------------------
(***************************************************************************)
(* Instances of LinuxProcess for TLC.                                      *)
(***************************************************************************)
EXTENDS LinuxProcess

CONSTANTS p1, p2, p3, c1, c2
=============================================================================
