--------------------------- MODULE ProcessContract ---------------------------
(***************************************************************************)
(* What executionrun expects of a native process                           *)
(* (src/internal/executionrun/types.go, type Process): the exit is         *)
(* signalled once, only after the tree has ended, and TerminateTree        *)
(* returns nil only after the exit was signalled.  A tree may end by       *)
(* itself; TerminateTree may return an error at any time before that.      *)
(***************************************************************************)
CONSTANT Callers    \* threads that may call TerminateTree

VARIABLES
    tree,           \* "alive", "reaped", then "signalled"
    call            \* TerminateTree, per caller

vars == <<tree, call>>

Init ==
    /\ tree = "alive"
    /\ call = [c \in Callers |-> "idle"]

End ==
    /\ tree = "alive"
    /\ tree' = "reaped"
    /\ UNCHANGED call

Signal ==
    /\ tree = "reaped"
    /\ tree' = "signalled"
    /\ UNCHANGED call

Call(c) ==
    /\ call[c] = "idle"
    /\ call' = [call EXCEPT ![c] = "running"]
    /\ UNCHANGED tree

\* One call may find the exit signalled and return at once.
ReturnNil(c) ==
    /\ call[c] \in {"idle", "running"}
    /\ tree = "signalled"
    /\ call' = [call EXCEPT ![c] = "nil"]
    /\ UNCHANGED tree

\* An error return may still have ended the tree on its way out.
ReturnError(c) ==
    /\ call[c] = "running"
    /\ call' = [call EXCEPT ![c] = "error"]
    /\ tree' \in IF tree = "alive" THEN {"alive", "reaped"} ELSE {tree}

Next ==
    \/ End \/ Signal
    \/ \E c \in Callers : Call(c) \/ ReturnNil(c) \/ ReturnError(c)

Spec == Init /\ [][Next]_vars
=============================================================================
