------------------------- MODULE ResponsePublication -------------------------
(***************************************************************************)
(* What the execute job expects of one `awg execute-local` invocation      *)
(* (docs/adr/0012, docs/adr/0018): the broker answers at most once, the    *)
(* response directory appears as a whole and only for an execution, the    *)
(* command succeeds exactly when the directory is there, and a command     *)
(* that failed never publishes afterwards.  A client that dies reports     *)
(* nothing.                                                                *)
(***************************************************************************)
VARIABLES
    answer,     \* what the broker decided
    final,      \* the response directory
    result      \* what the command reports

vars == <<answer, final, result>>

Init ==
    /\ answer = "none"
    /\ final = "absent"
    /\ result = "none"

Answer ==
    /\ answer = "none"
    /\ answer' \in {"execution", "rejected"}
    /\ UNCHANGED <<final, result>>

Publish ==
    /\ answer = "execution"
    /\ result = "none"
    /\ final' = "whole"
    /\ UNCHANGED <<answer, result>>

Succeed ==
    /\ final = "whole"
    /\ result = "none"
    /\ result' = "published"
    /\ UNCHANGED <<answer, final>>

Fail ==
    /\ final = "absent"
    /\ result = "none"
    /\ result' = "failed"
    /\ UNCHANGED <<answer, final>>

Next == Answer \/ Publish \/ Succeed \/ Fail

Spec == Init /\ [][Next]_vars
=============================================================================
