--------------------------- MODULE ExecutionStatus ---------------------------
(***************************************************************************)
(* What a pipeline promises an operator who only watches its status: the   *)
(* life of one execution as a machine over the status values of            *)
(* temporal/const.go.  An execution starts PENDING, is EXECUTING only      *)
(* after it waited for a signal, is REJECTED only out of a wait for an     *)
(* approval, is never COMPLETED out of a wait for a correction, and its    *)
(* last status stays.                                                      *)
(***************************************************************************)
VARIABLES status, closed

vars == <<status, closed>>

Init == status = "" /\ closed = FALSE

\* Closing with PENDING: the very first status could not be recorded.
Begin == status = "" /\ status' = "PENDING" /\ closed' \in BOOLEAN

AwaitCorrection == /\ status \in {"PENDING", "EXECUTING", "AWAITING_APPROVAL"}
                   /\ status' = "AWAITING_CORRECTION"
                   /\ closed' = closed

Run == /\ status = "AWAITING_CORRECTION" /\ status' = "EXECUTING"
       /\ closed' = closed

AwaitApproval == /\ status = "EXECUTING" /\ status' = "AWAITING_APPROVAL"
                 /\ closed' = closed

Reject == /\ status = "AWAITING_APPROVAL" /\ status' = "REJECTED"
          /\ closed' = closed

Live == {"PENDING", "EXECUTING", "AWAITING_CORRECTION", "AWAITING_APPROVAL"}

\* A failed step either records the failure first or leaves it to the exit.
Fail == status \in Live /\ status' = "FAILED" /\ closed' \in BOOLEAN

Complete == /\ status \in {"PENDING", "EXECUTING", "AWAITING_APPROVAL"}
            /\ status' = "COMPLETED" /\ closed' = TRUE

Close == status \in {"FAILED", "REJECTED"} /\ closed' = TRUE /\ status' = status

Next == /\ ~closed
        /\ \/ Begin \/ AwaitCorrection \/ Run \/ AwaitApproval
           \/ Reject \/ Fail \/ Complete \/ Close

Spec == Init /\ [][Next]_vars
=============================================================================
