---------------------------- MODULE Cancellable ----------------------------
(***************************************************************************)
(* What the connect operations promise to the one who runs them: an        *)
(* operation that is asked to stop while it runs does not succeed.         *)
(***************************************************************************)
VARIABLE status

Statuses == {"idle", "running", "cancelled", "succeeded", "failed"}

Init == status = "idle"

Start ==
    /\ status \in {"idle", "succeeded", "failed"}
    /\ status' = "running"

Cancel ==
    /\ status = "running"
    /\ status' = "cancelled"

Succeed ==
    /\ status = "running"
    /\ status' = "succeeded"

Fail ==
    /\ status \in {"running", "cancelled"}
    /\ status' = "failed"

Next == Start \/ Cancel \/ Succeed \/ Fail

Spec == Init /\ [][Next]_status
=============================================================================
