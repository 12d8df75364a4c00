------------------------- MODULE WorkflowLifecycle -------------------------
(***************************************************************************)
(* What the status table promises of a workflow's row (the module comment  *)
(* of crates/spindle-db/src/status.rs and START_STATES / FINISH_STATES of  *)
(* crates/spindle-models/src/status.rs): it is created pending, it may     *)
(* become running, and it reaches one terminal state, which it keeps.      *)
(***************************************************************************)
CONSTANT Wid        \* workflow ids

VARIABLE row        \* row[w]: "absent", or the status column of w's row

StartStates == {"pending", "running"}
FinishStates == {"success", "failed", "timeout", "cancelled"}

Init == row = [w \in Wid |-> "absent"]

Create(w) ==
    /\ row[w] = "absent"
    /\ row' = [row EXCEPT ![w] = "pending"]

Begin(w) ==
    /\ row[w] = "pending"
    /\ row' = [row EXCEPT ![w] = "running"]

\* A workflow that never ran can only have failed (the queue refused it) or
\* have been cancelled.
Conclude(w, s) ==
    /\ row[w] \in StartStates
    /\ row[w] = "pending" => s \in {"failed", "cancelled"}
    /\ row' = [row EXCEPT ![w] = s]

\* A restart cancels every workflow that is still going.
CancelAll ==
    row' = [w \in Wid |-> IF row[w] \in StartStates THEN "cancelled" ELSE row[w]]

Next ==
    \/ \E w \in Wid : \/ Create(w)
                      \/ Begin(w)
                      \/ \E s \in FinishStates : Conclude(w, s)
    \/ CancelAll

Spec == Init /\ [][Next]_row
=============================================================================
