------------------------------ MODULE Delivery ------------------------------
(***************************************************************************)
(* What collecting printer readings is for, whatever carries them: a batch *)
(* the Agent has collected is underway until the SaaS records it, once, or *)
(* until it is given up.  Recorded is final, and so is given up: no late   *)
(* duplicate turns up afterwards.                                          *)
(***************************************************************************)
CONSTANT Batch

VARIABLE status

Status == {"uncollected", "underway", "recorded", "dropped"}

TypeOK == status \in [Batch -> Status]

Init == status = [b \in Batch |-> "uncollected"]

Collect(b) ==
    /\ status[b] = "uncollected"
    /\ status' = [status EXCEPT ![b] = "underway"]

Record(b) ==
    /\ status[b] = "underway"
    /\ status' = [status EXCEPT ![b] = "recorded"]

\* Overflow drops one batch, a crash every batch that was only in memory.
Drop(lost) ==
    /\ \A b \in lost : status[b] = "underway"
    /\ status' = [b \in Batch |-> IF b \in lost THEN "dropped" ELSE status[b]]

Next ==
    \/ \E b \in Batch : Collect(b) \/ Record(b)
    \/ \E lost \in SUBSET Batch : Drop(lost)

Spec == Init /\ [][Next]_status
=============================================================================
