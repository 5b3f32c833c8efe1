----------------------------- MODULE MCEnrollment -----------------------------
(* Two machines, two enroll requests in flight together (one awaited, one    *)
(* orphan, or one per machine), three tokens.                                *)
EXTENDS Enrollment, TLC

CONSTANTS m1, m2, r1, r2
TwoMachines == {m1, m2}
MCRequests == {r1, r2}
=============================================================================
