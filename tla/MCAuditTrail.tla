---------------------------- MODULE MCAuditTrail ----------------------------
(* Model values for checking AuditTrail with TLC.                           *)
EXTENDS AuditTrail, TLC

CONSTANTS a1, a2, a3, a4, w1, w2
FourTasks == {a1, a2, a3, a4}
TwoWorkers == {w1, w2}
=============================================================================
