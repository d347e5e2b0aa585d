----------------------------- MODULE MCThrottle -----------------------------
(* Model values for checking Throttle with TLC.                             *)
EXTENDS Throttle

CONSTANTS h1, h2, b1, b2, b3
TwoHandlers == {h1, h2}
ThreeBuckets == {b1, b2, b3}
=============================================================================
