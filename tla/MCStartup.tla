----------------------------- MODULE MCStartup -----------------------------
(* Model values for checking Startup with TLC.                              *)
EXTENDS Startup, TLC

CONSTANTS i1, i2
OneInstance == {i1}
TwoInstances == {i1, i2}
=============================================================================
