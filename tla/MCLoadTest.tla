----------------------------- MODULE MCLoadTest -----------------------------
(* The load-test client with a few workers; liveness rules out symmetry.    *)
EXTENDS LoadTest
=============================================================================
