--------------------------- MODULE MCRateLimiter ---------------------------
(* The clients of RateLimiter as model values, for checking it with TLC.    *)
EXTENDS RateLimiter, TLC

CONSTANTS h1, h2, h3
ThreeCallers == {h1, h2, h3}
=============================================================================
