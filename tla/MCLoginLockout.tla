--------------------------- MODULE MCLoginLockout ---------------------------
(* Model values and symmetry for checking LoginLockout with TLC.            *)
EXTENDS LoginLockout, TLC

CONSTANTS h1, h2, h3
TwoHandlers == {h1, h2}
ThreeHandlers == {h1, h2, h3}
SymThree == Permutations(ThreeHandlers)
=============================================================================
