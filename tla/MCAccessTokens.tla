--------------------------- MODULE MCAccessTokens ---------------------------
(* Model values and symmetry for checking AccessTokens with TLC.            *)
EXTENDS AccessTokens, TLC

CONSTANTS t1, t2, h1, h2
One == {t1}
TwoTokens == {t1, t2}
TwoHandlers == {h1, h2}
SymTwo == Permutations(TwoTokens) \cup Permutations(TwoHandlers)
=============================================================================
