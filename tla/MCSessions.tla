----------------------------- MODULE MCSessions -----------------------------
(* Model values and symmetry for checking Sessions with TLC.                *)
EXTENDS Sessions, TLC

CONSTANTS u1, u2, t1, t2, t3, h1, h2

OneUser == {u1}
TwoUsers == {u1, u2}
NoOne == {}
Hash3 == {t1, t2, t3}
Two == {h1, h2}

\* Tokens and handlers are interchangeable.
SymHash3 == Permutations(Hash3) \cup Permutations(Two)
=============================================================================
