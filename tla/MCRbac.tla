------------------------------- MODULE MCRbac -------------------------------
EXTENDS Rbac, TLC

HandlerSymmetry == Permutations(Handlers)
=============================================================================
