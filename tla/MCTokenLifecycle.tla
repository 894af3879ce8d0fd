-------------------------- MODULE MCTokenLifecycle --------------------------
(* Symmetry for the model checker: identities are interchangeable.         *)
EXTENDS TokenLifecycle, TLC

Identities == Permutations(Req) \cup Permutations(Token)
=============================================================================
