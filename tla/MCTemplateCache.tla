--------------------------- MODULE MCTemplateCache ---------------------------
(* Symmetry for the model checker: identities are interchangeable.         *)
EXTENDS TemplateCache, TLC

Identities ==
  Permutations(Req) \cup Permutations(Tmpl) \cup Permutations(Isolate)
==============================================================================
