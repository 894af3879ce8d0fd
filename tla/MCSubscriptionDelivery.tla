----------------------- MODULE MCSubscriptionDelivery -----------------------
(* Symmetry for the model checker: identities are interchangeable.         *)
EXTENDS SubscriptionDelivery, TLC

Identities == Permutations(Req) \cup Permutations(Token) \cup Permutations(Sub)
                \cup Permutations(Path) \cup Permutations(Isolate)
=============================================================================
