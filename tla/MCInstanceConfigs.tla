------------------------- MODULE MCInstanceConfigs -------------------------
(* Values of the function constants, and symmetry, for the model checker.  *)
EXTENDS InstanceConfigs, TLC

CONSTANTS padded, plain

(* "padded" is "plain" with white space around it.                         *)
TrimPadding == [t \in RawTag |-> IF t = padded THEN plain ELSE t]

Identities == Permutations(Req) \cup Permutations(Node)
                \cup Permutations(Inst)
=============================================================================
