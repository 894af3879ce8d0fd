---------------------------- MODULE MCClientSync ----------------------------
(* Values of the function constants for the model checker.                 *)
EXTENDS ClientSync

CONSTANTS n1, padded, plain

OneNode == [c \in Config |-> n1]

(* "padded" is "plain" with white space around it.                         *)
TrimPadding == [t \in RawTag |-> IF t = padded THEN plain ELSE t]

TagsOnly == {<<t, NoPort>> : t \in RawTag}

(* No list: a negative tick is never reached.                              *)
Arrivals == [put |-> 0, delete |-> 0, check |-> 0, list |-> -1, pull |-> -1]
=============================================================================
