--------------------------- MODULE MCClientHistory ---------------------------
(* Values of the function constants, and symmetry, for the model checker.  *)
EXTENDS ClientHistory, TLC

CONSTANTS n1, t1, p1

OneNode == [c \in Config |-> n1]
SameTag == [t \in RawTag |-> t]

(* A tag or a port, so that uploads compete for each.                      *)
TagOrPort == {<<t1, NoPort>>, <<NoTag, p1>>}

(* Uploads and lists start up to the tick before the last and deletes in   *)
(* the first; late requests of theirs cross the tick after it, and checks  *)
(* start in every tick.                                                    *)
Arrivals == [put |-> 1, delete |-> 0, check |-> 2, list |-> 1, pull |-> 0]

Identities == Permutations(Req) \cup Permutations(Config)
=============================================================================
