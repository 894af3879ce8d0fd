----------------------------- MODULE MCSqliteKv -----------------------------
(* Keys for the model checker, two of one prefix and one of none, and the  *)
(* symmetry of what is stored under them.                                  *)
EXTENDS SqliteKv, TLC

Keys == {<<1, 1>>, <<1, 2>>, <<2>>}
Prefixes == {<<1>>}
Contents == Permutations(Value) \cup Permutations(Meta)
=============================================================================
