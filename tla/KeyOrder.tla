------------------------------ MODULE KeyOrder ------------------------------
(***************************************************************************)
(* KV keys as strings: sequences of characters, numbered from 0, in the    *)
(* lexicographic order that a list of keys is returned in, and the range   *)
(* scan by which src/node/kv-sqlite.ts finds the keys of a prefix.         *)
(***************************************************************************)
EXTENDS Integers, Sequences

CONSTANT Top   \* the last character, U+10FFFF: no key of the app has it

ASSUME TopAssumption == Top \in Nat

String == Seq(0..Top)

(* ORDER BY key: a is a proper prefix of b, or smaller where they differ.  *)
Before(a, b) ==
  \E i \in 1..Len(b) : /\ i <= Len(a) + 1
                       /\ \A j \in 1..(i - 1) : a[j] = b[j]
                       /\ i = Len(a) + 1 \/ a[i] < b[i]

StartsWith(k, p) == Len(p) <= Len(k) /\ \A j \in 1..Len(p) : k[j] = p[j]

(* WHERE key >= prefix AND key < prefix + U+10FFFF.                        *)
InRange(k, p) == ~Before(k, p) /\ Before(k, Append(p, Top))
=============================================================================
