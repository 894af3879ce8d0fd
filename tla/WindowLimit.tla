---------------------------- MODULE WindowLimit ----------------------------
(***************************************************************************)
(* What a sliding-window limiter promises, stated with the whole history:  *)
(* at any moment a call for a key is let through if fewer than Max calls   *)
(* were in the window that ends with it, and refused if not.               *)
(***************************************************************************)
EXTENDS Integers, FiniteSets

CONSTANTS Key, Max, Window

VARIABLES
  granted,   \* every hit ever let through, by key
  answer,    \* what the last step answered, if it did
  now

(* What was let through in the window that ends at t.                      *)
InWindow(k, t) == {h \in granted[k] : t - Window < h.at /\ h.at <= t}

Full(k) == Cardinality(InWindow(k, now)) >= Max

Init ==
  /\ granted = [k \in Key |-> {}]
  /\ answer = {}
  /\ now = 0

Refuse(k) ==
  /\ Full(k)
  /\ answer' = {[key |-> k, success |-> FALSE]}
  /\ UNCHANGED <<granted, now>>

Grant(k) ==
  /\ ~Full(k)
  /\ \E h \in granted'[k] \ granted[k] :
       /\ h.at = now
       /\ granted' = [granted EXCEPT ![k] = @ \cup {h}]
  /\ answer' = {[key |-> k, success |-> TRUE]}
  /\ UNCHANGED now

Tick ==
  /\ now' = now + 1
  /\ answer' = {}
  /\ UNCHANGED granted

Next == Tick \/ \E k \in Key : Refuse(k) \/ Grant(k)

Spec == Init /\ [][Next]_<<granted, answer, now>>
=============================================================================
