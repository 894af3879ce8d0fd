---------------------------- MODULE RateLimiter ----------------------------
(***************************************************************************)
(* The sliding-window limiter that a Node deployment puts in front of the  *)
(* subscription delivery (src/node/rate-limiter.ts).  A call of limit runs *)
(* without an await, so it is one step.  A hit in the code is a time; here *)
(* a serial number tells hits of the same instant apart.  Date.now() is    *)
(* taken never to go back.                                                 *)
(***************************************************************************)
EXTENDS Integers, FiniteSets

CONSTANTS
  Key,      \* subscription ids
  Max,      \* hits allowed in a window
  Window,   \* windowMs, in clock ticks
  MaxTime   \* bound: the clock stops here

ASSUME LimiterAssumption ==
  Max \in Nat \ {0} /\ Window \in Nat \ {0} /\ MaxTime \in Nat

VARIABLES
  hits,      \* the log of each key
  answer,    \* what the last step answered, if it did
  now,
  serial,    \* the number of the next hit
  granted    \* observer: every hit ever let through, by key

vars == <<hits, answer, now, serial, granted>>

-----------------------------------------------------------------------------
Hit == [n : Nat, at : Nat]

Init ==
  /\ hits = [k \in Key |-> {}]
  /\ answer = {}
  /\ now = 0
  /\ serial = 0
  /\ granted = [k \in Key |-> {}]

(* Mutation of Recent: the hit at the very edge of the window is dropped.  *)
RecentShort(k) == {h \in hits[k] : h.at > now - Window + 1}

(* The hits of the window that ends now.                                   *)
Recent(k) == {h \in hits[k] : h.at > now - Window}

(* Mutation of Refuse: a refused call is logged as well.                   *)
RefuseAndLog(k) ==
  /\ Cardinality(Recent(k)) >= Max
  /\ hits' = [hits EXCEPT ![k] = Recent(k) \cup {[n |-> serial, at |-> now]}]
  /\ serial' = serial + 1
  /\ answer' = {[key |-> k, success |-> FALSE]}
  /\ UNCHANGED <<now, granted>>

Refuse(k) ==
  /\ Cardinality(Recent(k)) >= Max
  /\ hits' = [hits EXCEPT ![k] = Recent(k)]
  /\ answer' = {[key |-> k, success |-> FALSE]}
  /\ UNCHANGED <<now, serial, granted>>

(* Mutation of Grant: the log is stamped with the start of the window.     *)
GrantBackdated(k) ==
  LET h == [n |-> serial, at |-> now - Window] IN
  /\ Cardinality(Recent(k)) < Max
  /\ hits' = [hits EXCEPT ![k] = Recent(k) \cup {h}]
  /\ granted' = [granted EXCEPT ![k] = @ \cup {h}]
  /\ serial' = serial + 1
  /\ answer' = {[key |-> k, success |-> TRUE]}
  /\ UNCHANGED now

Grant(k) ==
  LET h == [n |-> serial, at |-> now] IN
  /\ Cardinality(Recent(k)) < Max
  /\ hits' = [hits EXCEPT ![k] = Recent(k) \cup {h}]
  /\ granted' = [granted EXCEPT ![k] = @ \cup {h}]
  /\ serial' = serial + 1
  /\ answer' = {[key |-> k, success |-> TRUE]}
  /\ UNCHANGED now

Tick ==
  /\ now < MaxTime
  /\ now' = now + 1
  /\ answer' = {}
  /\ UNCHANGED <<hits, serial, granted>>

Next == Tick \/ \E k \in Key : Refuse(k) \/ Grant(k)

Spec == Init /\ [][Next]_vars

-----------------------------------------------------------------------------
TypeOK ==
  /\ hits \in [Key -> SUBSET Hit]
  /\ answer \subseteq [key : Key, success : BOOLEAN]
  /\ now \in Nat
  /\ serial \in Nat
  /\ granted \in [Key -> SUBSET Hit]

(* The promise, over the history that the log does not keep.               *)
Promise == INSTANCE WindowLimit

InWindow(k, t) == Promise!InWindow(k, t)

(* The limiter decides from its log, which forgets, as the promise decides *)
(* from the history: a call is refused if and only if max hits really were *)
(* let through in the window that ends with it (rate-limiter.ts:17-27);    *)
(* neither refusals nor the hits of another subscription count.            *)
KeepsPromise == Promise!Spec

(* What that amounts to: however the calls fall, no window of windowMs lets*)
(* more than max hits of a key through, though the log forgets hits at     *)
(* every call (rate-limiter.ts:19-25).                                     *)
AtMostMax ==
  \A k \in Key : \A t \in 0..now : Cardinality(InWindow(k, t)) <= Max

(* "Keys are subscription ids (bounded set), so memory stays flat"         *)
(* (rate-limiter.ts:7): a log never outgrows max.                          *)
LogBounded == \A k \in Key : Cardinality(hits[k]) <= Max
=============================================================================
