------------------------- MODULE RateLimiterProofs -------------------------
(***************************************************************************)
(* The limiter keeps its limit for any number of keys, any limit and any   *)
(* window.  The log of a key is shorter than its history: the invariant    *)
(* says that it still holds every hit of the window that ends now.         *)
(***************************************************************************)
EXTENDS RateLimiter, FiniteSetTheorems, TLAPS

(* What is logged was granted, and what was granted in the last window is  *)
(* logged; nothing is dated in the future or has a number yet to come.     *)
LogOf(k) ==
  /\ hits[k] \subseteq granted[k]
  /\ \A h \in granted[k] : h.at > now - Window => h \in hits[k]
  /\ \A h \in granted[k] : h.at <= now /\ h.n < serial

ShortLog(k) == IsFiniteSet(hits[k]) /\ Cardinality(hits[k]) <= Max

Limited(k) == \A t \in 0..now : /\ IsFiniteSet(InWindow(k, t))
                                /\ Cardinality(InWindow(k, t)) <= Max

LimiterInv ==
  /\ TypeOK
  /\ \A k \in Key : LogOf(k) /\ ShortLog(k) /\ Limited(k)

-----------------------------------------------------------------------------
(* The variables keep their types: hits are dated by the clock.            *)
THEOREM TypeCorrect == Spec => []TypeOK
<1>1. Init => TypeOK
  BY DEF Init, TypeOK
<1>2. TypeOK /\ [Next]_vars => TypeOK'
  <2> SUFFICES ASSUME TypeOK, [Next]_vars PROVE TypeOK'
    OBVIOUS
  <2>1. ASSUME NEW k \in Key PROVE Recent(k) \subseteq Hit
    BY DEF TypeOK, Recent
  <2>2. CASE Tick
    BY <2>2 DEF TypeOK, Tick
  <2>3. ASSUME NEW k \in Key, Refuse(k) PROVE TypeOK'
    BY <2>1, <2>3 DEF TypeOK, Refuse
  <2>4. ASSUME NEW k \in Key, Grant(k) PROVE TypeOK'
    <3>1. [n |-> serial, at |-> now] \in Hit
      BY DEF TypeOK, Hit
    <3> QED  BY <2>1, <2>4, <3>1 DEF TypeOK, Grant
  <2>5. CASE UNCHANGED vars
    BY <2>5 DEF TypeOK, vars
  <2> QED  BY <2>2, <2>3, <2>4, <2>5 DEF Next
<1> QED  BY <1>1, <1>2, PTL DEF Spec

-----------------------------------------------------------------------------
(* The hits that limit counts are exactly those let through in the window  *)
(* that ends now, a finite set.                                            *)
LEMMA RecentIsWindow ==
  ASSUME TypeOK, NEW k \in Key, LogOf(k), ShortLog(k)
  PROVE  /\ Recent(k) = InWindow(k, now)
         /\ IsFiniteSet(Recent(k))
         /\ Cardinality(Recent(k)) \in Nat
         /\ Cardinality(Recent(k)) <= Cardinality(hits[k])
<1>1. Recent(k) = InWindow(k, now)
  BY LimiterAssumption DEF Recent, InWindow, Promise!InWindow, LogOf, TypeOK, Hit
<1>2. Recent(k) \subseteq hits[k]
  BY DEF Recent
<1> QED  BY <1>1, <1>2, FS_Subset, FS_CardinalityType DEF ShortLog

LEMMA InitEstablishes == Init => LimiterInv
<1> SUFFICES ASSUME Init PROVE LimiterInv
  OBVIOUS
<1>1. TypeOK
  BY DEF Init, TypeOK
<1>2. ASSUME NEW k \in Key PROVE LogOf(k) /\ ShortLog(k) /\ Limited(k)
  <2>1. hits[k] = {} /\ granted[k] = {}
    BY DEF Init
  <2>2. \A t \in 0..now : InWindow(k, t) = {}
    BY <2>1 DEF InWindow, Promise!InWindow
  <2> QED
    BY <2>1, <2>2, FS_EmptySet, LimiterAssumption
    DEF LogOf, ShortLog, Limited
<1> QED  BY <1>1, <1>2 DEF LimiterInv

(* Time passes: the window that ends at the new instant holds only hits    *)
(* that are still logged.                                                  *)
LEMMA TickKeeps == LimiterInv /\ TypeOK' /\ Tick => LimiterInv'
<1> SUFFICES ASSUME LimiterInv, TypeOK', Tick PROVE LimiterInv'
  OBVIOUS
<1> USE LimiterAssumption
<1>1. now \in Nat /\ now' = now + 1
  BY DEF Tick, LimiterInv, TypeOK
<1>2. ASSUME NEW k \in Key PROVE (LogOf(k) /\ ShortLog(k) /\ Limited(k))'
  <2>1. LogOf(k) /\ ShortLog(k) /\ Limited(k) /\ TypeOK
    BY DEF LimiterInv
  <2>2. hits'[k] = hits[k] /\ granted'[k] = granted[k] /\ serial' = serial
    BY DEF Tick
  <2>3. \A h \in granted[k] : h.at \in Nat
    BY <2>1 DEF TypeOK, Hit
  <2>4. LogOf(k)' /\ ShortLog(k)'
    BY <1>1, <2>1, <2>2, <2>3 DEF LogOf, ShortLog
  <2>5. \A t \in 0..now : InWindow(k, t)' = InWindow(k, t)
    BY <2>2 DEF InWindow, Promise!InWindow
  <2>6. InWindow(k, now)' \subseteq hits[k]
    BY <1>1, <2>1, <2>2, <2>3 DEF InWindow, Promise!InWindow, LogOf
  <2>7. /\ IsFiniteSet(InWindow(k, now)')
        /\ Cardinality(InWindow(k, now)') <= Cardinality(hits[k])
        /\ Cardinality(InWindow(k, now)') \in Nat
        /\ Cardinality(hits[k]) \in Nat
    BY <2>1, <2>6, FS_Subset, FS_CardinalityType DEF ShortLog
  <2>8. ASSUME NEW t \in 0..(now + 1)
        PROVE  /\ IsFiniteSet(InWindow(k, t)')
               /\ Cardinality(InWindow(k, t)') <= Max
    <3>1. CASE t = now + 1
      <4>1. InWindow(k, t)' = InWindow(k, now)'
        BY <1>1, <3>1 DEF InWindow, Promise!InWindow
      <4> QED  BY <2>1, <2>7, <4>1 DEF ShortLog
    <3>2. CASE t \in 0..now
      BY <2>1, <2>5, <3>2 DEF Limited
    <3> QED  BY <1>1, <3>1, <3>2
  <2> QED  BY <1>1, <2>4, <2>8 DEF Limited
<1> QED  BY <1>2 DEF LimiterInv

(* A refused call only forgets hits that no later window can hold.         *)
LEMMA RefuseKeeps ==
  ASSUME LimiterInv, TypeOK', NEW c \in Key, Refuse(c) PROVE LimiterInv'
<1> USE LimiterAssumption
<1>1. now \in Nat /\ now' = now /\ serial' = serial /\ granted' = granted
  BY DEF Refuse, LimiterInv, TypeOK
<1>2. ASSUME NEW k \in Key PROVE (LogOf(k) /\ ShortLog(k) /\ Limited(k))'
  <2>1. LogOf(k) /\ ShortLog(k) /\ Limited(k) /\ TypeOK
    BY DEF LimiterInv
  <2>2. hits'[k] = IF k = c THEN Recent(k) ELSE hits[k]
    BY <2>1 DEF Refuse, TypeOK
  <2>3. LogOf(k)'
    BY <1>1, <2>1, <2>2 DEF LogOf, Recent
  <2>4. Cardinality(hits[k]) \in Nat
    BY <2>1, FS_CardinalityType DEF ShortLog
  <2>5. ShortLog(k)'
    BY <2>1, <2>2, <2>4, RecentIsWindow DEF ShortLog
  <2>6. Limited(k)'
    BY <1>1, <2>1 DEF Limited, InWindow, Promise!InWindow
  <2> QED  BY <2>3, <2>5, <2>6
<1> QED  BY <1>2 DEF LimiterInv

(* A granted call adds one hit, to the log and to the window that ends     *)
(* now, which held fewer than Max.                                         *)
LEMMA GrantKeeps ==
  ASSUME LimiterInv, TypeOK', NEW c \in Key, Grant(c) PROVE LimiterInv'
<1> USE LimiterAssumption
<1> DEFINE hit == [n |-> serial, at |-> now]
<1>1. /\ now \in Nat /\ now' = now
      /\ serial \in Nat /\ serial' = serial + 1
      /\ Cardinality(Recent(c)) < Max
  BY DEF Grant, LimiterInv, TypeOK
<1>2. hit.n = serial /\ hit.at = now
  OBVIOUS
<1>3. /\ hits' = [hits EXCEPT ![c] = Recent(c) \cup {hit}]
      /\ granted' = [granted EXCEPT ![c] = @ \cup {hit}]
  BY DEF Grant
<1> HIDE DEF hit
<1>4. ASSUME NEW k \in Key PROVE (LogOf(k) /\ ShortLog(k) /\ Limited(k))'
  <2>1. LogOf(k) /\ ShortLog(k) /\ Limited(k) /\ TypeOK
    BY DEF LimiterInv
  <2>2. CASE k # c
    <3>1. hits'[k] = hits[k] /\ granted'[k] = granted[k]
      BY <1>3, <2>1, <2>2 DEF TypeOK
    <3>2. \A h \in granted[k] : h.n \in Nat
      BY <2>1 DEF TypeOK, Hit
    <3>3. LogOf(k)' /\ ShortLog(k)'
      BY <1>1, <2>1, <3>1, <3>2 DEF LogOf, ShortLog
    <3>4. Limited(k)'
      BY <1>1, <2>1, <3>1 DEF Limited, InWindow, Promise!InWindow
    <3> QED  BY <3>3, <3>4
  <2>3. CASE k = c
    <3>1. hits'[k] = Recent(k) \cup {hit} /\ granted'[k] = granted[k] \cup {hit}
      BY <1>3, <2>1, <2>3 DEF TypeOK
    <3>2. \A h \in granted[k] : h.n \in Nat /\ h.at \in Nat
      BY <2>1 DEF TypeOK, Hit
    <3>3. LogOf(k)'
      BY <1>1, <1>2, <2>1, <3>1, <3>2 DEF LogOf, Recent
    <3>4. hit \notin Recent(k)
      BY <1>1, <1>2, <2>1, <3>2 DEF LogOf, Recent
    <3>5. /\ IsFiniteSet(Recent(k) \cup {hit})
          /\ Cardinality(Recent(k) \cup {hit}) <= Max
      <4>1. /\ IsFiniteSet(Recent(k))
            /\ Cardinality(Recent(k)) \in Nat
        BY <2>1, RecentIsWindow
      <4>2. /\ IsFiniteSet(Recent(k) \cup {hit})
            /\ Cardinality(Recent(k) \cup {hit}) = Cardinality(Recent(k)) + 1
        BY <3>4, <4>1, FS_AddElement
      <4>3. Cardinality(Recent(k)) < Max
        BY <1>1, <2>3
      <4> QED  BY <4>1, <4>2, <4>3
    <3>6. ShortLog(k)'
      BY <3>1, <3>5 DEF ShortLog
    <3>7. InWindow(k, now)' = Recent(k) \cup {hit}
      BY <1>1, <1>2, <2>1, <3>1, RecentIsWindow DEF InWindow, Promise!InWindow
    <3>8. \A t \in 0..now : t # now => InWindow(k, t)' = InWindow(k, t)
      BY <1>1, <1>2, <3>1 DEF InWindow, Promise!InWindow
    <3>9. Limited(k)'
      BY <1>1, <2>1, <3>5, <3>7, <3>8 DEF Limited
    <3> QED  BY <3>3, <3>6, <3>9
  <2> QED  BY <2>2, <2>3
<1> QED  BY <1>4 DEF LimiterInv

LEMMA Invariance == Spec => []LimiterInv
<1>1. LimiterInv /\ TypeOK' /\ [Next]_vars => LimiterInv'
  <2> SUFFICES ASSUME LimiterInv, TypeOK', [Next]_vars PROVE LimiterInv'
    OBVIOUS
  <2>1. CASE Tick
    BY <2>1, TickKeeps
  <2>2. ASSUME NEW k \in Key, Refuse(k) PROVE LimiterInv'
    BY <2>2, RefuseKeeps
  <2>3. ASSUME NEW k \in Key, Grant(k) PROVE LimiterInv'
    BY <2>3, GrantKeeps
  <2>4. CASE UNCHANGED vars
    BY <2>4
    DEF vars, LimiterInv, TypeOK, LogOf, ShortLog, Limited, InWindow, Promise!InWindow
  <2> QED  BY <2>1, <2>2, <2>3, <2>4 DEF Next
<1> QED  BY <1>1, InitEstablishes, TypeCorrect, PTL DEF Spec

-----------------------------------------------------------------------------
(* No window lets more than Max hits of a key through.                     *)
THEOREM LimitHolds == Spec => []AtMostMax
<1>1. LimiterInv => AtMostMax
  BY DEF LimiterInv, Limited, AtMostMax
<1> QED  BY <1>1, Invariance, PTL

(* "memory stays flat": no log outgrows Max (rate-limiter.ts:7).           *)
THEOREM LogStaysFlat == Spec => []LogBounded
<1>1. LimiterInv => LogBounded
  BY DEF LimiterInv, ShortLog, LogBounded
<1> QED  BY <1>1, Invariance, PTL

(* The limiter answers as the promise does: at every call its log agrees   *)
(* with the history about the window that ends now.                        *)
THEOREM Refinement == Spec => KeepsPromise
<1>1. Init => Promise!Init
  BY DEF Init, Promise!Init
<1>2. LimiterInv /\ [Next]_vars => [Promise!Next]_<<granted, answer, now>>
  <2> SUFFICES ASSUME LimiterInv, [Next]_vars
               PROVE  [Promise!Next]_<<granted, answer, now>>
    OBVIOUS
  <2>1. CASE Tick
    BY <2>1 DEF Tick, Promise!Next, Promise!Tick
  <2>2. ASSUME NEW k \in Key
        PROVE  /\ Promise!Full(k) <=> Cardinality(Recent(k)) >= Max
               /\ Cardinality(Recent(k)) \in Nat
    <3>1. /\ Recent(k) = InWindow(k, now)
          /\ Cardinality(Recent(k)) \in Nat
      BY RecentIsWindow DEF LimiterInv
    <3>2. Promise!Full(k) <=> Cardinality(InWindow(k, now)) >= Max
      BY DEF InWindow, Promise!Full, Cardinality, Promise!Cardinality
    <3> QED  BY <3>1, <3>2
  <2>3. ASSUME NEW k \in Key, Refuse(k) PROVE Promise!Refuse(k)
    BY <2>2, <2>3 DEF Refuse, Promise!Refuse
  <2>4. ASSUME NEW k \in Key, Grant(k) PROVE Promise!Grant(k)
    <3> DEFINE hit == [n |-> serial, at |-> now]
    <3>1. hit \notin granted[k]
      BY DEF LimiterInv, LogOf, TypeOK
    <3>2. /\ granted' = [granted EXCEPT ![k] = @ \cup {hit}]
          /\ hit \in granted'[k]
      BY <2>4 DEF Grant, LimiterInv, TypeOK
    <3>3. ~ Promise!Full(k)
      BY <2>2, <2>4, LimiterAssumption DEF Grant
    <3>4. hit.at = now /\ now' = now /\ answer' = {[key |-> k, success |-> TRUE]}
      BY <2>4 DEF Grant
    <3> HIDE DEF hit
    <3> QED  BY <3>1, <3>2, <3>3, <3>4 DEF Promise!Grant
  <2>5. CASE UNCHANGED vars
    BY <2>5 DEF vars
  <2> QED  BY <2>1, <2>3, <2>4, <2>5 DEF Next, Promise!Next
<1> QED  BY <1>1, <1>2, Invariance, PTL DEF Spec, KeepsPromise, Promise!Spec
=============================================================================
