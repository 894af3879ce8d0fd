--------------------- MODULE SubscriptionDeliveryProofs ---------------------
(***************************************************************************)
(* Theorems about SubscriptionDelivery, for any sets of subscriptions,     *)
(* paths, tokens, isolates and requests and any TTL, interval and bounds.  *)
(***************************************************************************)
EXTENDS SubscriptionDelivery, TLAPS

-----------------------------------------------------------------------------
(* Type correctness.                                                       *)

(* What D1 says is always a set of verdicts.                               *)
LEMMA VerdictsType ==
  ASSUME NEW rows, rows \subseteq Row, NEW p, NEW t
  PROVE  Verdicts(rows, p, t) \subseteq Verdict
BY DEF Verdicts, Verdict, Row

(* The initial state has the right types.                                  *)
LEMMA InitType == Init => TypeOK
BY DeliveryAssumption DEF Init, TypeOK

(* What the request operators do to the response and to inflight.          *)
LEMMA ReplyType ==
  ASSUME NEW q \in Request, NEW c \in Code, NEW s \in Sub \cup {NoSub},
         Reply(q, c, s)
  PROVE  answer' \subseteq Answer
BY DEF Reply, Request, Answer

LEMMA RefuseType ==
  ASSUME inflight \subseteq Request, NEW q \in inflight, NEW c \in Code,
         Refuse(q, c)
  PROVE  answer' \subseteq Answer /\ inflight' \subseteq Request
<1>1. q \in Request /\ NoSub \in Sub \cup {NoSub} /\ Reply(q, c, NoSub)
  BY DEF Refuse
<1>2. answer' \subseteq Answer
  BY <1>1, ReplyType
<1> QED BY <1>2 DEF Refuse, Finish

LEMMA GotoType ==
  ASSUME inflight \subseteq Request, NEW q \in inflight, NEW ph \in Phase,
         Goto(q, ph)
  PROVE  inflight' \subseteq Request
BY DEF Goto, Request

LEMMA SilentType == ASSUME Silent PROVE answer' \subseteq Answer
BY DEF Silent

(* Every step of a request keeps the types.                                *)
LEMMA ServeType ==
  ASSUME TypeOK, NEW q \in inflight, Serve(q)
  PROVE  TypeOK'
<1>0. /\ q \in Request /\ inflight \subseteq Request
      /\ subs \subseteq Row /\ subcache \subseteq Entry /\ now \in Nat
      /\ subCacheWriteAt \in [Isolate -> [Path -> Nat]]
      /\ purged \in [Path -> {"no", "quiet", "racing"}]
      /\ writes \in [Isolate -> [Path -> Seq(Nat)]]
  BY DEF TypeOK
<1>1. /\ q.iso \in Isolate /\ q.path \in Path /\ q.token \in Token
      /\ q.sub \in Sub \cup {NoSub} /\ q.seen \subseteq Verdict
  BY <1>0 DEF Request
<1>2. /\ Phase = {"lookup", "limit", "instances", "render", "put", "stale",
                  "purge"}
      /\ "OK" \in Code /\ "STALE" \in Code /\ "SUB_NOT_FOUND" \in Code
      /\ "AUTH_INVALID_TOKEN" \in Code /\ "SUB_INACTIVE" \in Code
      /\ "RATE_LIMITED" \in Code /\ "KV_UNAVAILABLE" \in Code
      /\ "INSTANCES_MISSING" \in Code /\ "OVERALL_RENDER_FAILED" \in Code
      /\ "DB_UNAVAILABLE" \in Code /\ NoSub \in Sub \cup {NoSub}
  BY DEF Phase, Code
<1>3. CASE Lookup(q)
  <2>1. ASSUME \A row \in subs : row.path # q.path, Refuse(q, "SUB_NOT_FOUND")
        PROVE  inflight' \subseteq Request /\ answer' \subseteq Answer
    BY <1>0, <1>2, <2>1, RefuseType
  <2>2. ASSUME Refuse(q, "AUTH_INVALID_TOKEN")
        PROVE  inflight' \subseteq Request /\ answer' \subseteq Answer
    BY <1>0, <1>2, <2>2, RefuseType
  <2>3. ASSUME Goto(q, "purge"), Reply(q, "SUB_INACTIVE", NoSub)
        PROVE  inflight' \subseteq Request /\ answer' \subseteq Answer
    BY <1>0, <1>2, <2>3, GotoType, ReplyType
  <2>4. ASSUME NEW row \in subs, Silent,
               inflight' = (inflight \ {q}) \cup
                 {[q EXCEPT !.phase = "limit", !.sub = row.id]}
        PROVE  inflight' \subseteq Request /\ answer' \subseteq Answer
    <3>1. row.id \in Sub
      BY <1>0 DEF Row
    <3>2. [q EXCEPT !.phase = "limit", !.sub = row.id] \in Request
      BY <1>0, <1>2, <3>1 DEF Request
    <3> QED BY <1>0, <2>4, <3>2, SilentType
  <2>5. inflight' \subseteq Request /\ answer' \subseteq Answer
    BY <1>3, <2>1, <2>2, <2>3, <2>4 DEF Lookup
  <2> QED BY <1>3, <2>5 DEF TypeOK, Lookup
<1>4. CASE CheckRate(q)
  <2>1. inflight' \subseteq Request /\ answer' \subseteq Answer
    BY <1>0, <1>2, <1>4, RefuseType, GotoType, SilentType DEF CheckRate
  <2> QED BY <1>4, <2>1 DEF TypeOK, CheckRate
<1>5. CASE ReadInstances(q)
  <2>1. inflight' \subseteq Request /\ answer' \subseteq Answer
    BY <1>0, <1>2, <1>5, RefuseType, GotoType, SilentType DEF ReadInstances
  <2> QED BY <1>5, <2>1 DEF TypeOK, ReadInstances
<1>6. CASE Render(q)
  <2>1. ASSUME Goto(q, "put"), Silent
        PROVE  inflight' \subseteq Request /\ answer' \subseteq Answer
    BY <1>0, <1>2, <2>1, GotoType, SilentType
  <2>2. ASSUME Finish(q), Reply(q, "OK", q.sub)
        PROVE  inflight' \subseteq Request /\ answer' \subseteq Answer
    BY <1>0, <1>1, <1>2, <2>2, ReplyType DEF Finish
  <2>3. inflight' \subseteq Request /\ answer' \subseteq Answer
    BY <1>0, <1>2, <1>6, <2>1, <2>2, RefuseType DEF Render, StartWrite
  <2>4. subCacheWriteAt' \in [Isolate -> [Path -> Nat]]
    <3>1. \/ subCacheWriteAt' = subCacheWriteAt
          \/ subCacheWriteAt' = [subCacheWriteAt EXCEPT ![q.iso][q.path] = now]
      BY <1>6 DEF Render
    <3>2. [subCacheWriteAt EXCEPT ![q.iso][q.path] = now]
            \in [Isolate -> [Path -> Nat]]
      BY <1>0, <1>1
    <3> QED BY <1>0, <3>1, <3>2
  <2>5. writes' \in [Isolate -> [Path -> Seq(Nat)]]
    <3> DEFINE log == Append(writes[q.iso][q.path], now)
    <3>1. writes[q.iso][q.path] \in Seq(Nat)
      BY <1>0, <1>1
    <3>2. log \in Seq(Nat)
      BY <1>0, <3>1
    <3>3. \/ writes' = writes
          \/ writes' = [writes EXCEPT ![q.iso][q.path] = log]
      BY <1>6 DEF Render, StartWrite
    <3> HIDE DEF log
    <3>4. [writes EXCEPT ![q.iso][q.path] = log]
            \in [Isolate -> [Path -> Seq(Nat)]]
      BY <1>0, <1>1, <3>2
    <3> QED BY <1>0, <3>3, <3>4
  <2> QED BY <1>6, <2>3, <2>4, <2>5 DEF TypeOK, Render
<1>7. CASE WriteDeliveryCache(q)
  <2>1. [path |-> q.path, tokenHash |-> HashToken(q.token), active |-> TRUE,
         config |-> q.sub, expireAt |-> now + SubCacheTTL] \in Entry
    BY <1>0, <1>1, DeliveryAssumption DEF Entry
  <2>2. subcache' \subseteq Entry
    BY <1>0, <1>7, <2>1 DEF WriteDeliveryCache
  <2>3. inflight' \subseteq Request /\ answer' \subseteq Answer
    BY <1>0, <1>1, <1>2, <1>7, ReplyType DEF WriteDeliveryCache, Finish
  <2> QED BY <1>7, <2>2, <2>3 DEF TypeOK, WriteDeliveryCache
<1>8. CASE D1Fails(q)
  <2>1. inflight' \subseteq Request /\ answer' \subseteq Answer
    BY <1>0, <1>2, <1>8, GotoType, SilentType DEF D1Fails
  <2> QED BY <1>8, <2>1 DEF TypeOK, D1Fails
<1>9. CASE ServeStaleDelivery(q)
  <2>1. \A e \in subcache : e.config \in Sub \cup {NoSub}
    BY <1>0 DEF Entry
  <2>2. inflight' \subseteq Request /\ answer' \subseteq Answer
    BY <1>0, <1>2, <1>9, <2>1, ReplyType DEF ServeStaleDelivery, Finish
  <2> QED BY <1>9, <2>2 DEF TypeOK, ServeStaleDelivery
<1>10. CASE StaleLookupFails(q)
  <2>1. inflight' \subseteq Request /\ answer' \subseteq Answer
    BY <1>0, <1>2, <1>10, RefuseType DEF StaleLookupFails
  <2> QED BY <1>10, <2>1 DEF TypeOK, StaleLookupFails
<1>11. CASE Purge(q)
  <2>1. purged' \in [Path -> {"no", "quiet", "racing"}]
    BY <1>0, <1>1, <1>11 DEF Purge
  <2>2. /\ inflight' \subseteq Request /\ answer' \subseteq Answer
        /\ subcache' \subseteq Entry
    BY <1>0, <1>11, SilentType DEF Purge, Finish
  <2> QED BY <1>11, <2>1, <2>2 DEF TypeOK, Purge
<1>12. CASE PurgeFails(q)
  BY <1>0, <1>12, SilentType DEF TypeOK, PurgeFails, Finish
<1> QED
  BY <1>3, <1>4, <1>5, <1>6, <1>7, <1>8, <1>9, <1>10, <1>11, <1>12 DEF Serve

(* An edit that leaves a well-formed table keeps the types.                *)
LEMMA ObserveType ==
  ASSUME TypeOK, subs' \subseteq Row, used' \subseteq Sub, Observe
  PROVE  TypeOK'
<1>1. lastHeld' \in [Grant -> Nat]
  BY DEF TypeOK, Observe
<1>2. inflight' \subseteq Request
  <2>1. ASSUME NEW q \in inflight
        PROVE  [q EXCEPT !.seen = @ \cup Verdicts(subs', q.path, q.token)]
                 \in Request
    <3>1. Verdicts(subs', q.path, q.token) \subseteq Verdict
      BY VerdictsType
    <3> QED BY <3>1 DEF TypeOK, Request
  <2> QED BY <2>1 DEF Observe
<1>3. purged' \in [Path -> {"no", "quiet", "racing"}]
  BY DEF TypeOK, Observe
<1>4. edits' \in Nat /\ answer' \subseteq Answer
  BY SilentType DEF TypeOK, Observe
<1> QED BY <1>1, <1>2, <1>3, <1>4 DEF TypeOK, Observe

LEMMA AdminType == ASSUME TypeOK, Admin PROVE TypeOK'
<1>1. ASSUME NEW s \in Sub, NEW p \in Path, NEW t \in Token,
             NEW a \in BOOLEAN, CreateSubscription(s, p, t, a)
      PROVE  TypeOK'
  <2>1. subs' \subseteq Row /\ used' \subseteq Sub /\ Observe
    BY <1>1 DEF TypeOK, CreateSubscription, Row
  <2> QED BY <2>1, ObserveType
<1>2. ASSUME NEW row \in subs, NEW p \in Path, NEW t \in Token,
             NEW a \in BOOLEAN, UpdateSubscription(row, p, t, a)
      PROVE  TypeOK'
  <2>1. subs' \subseteq Row /\ used' \subseteq Sub /\ Observe
    BY <1>2 DEF TypeOK, UpdateSubscription, Row
  <2> QED BY <2>1, ObserveType
<1>3. ASSUME NEW row \in subs, DeleteSubscription(row)
      PROVE  TypeOK'
  <2>1. subs' \subseteq Row /\ used' \subseteq Sub /\ Observe
    BY <1>3 DEF TypeOK, DeleteSubscription
  <2> QED BY <2>1, ObserveType
<1> QED BY <1>1, <1>2, <1>3 DEF Admin

(* Every step keeps the types.                                             *)
LEMMA NextType == ASSUME TypeOK, [Next]_vars PROVE TypeOK'
<1>1. ASSUME NEW id \in Req, NEW i \in Isolate, NEW p \in Path,
             NEW t \in Token, Receive(id, i, p, t)
      PROVE  TypeOK'
  <2>1. Verdicts(subs, p, t) \subseteq Verdict
    BY VerdictsType DEF TypeOK
  <2>2. inflight' \subseteq Request
    BY <1>1, <2>1 DEF Receive, TypeOK, Request, Phase
  <2> QED BY <1>1, <2>2, SilentType DEF Receive, TypeOK
<1>3. CASE Tick
  <2>1. now' \in Nat /\ subcache' \subseteq Entry /\ answer' \subseteq Answer
    BY <1>3, SilentType DEF Tick, TypeOK
  <2>2. lastHeld' \in [Grant -> Nat]
    BY <1>3, <2>1 DEF Tick, TypeOK
  <2> QED BY <1>3, <2>1, <2>2 DEF Tick, TypeOK
<1>4. ASSUME NEW i \in Isolate, Restart(i)
      PROVE  TypeOK'
  <2>1. subCacheWriteAt' \in [Isolate -> [Path -> Nat]]
    BY <1>4 DEF Restart, TypeOK
  <2>2. writes' \in [Isolate -> [Path -> Seq(Nat)]]
    BY <1>4 DEF Restart, TypeOK
  <2> QED BY <1>4, <2>1, <2>2, SilentType DEF Restart, TypeOK
<1>5. CASE UNCHANGED vars
  BY <1>5 DEF TypeOK, vars
<1> QED BY <1>1, <1>3, <1>4, <1>5, ServeType, AdminType DEF Next

(* Every variable of the delivery plane keeps its shape in every behaviour:*)
(* in particular the cache only ever holds token hashes.                   *)
THEOREM TypeCorrect == Spec => []TypeOK
<1>1. Init => TypeOK
  BY InitType
<1>2. TypeOK /\ [Next]_vars => TypeOK'
  BY NextType
<1> QED BY <1>1, <1>2, PTL DEF Spec

-----------------------------------------------------------------------------
(* The inductive invariant behind StaleBounded, AnswerLinearizable,        *)
(* PutsSpaced and PurgedStaysEmpty.                                        *)

(* No grant is stamped with the future, and one that holds with the        *)
(* present.                                                                *)
HeldNow ==
  \A g \in Grant : lastHeld[g] <= now /\ (Holds(subs, g) => lastHeld[g] = now)

(* A request started no longer than its lifetime ago.                      *)
FlightBounded ==
  \A q \in inflight : /\ 0 < q.start /\ q.start <= now
                      /\ now <= q.start + MaxFlight

(* A request remembers every verdict D1 had for it, the present one too.   *)
SeenCurrent ==
  \A q \in inflight : Verdicts(subs, q.path, q.token) \subseteq q.seen

(* A request past the checks works for a subscription it was entitled to   *)
(* after it had started.                                                   *)
Entitled(q) ==
  /\ q.sub \in Sub
  /\ [code |-> "OK", sub |-> q.sub] \in q.seen
  /\ q.start <= lastHeld[<<q.sub, q.path, q.token>>]

DeliveringEntitled ==
  \A q \in inflight : q.phase \in Delivering => Entitled(q)

(* A cached delivery expires a TTL and a request's life after its grant.   *)
Bounded(e, t) ==
  /\ e.config \in Sub
  /\ 0 < lastHeld[<<e.config, e.path, t>>]
  /\ e.expireAt <= lastHeld[<<e.config, e.path, t>>] + SubCacheTTL + MaxFlight

CacheBounded ==
  \A e \in subcache, t \in Token : e.tokenHash = HashToken(t) => Bounded(e, t)

(* The isolate's map is stamped no earlier than any write it let start: a  *)
(* check against the last stamp is a check against all of them.            *)
ClaimedByMap ==
  \A i \in Isolate, p \in Path : \A m \in 1..Len(writes[i][p]) :
    writes[i][p][m] <= subCacheWriteAt[i][p]

(* A quietly purged path has no active row and no delivery under way.      *)
QuietIsDead ==
  \A p \in Path : purged[p] = "quiet" =>
    /\ ~ActiveAt(subs, p)
    /\ \A q \in inflight : q.path = p => q.phase \notin Delivering

StateInv ==
  /\ 0 < now /\ HeldNow /\ FlightBounded /\ SeenCurrent /\ DeliveringEntitled
  /\ CacheBounded /\ ClaimedByMap /\ QuietIsDead
  /\ PutsSpaced /\ PurgedStaysEmpty

IInv == TypeOK /\ StateInv /\ AnswerLinearizable /\ StaleBounded

LEMMA InitInv == Init => IInv
<1> SUFFICES ASSUME Init PROVE IInv
  OBVIOUS
<1>1. TypeOK /\ 0 < now
  BY InitType, DeliveryAssumption DEF Init
<1>2. HeldNow /\ QuietIsDead /\ PurgedStaysEmpty
  BY DeliveryAssumption DEF Init, HeldNow, Holds, QuietIsDead, PurgedStaysEmpty
<1>3. FlightBounded /\ SeenCurrent /\ DeliveringEntitled /\ CacheBounded
      /\ AnswerLinearizable /\ StaleBounded
  BY DEF Init, FlightBounded, SeenCurrent, DeliveringEntitled, CacheBounded,
         AnswerLinearizable, StaleBounded
<1>4. ClaimedByMap /\ PutsSpaced
  <2>1. \A i \in Isolate, p \in Path : 1..Len(writes[i][p]) = {}
    BY DEF Init
  <2> QED BY <2>1 DEF ClaimedByMap, PutsSpaced
<1> QED BY <1>1, <1>2, <1>3, <1>4 DEF IInv, StateInv

(* A request that ends, or goes to a phase other than "put" and does not   *)
(* become a delivery, keeps the invariant, whatever leaves the cache.      *)
LEMMA MoveKeeps ==
  ASSUME TypeOK, StateInv, NEW q \in inflight, NEW ph \in Phase \ {"put"},
         ph \in Delivering => q.phase \in Delivering,
         inflight' \subseteq (inflight \ {q}) \cup {[q EXCEPT !.phase = ph]},
         subcache' \subseteq subcache,
         UNCHANGED <<subs, subCacheWriteAt, now, lastHeld, purged, writes>>
  PROVE  StateInv'
<1> DEFINE n == [q EXCEPT !.phase = ph]
<1>1. /\ n.id = q.id /\ n.iso = q.iso /\ n.path = q.path /\ n.token = q.token
      /\ n.sub = q.sub /\ n.start = q.start /\ n.seen = q.seen /\ n.phase = ph
  BY DEF TypeOK, Request
<1>2. \A r \in inflight' : r \in inflight \/ r = n
  OBVIOUS
<1> HIDE DEF n
<1>3. (0 < now)' /\ HeldNow'
  BY DEF StateInv, HeldNow
<1>4. FlightBounded' /\ SeenCurrent'
  BY <1>1, <1>2 DEF StateInv, FlightBounded, SeenCurrent
<1>5. DeliveringEntitled'
  BY <1>1, <1>2 DEF StateInv, DeliveringEntitled, Entitled
<1>6. CacheBounded'
  BY DEF StateInv, CacheBounded, Bounded
<1>7. ClaimedByMap' /\ PutsSpaced'
  BY DEF StateInv, ClaimedByMap, PutsSpaced
<1>8. QuietIsDead' /\ PurgedStaysEmpty'
  BY <1>1, <1>2 DEF StateInv, QuietIsDead, PurgedStaysEmpty
<1> QED BY <1>3, <1>4, <1>5, <1>6, <1>7, <1>8 DEF StateInv

(* Steps that send nothing say nothing wrong.                              *)
LEMMA SilentSafe == Silent => AnswerLinearizable' /\ StaleBounded'
BY DEF Silent, AnswerLinearizable, StaleBounded

(* A refusal with a code that claims nothing about the table.              *)
LEMMA OtherCodeSafe ==
  ASSUME NEW q, NEW c,
         c \notin {"SUB_NOT_FOUND", "AUTH_INVALID_TOKEN", "SUB_INACTIVE", "OK",
                  "STALE"},
         Reply(q, c, NoSub)
  PROVE  AnswerLinearizable' /\ StaleBounded'
BY DEF Reply, AnswerLinearizable, StaleBounded

(* A refusal or delivery that the table justified at some moment.          *)
LEMMA SeenCodeSafe ==
  ASSUME NEW q, NEW c, c # "STALE", NEW s,
         [code |-> c, sub |-> s] \in q.seen, Reply(q, c, s)
  PROVE  AnswerLinearizable' /\ StaleBounded'
BY DEF Reply, AnswerLinearizable, StaleBounded

LEMMA LookupInv ==
  ASSUME IInv, NEW q \in inflight, Lookup(q)
  PROVE  StateInv' /\ AnswerLinearizable' /\ StaleBounded'
<1>1. /\ q.phase = "lookup" /\ TypeOK /\ StateInv
      /\ UNCHANGED <<subs, used, subcache, subCacheWriteAt, now, edits,
                     lastHeld, purged, writes>>
      /\ Verdicts(subs, q.path, q.token) \subseteq q.seen
      /\ q \in Request
  BY DEF IInv, StateInv, SeenCurrent, Lookup, TypeOK
<1>2. CASE (\A row \in subs : row.path # q.path) /\ Refuse(q, "SUB_NOT_FOUND")
  <2>1. [code |-> "SUB_NOT_FOUND", sub |-> NoSub] \in q.seen
    BY <1>1, <1>2 DEF Verdicts
  <2>2. StateInv'
    BY <1>1, <1>2, MoveKeeps DEF Refuse, Finish, Phase, Delivering
  <2> QED BY <1>2, <2>1, <2>2, SeenCodeSafe DEF Refuse
<1>3. ASSUME NEW row \in subs, row.path = q.path, row.token # q.token,
             Refuse(q, "AUTH_INVALID_TOKEN")
      PROVE  StateInv' /\ AnswerLinearizable' /\ StaleBounded'
  <2>1. [code |-> "AUTH_INVALID_TOKEN", sub |-> NoSub] \in q.seen
    BY <1>1, <1>3 DEF Verdicts
  <2>2. StateInv'
    BY <1>1, <1>3, MoveKeeps DEF Refuse, Finish, Phase, Delivering
  <2> QED BY <1>3, <2>1, <2>2, SeenCodeSafe DEF Refuse
<1>4. ASSUME NEW row \in subs, row.path = q.path, row.token = q.token,
             ~row.active, Goto(q, "purge"), Reply(q, "SUB_INACTIVE", NoSub)
      PROVE  StateInv' /\ AnswerLinearizable' /\ StaleBounded'
  <2>1. [code |-> "SUB_INACTIVE", sub |-> NoSub] \in q.seen
    BY <1>1, <1>4 DEF Verdicts
  <2>2. StateInv'
    BY <1>1, <1>4, MoveKeeps DEF Goto, Phase, Delivering
  <2> QED BY <1>4, <2>1, <2>2, SeenCodeSafe
<1>5. ASSUME NEW row \in subs, row.path = q.path, row.token = q.token,
             row.active, Silent,
             inflight' = (inflight \ {q}) \cup
               {[q EXCEPT !.phase = "limit", !.sub = row.id]}
      PROVE  StateInv' /\ AnswerLinearizable' /\ StaleBounded'
  <2> DEFINE n == [q EXCEPT !.phase = "limit", !.sub = row.id]
  <2>1. /\ n.iso = q.iso /\ n.path = q.path /\ n.token = q.token
        /\ n.sub = row.id /\ n.start = q.start /\ n.seen = q.seen
        /\ n.phase = "limit"
    BY <1>1 DEF Request
  <2>2. \A r \in inflight' : r \in inflight \/ r = n
    BY <1>5
  <2>3. row \in Row /\ q.path \in Path /\ q.token \in Token
    BY <1>1 DEF TypeOK, Request
  <2> HIDE DEF n
  <2>4. lastHeld[<<row.id, q.path, q.token>>] = now
    <3>1. <<row.id, q.path, q.token>> \in Grant
      BY <2>3 DEF Row, Grant
    <3>2. Holds(subs, <<row.id, q.path, q.token>>)
      BY <1>5 DEF Holds
    <3> QED BY <1>1, <3>1, <3>2 DEF StateInv, HeldNow
  <2>5. [code |-> "OK", sub |-> row.id] \in q.seen
    BY <1>1, <1>5 DEF Verdicts
  <2>6. Entitled(n)'
    BY <1>1, <2>1, <2>3, <2>4, <2>5 DEF Entitled, StateInv, FlightBounded, Row
  <2>7. DeliveringEntitled'
    BY <1>1, <2>2, <2>6 DEF StateInv, DeliveringEntitled, Entitled
  <2>8. FlightBounded' /\ SeenCurrent' /\ ClaimedByMap' /\ PutsSpaced'
    BY <1>1, <2>1, <2>2
    DEF StateInv, FlightBounded, SeenCurrent, ClaimedByMap, PutsSpaced
  <2>9. ActiveAt(subs, q.path)
    BY <1>5 DEF ActiveAt
  <2>10. QuietIsDead'
    BY <1>1, <2>1, <2>2, <2>3, <2>9 DEF StateInv, QuietIsDead
  <2>11. (0 < now)' /\ HeldNow' /\ CacheBounded' /\ PurgedStaysEmpty'
    BY <1>1 DEF StateInv, HeldNow, CacheBounded, Bounded, PurgedStaysEmpty
  <2> QED BY <1>5, <2>7, <2>8, <2>10, <2>11, SilentSafe DEF StateInv
<1> QED BY <1>2, <1>3, <1>4, <1>5 DEF Lookup

(* A write that starts is an interval past the stamp, which is no earlier  *)
(* than the start of any write before it, and becomes the stamp.           *)
LEMMA StartSpaced ==
  ASSUME TypeOK, StateInv, NEW q \in inflight, StartWrite(q),
         subCacheWriteAt' = [subCacheWriteAt EXCEPT ![q.iso][q.path] = now]
  PROVE  ClaimedByMap' /\ PutsSpaced'
<1>1. /\ q.iso \in Isolate /\ q.path \in Path /\ now \in Nat
      /\ WriteInterval \in Nat
      /\ subCacheWriteAt \in [Isolate -> [Path -> Nat]]
      /\ writes \in [Isolate -> [Path -> Seq(Nat)]]
  BY DeliveryAssumption DEF TypeOK, Request
<1>2. ASSUME NEW i \in Isolate, NEW p \in Path, i # q.iso \/ p # q.path
      PROVE  /\ writes'[i][p] = writes[i][p]
             /\ subCacheWriteAt'[i][p] = subCacheWriteAt[i][p]
  BY <1>1, <1>2 DEF StartWrite
<1> DEFINE old == writes[q.iso][q.path]
           new == writes'[q.iso][q.path]
<1>3. /\ old \in Seq(Nat) /\ new = Append(old, now)
      /\ subCacheWriteAt'[q.iso][q.path] = now
  BY <1>1 DEF StartWrite
<1>4. \A m \in 1..Len(old) : old[m] \in Nat /\ now - old[m] >= WriteInterval
  <2> SUFFICES ASSUME NEW m \in 1..Len(old)
               PROVE  old[m] \in Nat /\ now - old[m] >= WriteInterval
    OBVIOUS
  <2>1. old[m] \in Nat
    BY <1>3
  <2>2. old[m] <= subCacheWriteAt[q.iso][q.path]
    BY <1>1 DEF StateInv, ClaimedByMap
  <2>3. /\ subCacheWriteAt[q.iso][q.path] \in Nat
        /\ now - subCacheWriteAt[q.iso][q.path] >= WriteInterval
    BY <1>1 DEF StartWrite
  <2> QED BY <1>1, <2>1, <2>2, <2>3
<1>5. \A m, n \in 1..Len(old) : m < n => old[n] - old[m] >= WriteInterval
  BY <1>1 DEF StateInv, PutsSpaced
<1>6. /\ Len(old) \in Nat /\ Len(new) = Len(old) + 1 /\ new[Len(new)] = now
      /\ \A m \in 1..Len(old) : new[m] = old[m]
  BY <1>1, <1>3
<1> HIDE DEF old, new
<1>7. \A m \in 1..Len(new) : new[m] <= now
  <2> SUFFICES ASSUME NEW m \in 1..Len(new) PROVE new[m] <= now
    OBVIOUS
  <2>1. CASE m = Len(new)
    BY <1>1, <1>6, <2>1
  <2>2. CASE m # Len(new)
    <3>1. m \in 1..Len(old)
      BY <1>6, <2>2
    <3>2. /\ new[m] = old[m] /\ old[m] \in Nat /\ now - old[m] >= WriteInterval
      BY <1>4, <1>6, <3>1
    <3> QED BY <1>1, <3>2
  <2> QED BY <2>1, <2>2
<1>8. \A m, n \in 1..Len(new) : m < n => new[n] - new[m] >= WriteInterval
  <2> SUFFICES ASSUME NEW m \in 1..Len(new), NEW n \in 1..Len(new), m < n
               PROVE  new[n] - new[m] >= WriteInterval
    OBVIOUS
  <2>1. m \in 1..Len(old)
    BY <1>6
  <2>2. CASE n = Len(new)
    BY <1>4, <1>6, <2>1, <2>2
  <2>3. CASE n # Len(new)
    <3>1. n \in 1..Len(old)
      BY <1>6, <2>3
    <3> QED BY <1>5, <1>6, <2>1, <3>1
  <2> QED BY <2>2, <2>3
<1>9. ClaimedByMap'
  <2> SUFFICES ASSUME NEW i \in Isolate, NEW p \in Path
               PROVE  \A m \in 1..Len(writes'[i][p]) :
                        writes'[i][p][m] <= subCacheWriteAt'[i][p]
    BY DEF ClaimedByMap
  <2>1. CASE i = q.iso /\ p = q.path
    BY <1>3, <1>7, <2>1 DEF new
  <2>2. CASE i # q.iso \/ p # q.path
    BY <1>2, <2>2 DEF StateInv, ClaimedByMap
  <2> QED BY <2>1, <2>2
<1>10. PutsSpaced'
  <2> SUFFICES ASSUME NEW i \in Isolate, NEW p \in Path
               PROVE  \A m, n \in 1..Len(writes'[i][p]) :
                        m < n => writes'[i][p][n] - writes'[i][p][m] >= WriteInterval
    BY DEF PutsSpaced
  <2>1. CASE i = q.iso /\ p = q.path
    BY <1>8, <2>1 DEF new
  <2>2. CASE i # q.iso \/ p # q.path
    BY <1>2, <2>2 DEF StateInv, PutsSpaced
  <2> QED BY <2>1, <2>2
<1> QED BY <1>9, <1>10

LEMMA RenderInv ==
  ASSUME IInv, NEW q \in inflight, Render(q)
  PROVE  StateInv' /\ AnswerLinearizable' /\ StaleBounded'
<1>1. /\ q.phase = "render" /\ TypeOK /\ StateInv /\ q \in Request
      /\ UNCHANGED <<subs, used, subcache, now, edits, lastHeld, purged>>
      /\ Entitled(q) /\ q.iso \in Isolate /\ q.path \in Path /\ now \in Nat
      /\ subCacheWriteAt \in [Isolate -> [Path -> Nat]]
  BY DEF IInv, StateInv, DeliveringEntitled, Delivering, Render, TypeOK, Request
<1>2. ASSUME StartWrite(q),
             subCacheWriteAt' = [subCacheWriteAt EXCEPT ![q.iso][q.path] = now]
      PROVE  StateInv' /\ AnswerLinearizable' /\ StaleBounded'
  <2> DEFINE n == [q EXCEPT !.phase = "put"]
  <2>1. /\ n.iso = q.iso /\ n.path = q.path /\ n.token = q.token
        /\ n.sub = q.sub /\ n.start = q.start /\ n.seen = q.seen
        /\ n.phase = "put"
    BY <1>1 DEF Request
  <2>2. \A r \in inflight' : r \in inflight \/ r = n
    BY <1>2 DEF StartWrite, Goto
  <2> HIDE DEF n
  <2>3. FlightBounded' /\ SeenCurrent' /\ DeliveringEntitled'
    BY <1>1, <2>1, <2>2
    DEF StateInv, FlightBounded, SeenCurrent, DeliveringEntitled, Entitled
  <2>4. QuietIsDead'
    BY <1>1, <2>1, <2>2 DEF StateInv, QuietIsDead, Delivering
  <2>5. ClaimedByMap' /\ PutsSpaced'
    BY <1>1, <1>2, StartSpaced DEF IInv
  <2>6. (0 < now)' /\ HeldNow' /\ CacheBounded' /\ PurgedStaysEmpty'
    BY <1>1 DEF StateInv, HeldNow, CacheBounded, Bounded, PurgedStaysEmpty
  <2>7. Silent
    BY <1>2 DEF StartWrite
  <2> QED BY <2>3, <2>4, <2>5, <2>6, <2>7, SilentSafe DEF StateInv
<1>3. ASSUME Finish(q), Reply(q, "OK", q.sub),
             UNCHANGED <<subCacheWriteAt, writes>>
      PROVE  StateInv' /\ AnswerLinearizable' /\ StaleBounded'
  <2>1. StateInv'
    BY <1>1, <1>3, MoveKeeps DEF Finish, Phase, Delivering
  <2> QED BY <1>1, <1>3, <2>1, SeenCodeSafe DEF Entitled
<1>4. ASSUME Refuse(q, "OVERALL_RENDER_FAILED"),
             UNCHANGED <<subCacheWriteAt, writes>>
      PROVE  StateInv' /\ AnswerLinearizable' /\ StaleBounded'
  <2>1. StateInv'
    BY <1>1, <1>4, MoveKeeps DEF Refuse, Finish, Phase, Delivering
  <2> QED BY <1>4, <2>1, OtherCodeSafe DEF Refuse
<1> QED BY <1>2, <1>3, <1>4 DEF Render

LEMMA WriteInv ==
  ASSUME IInv, NEW q \in inflight, WriteDeliveryCache(q)
  PROVE  StateInv' /\ AnswerLinearizable' /\ StaleBounded'
<1> DEFINE n == [path |-> q.path, tokenHash |-> HashToken(q.token),
                 active |-> TRUE, config |-> q.sub,
                 expireAt |-> now + SubCacheTTL]
<1>1. /\ q.phase = "put" /\ TypeOK /\ StateInv /\ q \in Request
      /\ inflight' = inflight \ {q}
      /\ UNCHANGED <<subs, used, subCacheWriteAt, now, edits, lastHeld, purged,
                     writes>>
      /\ Entitled(q) /\ q.path \in Path /\ q.token \in Token /\ now \in Nat
      /\ q.start \in Nat /\ 0 < q.start /\ now <= q.start + MaxFlight
      /\ Reply(q, "OK", q.sub)
  BY DEF IInv, StateInv, DeliveringEntitled, FlightBounded, Delivering,
         WriteDeliveryCache, Finish, TypeOK, Request
<1>2. /\ n.path = q.path /\ n.tokenHash = HashToken(q.token)
      /\ n.config = q.sub /\ n.expireAt = now + SubCacheTTL
  OBVIOUS
<1>3. \A e \in subcache' : e \in subcache \/ e = n
  BY DEF WriteDeliveryCache
<1> HIDE DEF n
<1>4. (0 < now)' /\ HeldNow'
  BY <1>1 DEF StateInv, HeldNow
<1>5. FlightBounded' /\ SeenCurrent' /\ DeliveringEntitled'
  BY <1>1
  DEF StateInv, FlightBounded, SeenCurrent, DeliveringEntitled, Entitled
<1>6. ClaimedByMap' /\ PutsSpaced' /\ QuietIsDead'
  BY <1>1 DEF StateInv, ClaimedByMap, PutsSpaced, QuietIsDead
<1>7. \A t \in Token : n.tokenHash = HashToken(t) => Bounded(n, t)
  <2>1. ASSUME NEW t \in Token, HashToken(q.token) = HashToken(t)
        PROVE  t = q.token
    BY <2>1 DEF HashToken
  <2>2. lastHeld[<<q.sub, q.path, q.token>>] \in Nat
    BY <1>1 DEF TypeOK, Grant, Entitled
  <2>3. Bounded(n, q.token)
    BY <1>1, <1>2, <2>2, DeliveryAssumption DEF Bounded, Entitled
  <2> QED BY <1>2, <2>1, <2>3
<1>8. CacheBounded'
  BY <1>1, <1>3, <1>7 DEF StateInv, CacheBounded, Bounded
<1>9. PurgedStaysEmpty'
  <2>1. purged[q.path] # "quiet"
    BY <1>1 DEF StateInv, QuietIsDead, Delivering
  <2> QED BY <1>1, <1>2, <1>3, <2>1 DEF StateInv, PurgedStaysEmpty
<1>10. AnswerLinearizable' /\ StaleBounded'
  BY <1>1, SeenCodeSafe DEF Entitled
<1> QED BY <1>4, <1>5, <1>6, <1>8, <1>9, <1>10 DEF StateInv

LEMMA StaleInv ==
  ASSUME IInv, NEW q \in inflight, ServeStaleDelivery(q)
  PROVE  StateInv' /\ AnswerLinearizable' /\ StaleBounded'
<1>1. /\ TypeOK /\ StateInv /\ q \in Request /\ q.token \in Token
      /\ inflight' = inflight \ {q} /\ q.phase = "stale" /\ now \in Nat
      /\ UNCHANGED <<subs, used, subcache, subCacheWriteAt, now, edits,
                     lastHeld, purged, writes>>
  BY DEF IInv, ServeStaleDelivery, Finish, TypeOK, Request
<1>2. StateInv'
  BY <1>1, MoveKeeps DEF Phase, Delivering
<1>3. ASSUME NEW e \in subcache, Usable(e, q), Reply(q, "STALE", e.config)
      PROVE  AnswerLinearizable' /\ StaleBounded'
  <2>1. Bounded(e, q.token) /\ e.path = q.path /\ now < e.expireAt
    BY <1>1, <1>3 DEF StateInv, CacheBounded, Usable
  <2>2. e.config # NoSub /\ e.expireAt \in Nat /\ q.path \in Path
    BY <1>1, <2>1, DeliveryAssumption DEF Bounded, TypeOK, Entry, Request
  <2>3. lastHeld[<<e.config, q.path, q.token>>] \in Nat
    BY <1>1, <2>1, <2>2 DEF TypeOK, Grant, Bounded
  <2>4. now < lastHeld[<<e.config, q.path, q.token>>] + SubCacheTTL + MaxFlight
    BY <1>1, <2>1, <2>2, <2>3, DeliveryAssumption DEF Bounded
  <2> QED BY <1>1, <1>3, <2>1, <2>2, <2>4
          DEF Reply, AnswerLinearizable, StaleBounded, Bounded
<1>4. ASSUME Reply(q, "DB_UNAVAILABLE", NoSub)
      PROVE  AnswerLinearizable' /\ StaleBounded'
  BY <1>4, OtherCodeSafe
<1> QED BY <1>2, <1>3, <1>4 DEF ServeStaleDelivery

LEMMA PurgeInv ==
  ASSUME IInv, NEW q \in inflight, Purge(q)
  PROVE  StateInv' /\ AnswerLinearizable' /\ StaleBounded'
<1>1. /\ TypeOK /\ StateInv /\ q \in Request /\ q.path \in Path
      /\ inflight' = inflight \ {q} /\ Silent
      /\ subcache' = {e \in subcache : e.path # q.path}
      /\ purged' = [purged EXCEPT ![q.path] =
           IF ActiveAt(subs, q.path) THEN @
           ELSE IF \E d \in inflight : d.path = q.path /\ d.phase \in Delivering
                THEN "racing" ELSE "quiet"]
      /\ purged \in [Path -> {"no", "quiet", "racing"}]
      /\ UNCHANGED <<subs, used, subCacheWriteAt, now, edits, lastHeld, writes>>
  BY DEF IInv, Purge, Finish, TypeOK, Request
<1>2. (0 < now)' /\ HeldNow' /\ FlightBounded' /\ SeenCurrent'
  BY <1>1 DEF StateInv, HeldNow, FlightBounded, SeenCurrent
<1>3. DeliveringEntitled' /\ ClaimedByMap' /\ PutsSpaced'
  BY <1>1
  DEF StateInv, DeliveringEntitled, Entitled, ClaimedByMap, PutsSpaced
<1>4. CacheBounded'
  BY <1>1 DEF StateInv, CacheBounded, Bounded
<1>5. ASSUME NEW p \in Path, purged'[p] = "quiet"
      PROVE  /\ ~ActiveAt(subs, p)
             /\ \A r \in inflight : r.path = p => r.phase \notin Delivering
             /\ \A e \in subcache' : e.path # p
  <2>1. CASE p = q.path
    <3>1. CASE ActiveAt(subs, p)
      <4>1. purged[p] = "quiet"
        BY <1>1, <1>5, <2>1, <3>1
      <4> QED BY <3>1, <4>1, <1>1 DEF StateInv, QuietIsDead
    <3>2. CASE ~ActiveAt(subs, p)
      BY <1>1, <1>5, <2>1, <3>2
    <3> QED BY <3>1, <3>2
  <2>2. CASE p # q.path
    <3>1. purged[p] = "quiet"
      BY <1>1, <1>5, <2>2
    <3> QED BY <1>1, <3>1 DEF StateInv, QuietIsDead, PurgedStaysEmpty
  <2> QED BY <2>1, <2>2
<1>6. QuietIsDead' /\ PurgedStaysEmpty'
  BY <1>1, <1>5 DEF QuietIsDead, PurgedStaysEmpty
<1> QED BY <1>1, <1>2, <1>3, <1>4, <1>6, SilentSafe DEF StateInv

(* Every step of a request keeps the invariant.                            *)
LEMMA ServeInv ==
  ASSUME IInv, NEW q \in inflight, Serve(q)
  PROVE  IInv'
<1>1. TypeOK /\ StateInv
  BY DEF IInv
<1>2. TypeOK'
  BY <1>1, ServeType
<1>3. CASE CheckRate(q)
  <2>1. StateInv'
    BY <1>1, <1>3, MoveKeeps
    DEF CheckRate, Refuse, Finish, Goto, Phase, Delivering
  <2> QED BY <1>2, <1>3, <2>1, SilentSafe, OtherCodeSafe
          DEF CheckRate, Refuse, IInv
<1>4. CASE ReadInstances(q)
  <2>1. StateInv'
    BY <1>1, <1>4, MoveKeeps
    DEF ReadInstances, Refuse, Finish, Goto, Phase, Delivering
  <2> QED BY <1>2, <1>4, <2>1, SilentSafe, OtherCodeSafe
          DEF ReadInstances, Refuse, IInv
<1>5. CASE D1Fails(q)
  <2>1. StateInv'
    BY <1>1, <1>5, MoveKeeps DEF D1Fails, Goto, Phase, Delivering
  <2> QED BY <1>2, <1>5, <2>1, SilentSafe DEF D1Fails, IInv
<1>6. CASE StaleLookupFails(q)
  <2>1. StateInv'
    BY <1>1, <1>6, MoveKeeps DEF StaleLookupFails, Refuse, Finish, Phase, Delivering
  <2> QED BY <1>2, <1>6, <2>1, OtherCodeSafe DEF StaleLookupFails, Refuse, IInv
<1>7. CASE PurgeFails(q)
  <2>1. StateInv'
    BY <1>1, <1>7, MoveKeeps DEF PurgeFails, Finish, Phase, Delivering
  <2> QED BY <1>2, <1>7, <2>1, SilentSafe DEF PurgeFails, IInv
<1>8. CASE Lookup(q)
  BY <1>2, <1>8, LookupInv DEF IInv
<1>9. CASE Render(q)
  BY <1>2, <1>9, RenderInv DEF IInv
<1>10. CASE WriteDeliveryCache(q)
  BY <1>2, <1>10, WriteInv DEF IInv
<1>11. CASE ServeStaleDelivery(q)
  BY <1>2, <1>11, StaleInv DEF IInv
<1>12. CASE Purge(q)
  BY <1>2, <1>12, PurgeInv DEF IInv
<1> QED
  BY <1>3, <1>4, <1>5, <1>6, <1>7, <1>8, <1>9, <1>10, <1>11, <1>12 DEF Serve

(* An edit only moves the stamps of grants forward.                        *)
LEMMA ObserveInv ==
  ASSUME IInv, TypeOK', Observe
  PROVE  IInv'
<1>1. /\ StateInv /\ TypeOK /\ now \in Nat
      /\ UNCHANGED <<subcache, subCacheWriteAt, now, writes>>
      /\ inflight' = {[q EXCEPT !.seen = @ \cup Verdicts(subs', q.path, q.token)] :
                        q \in inflight}
      /\ Silent
  BY DEF IInv, Observe, TypeOK
<1>2. ASSUME NEW r \in inflight'
      PROVE  \E q \in inflight :
               /\ r.iso = q.iso /\ r.path = q.path /\ r.token = q.token
               /\ r.sub = q.sub /\ r.start = q.start /\ r.phase = q.phase
               /\ r.seen = q.seen \cup Verdicts(subs', q.path, q.token)
               /\ r = [q EXCEPT !.seen = @ \cup Verdicts(subs', q.path, q.token)]
  <2>1. PICK q \in inflight :
          r = [q EXCEPT !.seen = @ \cup Verdicts(subs', q.path, q.token)]
    BY <1>1
  <2>2. q \in Request
    BY <1>1 DEF TypeOK
  <2> QED BY <2>1, <2>2 DEF Request
<1>3. HeldNow'
  BY <1>1 DEF Observe, HeldNow, IInv, StateInv
<1>4. \A g \in Grant : /\ lastHeld[g] \in Nat /\ lastHeld'[g] \in Nat
                      /\ lastHeld[g] <= lastHeld'[g]
  <2> SUFFICES ASSUME NEW g \in Grant
               PROVE  /\ lastHeld[g] \in Nat /\ lastHeld'[g] \in Nat
                      /\ lastHeld[g] <= lastHeld'[g]
    OBVIOUS
  <2>1. lastHeld[g] \in Nat /\ lastHeld[g] <= now
    BY <1>1 DEF TypeOK, StateInv, HeldNow
  <2>2. lastHeld'[g] = now \/ lastHeld'[g] = lastHeld[g]
    BY DEF Observe
  <2> QED BY <1>1, <2>1, <2>2
<1>5. FlightBounded' /\ SeenCurrent'
  BY <1>1, <1>2 DEF StateInv, FlightBounded, SeenCurrent
<1>6. DeliveringEntitled'
  <2> SUFFICES ASSUME NEW r \in inflight', r.phase \in Delivering
               PROVE  Entitled(r)'
    BY DEF DeliveringEntitled
  <2>1. PICK q \in inflight :
          /\ r.path = q.path /\ r.token = q.token /\ r.sub = q.sub
          /\ r.start = q.start /\ r.phase = q.phase
          /\ r.seen = q.seen \cup Verdicts(subs', q.path, q.token)
    BY <1>2
  <2>2. Entitled(q)
    BY <1>1, <2>1 DEF StateInv, DeliveringEntitled
  <2>3. <<q.sub, q.path, q.token>> \in Grant /\ q.start \in Nat
    BY <1>1, <2>2 DEF TypeOK, Request, Grant, Entitled
  <2> QED BY <1>4, <2>1, <2>2, <2>3 DEF Entitled
<1>7. CacheBounded'
  <2> SUFFICES ASSUME NEW e \in subcache, NEW t \in Token,
                      e.tokenHash = HashToken(t)
               PROVE  Bounded(e, t)'
    BY <1>1 DEF CacheBounded
  <2>1. Bounded(e, t)
    BY <1>1 DEF StateInv, CacheBounded
  <2>2. <<e.config, e.path, t>> \in Grant /\ e.expireAt \in Nat
    BY <1>1, <2>1 DEF TypeOK, Entry, Grant, Bounded
  <2> QED BY <1>4, <2>1, <2>2, DeliveryAssumption DEF Bounded
<1>8. ClaimedByMap' /\ PutsSpaced'
  BY <1>1 DEF StateInv, ClaimedByMap, PutsSpaced
<1>9. ASSUME NEW p \in Path, purged'[p] = "quiet"
      PROVE  purged[p] = "quiet" /\ ~ActiveAt(subs', p)
  BY <1>9 DEF Observe
<1>10. QuietIsDead' /\ PurgedStaysEmpty'
  BY <1>1, <1>2, <1>9 DEF StateInv, QuietIsDead, PurgedStaysEmpty
<1>11. AnswerLinearizable' /\ StaleBounded'
  BY <1>1, SilentSafe
<1> QED BY <1>1, <1>3, <1>5, <1>6, <1>7, <1>8, <1>10, <1>11
        DEF IInv, StateInv

LEMMA AdminInv == ASSUME IInv, Admin PROVE IInv'
<1>1. TypeOK'
  BY AdminType DEF IInv
<1>2. Observe
  BY DEF Admin, CreateSubscription, UpdateSubscription, DeleteSubscription
<1> QED BY <1>1, <1>2, ObserveInv

LEMMA ReceiveInv ==
  ASSUME IInv, TypeOK', NEW id \in Req, NEW i \in Isolate, NEW p \in Path,
         NEW t \in Token, Receive(id, i, p, t)
  PROVE  IInv'
<1> DEFINE n == [id |-> id, iso |-> i, path |-> p, token |-> t,
                 phase |-> "lookup", sub |-> NoSub, start |-> now,
                 seen |-> Verdicts(subs, p, t)]
<1>1. /\ n.path = p /\ n.token = t /\ n.phase = "lookup" /\ n.start = now
      /\ n.seen = Verdicts(subs, p, t)
  OBVIOUS
<1>2. /\ inflight' = inflight \cup {n} /\ Silent /\ StateInv /\ now \in Nat
      /\ UNCHANGED <<subs, used, subcache, subCacheWriteAt, now, edits,
                     lastHeld, purged, writes>>
  BY DEF Receive, IInv, TypeOK
<1> HIDE DEF n
<1>3. (0 < now)' /\ HeldNow' /\ CacheBounded' /\ PurgedStaysEmpty'
  BY <1>2 DEF StateInv, HeldNow, CacheBounded, Bounded, PurgedStaysEmpty
<1>4. FlightBounded' /\ SeenCurrent'
  BY <1>1, <1>2, DeliveryAssumption DEF StateInv, FlightBounded, SeenCurrent
<1>5. DeliveringEntitled' /\ ClaimedByMap' /\ PutsSpaced' /\ QuietIsDead'
  BY <1>1, <1>2
  DEF StateInv, DeliveringEntitled, Entitled, ClaimedByMap, PutsSpaced,
      QuietIsDead, Delivering
<1> QED BY <1>2, <1>3, <1>4, <1>5, SilentSafe DEF IInv, StateInv

LEMMA TickInv == ASSUME IInv, TypeOK', Tick PROVE IInv'
<1>1. /\ StateInv /\ TypeOK /\ now \in Nat /\ now' = now + 1 /\ Silent
      /\ \A q \in inflight : now < q.start + MaxFlight
      /\ subcache' \subseteq subcache /\ inflight \subseteq Request
      /\ UNCHANGED <<subs, used, subCacheWriteAt, inflight, edits, purged,
                     writes>>
  BY DEF IInv, Tick, TypeOK
<1>2. \A g \in Grant : /\ lastHeld[g] \in Nat /\ lastHeld'[g] \in Nat
                      /\ lastHeld[g] <= lastHeld'[g] /\ lastHeld'[g] <= now'
  <2> SUFFICES ASSUME NEW g \in Grant
               PROVE  /\ lastHeld[g] \in Nat /\ lastHeld'[g] \in Nat
                      /\ lastHeld[g] <= lastHeld'[g] /\ lastHeld'[g] <= now'
    OBVIOUS
  <2>1. lastHeld[g] \in Nat /\ lastHeld[g] <= now
    BY <1>1 DEF TypeOK, StateInv, HeldNow
  <2>2. lastHeld'[g] = IF Holds(subs, g) THEN now' ELSE lastHeld[g]
    BY DEF Tick
  <2> QED BY <1>1, <2>1, <2>2
<1>3. (0 < now)' /\ HeldNow'
  <2>1. \A g \in Grant : Holds(subs', g) => lastHeld'[g] = now'
    BY <1>1 DEF Tick, Holds
  <2>2. 0 < now'
    BY <1>1 DEF StateInv
  <2> QED BY <1>2, <2>1, <2>2 DEF HeldNow
<1>4. FlightBounded' /\ SeenCurrent'
  <2>1. \A q \in inflight : q.start \in Nat
    BY <1>1 DEF Request
  <2> QED BY <1>1, <2>1, DeliveryAssumption
          DEF StateInv, FlightBounded, SeenCurrent
<1>5. DeliveringEntitled'
  <2> SUFFICES ASSUME NEW q \in inflight, q.phase \in Delivering
               PROVE  Entitled(q)'
    BY <1>1 DEF DeliveringEntitled
  <2>1. Entitled(q)
    BY <1>1 DEF StateInv, DeliveringEntitled
  <2>2. <<q.sub, q.path, q.token>> \in Grant /\ q.start \in Nat
    BY <1>1, <2>1 DEF Request, Grant, Entitled
  <2> QED BY <1>2, <2>1, <2>2 DEF Entitled
<1>6. CacheBounded'
  <2> SUFFICES ASSUME NEW e \in subcache', NEW t \in Token,
                      e.tokenHash = HashToken(t)
               PROVE  Bounded(e, t)'
    BY DEF CacheBounded
  <2>1. Bounded(e, t) /\ e \in subcache
    BY <1>1 DEF StateInv, CacheBounded
  <2>2. <<e.config, e.path, t>> \in Grant /\ e.expireAt \in Nat
    BY <1>1, <2>1 DEF TypeOK, Entry, Grant, Bounded
  <2> QED BY <1>2, <2>1, <2>2, DeliveryAssumption DEF Bounded
<1>7. ClaimedByMap' /\ PutsSpaced' /\ QuietIsDead' /\ PurgedStaysEmpty'
  BY <1>1
  DEF StateInv, ClaimedByMap, PutsSpaced, QuietIsDead, PurgedStaysEmpty
<1> QED BY <1>1, <1>3, <1>4, <1>5, <1>6, <1>7, SilentSafe DEF IInv, StateInv

LEMMA RestartInv ==
  ASSUME IInv, TypeOK', NEW i \in Isolate, Restart(i)
  PROVE  IInv'
<1>1. /\ StateInv /\ TypeOK /\ Silent
      /\ inflight' \subseteq inflight /\ \A q \in inflight' : q.iso # i
      /\ inflight \subseteq Request
      /\ subCacheWriteAt \in [Isolate -> [Path -> Nat]]
      /\ subCacheWriteAt' = [subCacheWriteAt EXCEPT ![i] = [p \in Path |-> 0]]
      /\ writes \in [Isolate -> [Path -> Seq(Nat)]]
      /\ writes' = [writes EXCEPT ![i] = [p \in Path |-> << >>]]
      /\ UNCHANGED <<subs, used, subcache, now, edits, lastHeld, purged>>
  BY DEF IInv, Restart, TypeOK
<1>2. (0 < now)' /\ HeldNow' /\ CacheBounded' /\ PurgedStaysEmpty'
  BY <1>1 DEF StateInv, HeldNow, CacheBounded, Bounded, PurgedStaysEmpty
<1>3. FlightBounded' /\ SeenCurrent' /\ DeliveringEntitled'
  BY <1>1
  DEF StateInv, FlightBounded, SeenCurrent, DeliveringEntitled, Entitled
<1>4. QuietIsDead'
  BY <1>1 DEF StateInv, QuietIsDead
<1>5. ClaimedByMap' /\ PutsSpaced'
  <2>1. ASSUME NEW j \in Isolate, NEW p \in Path
        PROVE  \/ 1..Len(writes'[j][p]) = {}
               \/ /\ writes'[j][p] = writes[j][p]
                  /\ subCacheWriteAt'[j][p] = subCacheWriteAt[j][p]
    BY <1>1
  <2> QED BY <1>1, <2>1 DEF StateInv, ClaimedByMap, PutsSpaced
<1> QED BY <1>1, <1>2, <1>3, <1>4, <1>5, SilentSafe DEF IInv, StateInv

(* Every step keeps the invariant.                                         *)
LEMMA NextInv == ASSUME IInv, [Next]_vars PROVE IInv'
<1>1. TypeOK'
  BY NextType DEF IInv
<1>2. ASSUME NEW id \in Req, NEW i \in Isolate, NEW p \in Path,
             NEW t \in Token, Receive(id, i, p, t)
      PROVE  IInv'
  BY <1>1, <1>2, ReceiveInv
<1>4. CASE Tick
  BY <1>1, <1>4, TickInv
<1>5. ASSUME NEW i \in Isolate, Restart(i)
      PROVE  IInv'
  BY <1>1, <1>5, RestartInv
<1>6. CASE UNCHANGED vars
  <2>1. StateInv'
    BY <1>6
    DEF vars, IInv, StateInv, HeldNow, FlightBounded, SeenCurrent,
        DeliveringEntitled, Entitled, CacheBounded, Bounded, ClaimedByMap,
        QuietIsDead, PutsSpaced, PurgedStaysEmpty
  <2>2. AnswerLinearizable' /\ StaleBounded'
    BY <1>6 DEF vars, IInv, AnswerLinearizable, StaleBounded
  <2> QED BY <1>1, <2>1, <2>2 DEF IInv
<1> QED BY <1>2, <1>4, <1>5, <1>6, ServeInv, AdminInv DEF Next

LEMMA Inductive == Spec => []IInv
<1>1. Init => IInv
  BY InitInv
<1>2. IInv /\ [Next]_vars => IInv'
  BY NextInv
<1> QED BY <1>1, <1>2, PTL DEF Spec

-----------------------------------------------------------------------------
(* A 404, 401, 403 or fresh 200 is what D1 would have said at some moment  *)
(* of the request (subscriptions.ts:151-181).                              *)
THEOREM Linearizable == Spec => []AnswerLinearizable
<1>1. IInv => AnswerLinearizable
  BY DEF IInv
<1> QED BY <1>1, Inductive, PTL

(* Whatever is served stale was granted to this path and token less than   *)
(* the TTL and one request's life ago (subscriptions.ts:61-94).            *)
THEOREM StaleIsBounded == Spec => []StaleBounded
<1>1. IInv => StaleBounded
  BY DEF IInv
<1> QED BY <1>1, Inductive, PTL

(* Any two writes an isolate starts for a path in one life start at least  *)
(* an interval apart, whether they are in flight or have landed or failed  *)
(* (subscriptions.ts:47-53, 64-66).                                        *)
THEOREM ThrottleHolds == Spec => []PutsSpaced
<1>1. IInv => PutsSpaced
  BY DEF IInv, StateInv
<1> QED BY <1>1, Inductive, PTL

(* The 403 path's delete is final once earlier deliveries have drained     *)
(* (subscriptions.ts:175-181).                                             *)
THEOREM PurgeIsFinal == Spec => []PurgedStaysEmpty
<1>1. IInv => PurgedStaysEmpty
  BY DEF IInv, StateInv
<1> QED BY <1>1, Inductive, PTL

-----------------------------------------------------------------------------
(* The refinement.  A client's view of a request leaves out its phase, its *)
(* isolate and the observers; for two requests not to be seen as one, their*)
(* ids have to differ, and for a ruling to be the only one, the table has  *)
(* to be keyed and an unjudged request to be entitled to nothing.          *)
View(q) == [id |-> q.id, path |-> q.path, token |-> q.token, sub |-> q.sub]

IdsDistinct == \A q, r \in inflight : q.id = r.id => q = r

Unjudged == \A q \in inflight : q.phase = "lookup" => q.sub = NoSub

TableKeyed == Promise!Table(subs) /\ \A row \in subs : row.id \in used

RefInv == IdsDistinct /\ Unjudged /\ TableKeyed

LEMMA InitRef == Init => RefInv
BY DEF Init, RefInv, IdsDistinct, Unjudged, TableKeyed, Promise!Table

(* A request moves on: at most one record takes the place of another, under*)
(* its id.                                                                 *)
LEMMA MoveRef ==
  ASSUME RefInv, NEW q \in inflight, NEW n,
         n.id = q.id, n.phase # "lookup" \/ n.sub = NoSub,
         inflight' \subseteq (inflight \ {q}) \cup {n},
         UNCHANGED <<subs, used>>
  PROVE  RefInv'
<1>1. \A r \in inflight' : (r \in inflight /\ r # q) \/ r = n
  OBVIOUS
<1>2. IdsDistinct' /\ Unjudged'
  BY <1>1 DEF RefInv, IdsDistinct, Unjudged
<1>3. TableKeyed'
  BY DEF RefInv, TableKeyed, Promise!Table
<1> QED BY <1>2, <1>3 DEF RefInv

LEMMA ServeRef ==
  ASSUME TypeOK, RefInv, NEW q \in inflight, Serve(q)
  PROVE  RefInv'
<1>1. q \in Request
  BY DEF TypeOK
<1>2. CASE Finish(q) /\ UNCHANGED <<subs, used>>
  <2>1. inflight' \subseteq (inflight \ {q}) \cup {q}
    BY <1>2 DEF Finish
  <2>2. q.phase # "lookup" \/ q.sub = NoSub
    BY DEF RefInv, Unjudged
  <2> QED BY <1>2, <2>1, <2>2, MoveRef
<1>3. ASSUME NEW ph \in Phase \ {"lookup"}, Goto(q, ph), UNCHANGED <<subs, used>>
      PROVE  RefInv'
  <2> DEFINE n == [q EXCEPT !.phase = ph]
  <2>1. n.id = q.id /\ n.phase = ph
    BY <1>1 DEF Request
  <2>2. inflight' \subseteq (inflight \ {q}) \cup {n}
    BY <1>3 DEF Goto
  <2> HIDE DEF n
  <2> QED BY <1>3, <2>1, <2>2, MoveRef
<1>4. ASSUME NEW s, UNCHANGED <<subs, used>>,
             inflight' = (inflight \ {q}) \cup
               {[q EXCEPT !.phase = "limit", !.sub = s]}
      PROVE  RefInv'
  <2> DEFINE n == [q EXCEPT !.phase = "limit", !.sub = s]
  <2>1. n.id = q.id /\ n.phase = "limit"
    BY <1>1 DEF Request
  <2>2. inflight' \subseteq (inflight \ {q}) \cup {n}
    BY <1>4
  <2> HIDE DEF n
  <2> QED BY <1>4, <2>1, <2>2, MoveRef
<1>5. {"instances", "render", "put", "stale", "purge"} \subseteq Phase \ {"lookup"}
  BY DEF Phase
<1>6. CASE Lookup(q)
  BY <1>2, <1>3, <1>4, <1>5, <1>6 DEF Lookup, Refuse
<1>7. CASE Render(q)
  BY <1>2, <1>3, <1>5, <1>7 DEF Render, StartWrite, Refuse
<1>8. CASE CheckRate(q) \/ ReadInstances(q) \/ D1Fails(q)
  BY <1>2, <1>3, <1>5, <1>8 DEF CheckRate, ReadInstances, D1Fails, Refuse
<1>9. CASE \/ WriteDeliveryCache(q) \/ ServeStaleDelivery(q)
           \/ StaleLookupFails(q) \/ Purge(q) \/ PurgeFails(q)
  BY <1>2, <1>9
  DEF WriteDeliveryCache, ServeStaleDelivery, StaleLookupFails, Purge,
      PurgeFails, Refuse
<1> QED BY <1>6, <1>7, <1>8, <1>9 DEF Serve

(* An edit keeps every request under its id and changes the table by one   *)
(* row, which the UNIQUE columns and fresh ids keep apart.                 *)
LEMMA AdminRef == ASSUME TypeOK, RefInv, Admin PROVE RefInv'
<1>1. ASSUME NEW r \in inflight'
      PROVE  \E q \in inflight :
               /\ r.id = q.id /\ r.phase = q.phase /\ r.sub = q.sub
               /\ r = [q EXCEPT !.seen = @ \cup Verdicts(subs', q.path, q.token)]
  <2>1. PICK q \in inflight :
          r = [q EXCEPT !.seen = @ \cup Verdicts(subs', q.path, q.token)]
    BY DEF Admin, CreateSubscription, UpdateSubscription, DeleteSubscription,
           Observe
  <2>2. q \in Request
    BY DEF TypeOK
  <2> QED BY <2>1, <2>2 DEF Request
<1>2. IdsDistinct' /\ Unjudged'
  <2>1. ASSUME NEW r1 \in inflight', NEW r2 \in inflight', r1.id = r2.id
        PROVE  r1 = r2
    <3>1. PICK q1 \in inflight :
            /\ r1.id = q1.id
            /\ r1 = [q1 EXCEPT !.seen = @ \cup Verdicts(subs', q1.path, q1.token)]
      BY <1>1
    <3>2. PICK q2 \in inflight :
            /\ r2.id = q2.id
            /\ r2 = [q2 EXCEPT !.seen = @ \cup Verdicts(subs', q2.path, q2.token)]
      BY <1>1
    <3>3. q1 = q2
      BY <2>1, <3>1, <3>2 DEF RefInv, IdsDistinct
    <3> QED BY <3>1, <3>2, <3>3
  <2>2. Unjudged'
    BY <1>1 DEF RefInv, Unjudged
  <2> QED BY <2>1, <2>2 DEF IdsDistinct
<1>3. ASSUME NEW s \in Sub, NEW p \in Path, NEW t \in Token,
             NEW a \in BOOLEAN, CreateSubscription(s, p, t, a)
      PROVE  TableKeyed'
  BY <1>3 DEF RefInv, TableKeyed, Promise!Table, CreateSubscription, Taken
<1>4. ASSUME NEW row \in subs, NEW p \in Path, NEW t \in Token,
             NEW a \in BOOLEAN, UpdateSubscription(row, p, t, a)
      PROVE  TableKeyed'
  BY <1>4 DEF RefInv, TableKeyed, Promise!Table, UpdateSubscription, Taken
<1>5. ASSUME NEW row \in subs, DeleteSubscription(row)
      PROVE  TableKeyed'
  BY <1>5 DEF RefInv, TableKeyed, Promise!Table, DeleteSubscription
<1> QED BY <1>2, <1>3, <1>4, <1>5 DEF Admin, RefInv

LEMMA NextRef == ASSUME TypeOK, RefInv, [Next]_vars PROVE RefInv'
<1>1. ASSUME NEW id \in Req, NEW i \in Isolate, NEW p \in Path,
             NEW t \in Token, Receive(id, i, p, t)
      PROVE  RefInv'
  BY <1>1 DEF RefInv, IdsDistinct, Unjudged, TableKeyed, Promise!Table, Receive
<1>2. CASE Tick \/ UNCHANGED vars
  BY <1>2 DEF RefInv, IdsDistinct, Unjudged, TableKeyed, Promise!Table, Tick, vars
<1>3. ASSUME NEW i \in Isolate, Restart(i)
      PROVE  RefInv'
  BY <1>3 DEF RefInv, IdsDistinct, Unjudged, TableKeyed, Promise!Table, Restart
<1> QED BY <1>1, <1>2, <1>3, ServeRef, AdminRef DEF Next

(* What the steps of a request are to a client.                            *)
LEMMA Views ==
  ASSUME RefInv, NEW q \in inflight, q.phase # "purge"
  PROVE  /\ View(q) \in Asked
         /\ Finish(q) => Asked' = Asked \ {View(q)}
<1>1. Asked = {View(r) : r \in {x \in inflight : x.phase # "purge"}}
  BY DEF Asked, View
<1>2. Asked' = {View(r) : r \in {x \in inflight' : x.phase # "purge"}}
  BY DEF Asked, View
<1>3. View(q) \in Asked
  BY <1>1
<1>4. \A r \in inflight : View(r) = View(q) => r = q
  BY DEF RefInv, IdsDistinct, View
<1>5. ASSUME inflight' = inflight \ {q}
      PROVE  Asked' = Asked \ {View(q)}
  <2>1. ASSUME NEW v \in Asked' PROVE v \in Asked \ {View(q)}
    BY <1>1, <1>2, <1>4, <1>5, <2>1
  <2>2. ASSUME NEW v \in Asked \ {View(q)} PROVE v \in Asked'
    BY <1>1, <1>2, <1>5, <2>2
  <2> QED BY <2>1, <2>2
<1> QED BY <1>3, <1>5 DEF Finish

(* A record that replaces another without leaving for the purge.           *)
LEMMA ViewsReplaced ==
  ASSUME RefInv, NEW q \in inflight, q.phase # "purge", NEW n, n.phase # "purge",
         inflight' = (inflight \ {q}) \cup {n}
  PROVE  Asked' = (Asked \ {View(q)}) \cup {View(n)}
<1>1. Asked = {View(r) : r \in {x \in inflight : x.phase # "purge"}}
  BY DEF Asked, View
<1>2. Asked' = {View(r) : r \in {x \in inflight' : x.phase # "purge"}}
  BY DEF Asked, View
<1>3. \A r \in inflight : View(r) = View(q) => r = q
  BY DEF RefInv, IdsDistinct, View
<1>4. ASSUME NEW v \in Asked' PROVE v \in (Asked \ {View(q)}) \cup {View(n)}
  BY <1>1, <1>2, <1>3, <1>4
<1>5. ASSUME NEW v \in (Asked \ {View(q)}) \cup {View(n)} PROVE v \in Asked'
  BY <1>1, <1>2, <1>5
<1> QED BY <1>4, <1>5

(* A request that leaves for the purge was answered: it is no longer asked. *)
LEMMA ViewsPurged ==
  ASSUME RefInv, NEW q \in inflight, q \in Request, q.phase # "purge",
         Goto(q, "purge")
  PROVE  Asked' = Asked \ {View(q)}
<1>1. Asked = {View(r) : r \in {x \in inflight : x.phase # "purge"}}
  BY DEF Asked, View
<1>2. Asked' = {View(r) : r \in {x \in inflight' : x.phase # "purge"}}
  BY DEF Asked, View
<1>3. \A r \in inflight : View(r) = View(q) => r = q
  BY DEF RefInv, IdsDistinct, View
<1> DEFINE n == [q EXCEPT !.phase = "purge"]
<1>4. n.phase = "purge" /\ inflight' = (inflight \ {q}) \cup {n}
  BY DEF Goto, Request
<1> HIDE DEF n
<1>5. ASSUME NEW v \in Asked' PROVE v \in Asked \ {View(q)}
  BY <1>1, <1>2, <1>3, <1>4, <1>5
<1>6. ASSUME NEW v \in Asked \ {View(q)} PROVE v \in Asked'
  BY <1>1, <1>2, <1>4, <1>6
<1> QED BY <1>5, <1>6

LEMMA Replies ==
  ASSUME NEW q, NEW c, NEW s, Reply(q, c, s)
  PROVE  Said' = {[code |-> c, path |-> View(q).path, token |-> View(q).token,
                   sub |-> s]}
BY DEF Said, Reply, View

LEMMA Silences == ASSUME Silent PROVE Said' = {}
BY DEF Silent, Said

(* A response that ends a request is the abstract answer to it.            *)
LEMMA Answers ==
  ASSUME RefInv, NEW q \in inflight, q.phase # "purge", NEW c, NEW s,
         Finish(q), Reply(q, c, s), UNCHANGED <<subs, now, lastHeld>>
  PROVE  Promise!Answered(View(q), c, s)
BY Views, Replies DEF Promise!Answered

LEMMA Silenced ==
  ASSUME Silent, Asked' \subseteq Asked, UNCHANGED <<subs, now, lastHeld>>
  PROVE  Promise!Next
BY Silences DEF Promise!Next, Promise!Silence

(* A request that only changes its phase is as it was.                     *)
LEMMA SilentGoto ==
  ASSUME TypeOK, RefInv, NEW q \in inflight, q.phase # "purge",
         NEW ph \in Phase \ {"purge"}, Goto(q, ph), Silent,
         UNCHANGED <<subs, now, lastHeld>>
  PROVE  Promise!Next
<1> DEFINE n == [q EXCEPT !.phase = ph]
<1>1. q \in Request
  BY DEF TypeOK
<1>2. n.phase = ph /\ View(n) = View(q)
  BY <1>1 DEF Request, View
<1>3. inflight' = (inflight \ {q}) \cup {n}
  BY DEF Goto
<1> HIDE DEF n
<1>4. Asked' = (Asked \ {View(q)}) \cup {View(q)}
  BY <1>2, <1>3, ViewsReplaced
<1>5. Asked' = Asked
  BY <1>4, Views
<1> QED BY <1>5, Silenced

(* A refusal that says nothing of the table goes to whoever is entitled.   *)
LEMMA DeclineRefines ==
  ASSUME IInv, RefInv, NEW q \in inflight, q.phase \in Delivering,
         NEW c \in {"RATE_LIMITED", "KV_UNAVAILABLE", "INSTANCES_MISSING",
                    "OVERALL_RENDER_FAILED"},
         Refuse(q, c), UNCHANGED <<subs, now, lastHeld>>
  PROVE  Promise!Next
<1>1. Promise!Answered(View(q), c, NoSub)
  BY Answers DEF Refuse, Delivering
<1>2. View(q) \in Asked
  BY Views DEF Delivering
<1>3. View(q).sub # NoSub
  BY DeliveryAssumption DEF IInv, StateInv, DeliveringEntitled, Entitled, View
<1> QED BY <1>1, <1>2, <1>3 DEF Promise!Next, Promise!Decline

LEMMA DeliverRefines ==
  ASSUME IInv, RefInv, NEW q \in inflight, q.phase \in Delivering,
         Finish(q), Reply(q, "OK", q.sub), UNCHANGED <<subs, now, lastHeld>>
  PROVE  Promise!Next
<1>1. Promise!Answered(View(q), "OK", View(q).sub)
  BY Answers DEF Delivering, View
<1>2. View(q) \in Asked
  BY Views DEF Delivering
<1>3. View(q).sub # NoSub
  BY DeliveryAssumption DEF IInv, StateInv, DeliveringEntitled, Entitled, View
<1> QED BY <1>1, <1>2, <1>3 DEF Promise!Next, Promise!Deliver

(* The lookup refuses, or entitles, by the row D1 holds at that moment.    *)
LEMMA LookupRefines ==
  ASSUME IInv, RefInv, NEW q \in inflight, Lookup(q)
  PROVE  Promise!Next
<1>1. /\ q.phase = "lookup" /\ q.phase # "purge" /\ q \in Request
      /\ UNCHANGED <<subs, now, lastHeld>>
  BY DEF Lookup, IInv, TypeOK
<1>2. View(q) \in Asked /\ View(q).sub = NoSub
  BY <1>1, Views DEF RefInv, Unjudged, View
<1>3. View(q).path = q.path /\ View(q).token = q.token
  BY DEF View
<1>4. ASSUME \A row \in subs : row.path # q.path, Refuse(q, "SUB_NOT_FOUND")
      PROVE  Promise!Next
  <2>1. Promise!Answered(View(q), "SUB_NOT_FOUND", NoSub)
    BY <1>1, <1>4, Answers DEF Refuse
  <2>2. Promise!Refuse(View(q))
    BY <1>2, <1>3, <1>4, <2>1 DEF Promise!Refuse
  <2> QED BY <1>2, <2>2 DEF Promise!Next
<1>5. ASSUME NEW row \in subs, row.path = q.path, row.token # q.token,
             Refuse(q, "AUTH_INVALID_TOKEN")
      PROVE  Promise!Next
  <2>1. Promise!Answered(View(q), "AUTH_INVALID_TOKEN", NoSub)
    BY <1>1, <1>5, Answers DEF Refuse
  <2>2. Promise!Refuse(View(q))
    BY <1>2, <1>3, <1>5, <2>1 DEF Promise!Refuse
  <2> QED BY <1>2, <2>2 DEF Promise!Next
<1>6. ASSUME NEW row \in subs, row.path = q.path, row.token = q.token, ~row.active,
             Goto(q, "purge"), Reply(q, "SUB_INACTIVE", NoSub)
      PROVE  Promise!Next
  <2>1. Asked' = Asked \ {View(q)}
    BY <1>1, <1>6, ViewsPurged
  <2>2. Promise!Answered(View(q), "SUB_INACTIVE", NoSub)
    BY <1>1, <1>6, <2>1, Replies DEF Promise!Answered
  <2>3. Promise!Refuse(View(q))
    BY <1>2, <1>3, <1>6, <2>2 DEF Promise!Refuse
  <2> QED BY <1>2, <2>3 DEF Promise!Next
<1>7. ASSUME NEW row \in subs, row.path = q.path, row.token = q.token, row.active,
             Silent,
             inflight' = (inflight \ {q}) \cup
               {[q EXCEPT !.phase = "limit", !.sub = row.id]}
      PROVE  Promise!Next
  <2> DEFINE n == [q EXCEPT !.phase = "limit", !.sub = row.id]
  <2>1. n.phase = "limit" /\ View(n) = [View(q) EXCEPT !.sub = row.id]
    BY <1>1 DEF Request, View
  <2>2. inflight' = (inflight \ {q}) \cup {n}
    BY <1>7
  <2> HIDE DEF n
  <2>3. Asked' = (Asked \ {View(q)}) \cup {[View(q) EXCEPT !.sub = row.id]}
    BY <1>1, <2>1, <2>2, ViewsReplaced
  <2>4. Promise!Entitle(View(q))
    BY <1>1, <1>2, <1>3, <1>7, <2>3, Silences DEF Promise!Entitle
  <2> QED BY <1>2, <2>4 DEF Promise!Next
<1> QED BY <1>4, <1>5, <1>6, <1>7 DEF Lookup

LEMMA RenderRefines ==
  ASSUME IInv, RefInv, NEW q \in inflight, Render(q)
  PROVE  Promise!Next
<1>1. /\ q.phase = "render" /\ q.phase # "purge" /\ q \in Request
      /\ q.phase \in Delivering /\ UNCHANGED <<subs, now, lastHeld>>
  BY DEF Render, IInv, TypeOK, Delivering
<1>2. CASE Finish(q) /\ Reply(q, "OK", q.sub)
  BY <1>1, <1>2, DeliverRefines
<1>3. CASE Refuse(q, "OVERALL_RENDER_FAILED")
  BY <1>1, <1>3, DeclineRefines
<1>4. CASE StartWrite(q)
  <2>1. "put" \in Phase \ {"purge"}
    BY DEF Phase
  <2> QED BY <1>1, <1>4, <2>1, SilentGoto DEF StartWrite, IInv
<1> QED BY <1>2, <1>3, <1>4 DEF Render

(* What an outage is answered with is as old as StaleBounded lets it be.   *)
LEMMA OutageRefines ==
  ASSUME IInv, StaleBounded', RefInv, NEW q \in inflight,
         ServeStaleDelivery(q) \/ StaleLookupFails(q)
  PROVE  Promise!Next
<1>1. /\ q.phase # "purge" /\ q \in Request /\ subcache \subseteq Entry
      /\ Finish(q) /\ UNCHANGED <<subs, now, lastHeld>>
  BY DEF ServeStaleDelivery, StaleLookupFails, Refuse, IInv, TypeOK
<1>2. View(q) \in Asked /\ View(q).path = q.path /\ View(q).token = q.token
  BY <1>1, Views DEF View
<1>3. CASE Reply(q, "DB_UNAVAILABLE", NoSub)
  <2>1. Promise!Answered(View(q), "DB_UNAVAILABLE", NoSub)
    BY <1>1, <1>3, Answers
  <2> QED BY <1>2, <2>1 DEF Promise!Next, Promise!Outage
<1>4. ASSUME NEW e \in subcache, Reply(q, "STALE", e.config)
      PROVE  Promise!Next
  <2>1. Promise!Answered(View(q), "STALE", e.config)
    BY <1>1, <1>4, Answers
  <2>2. /\ e.config # NoSub
        /\ lastHeld[<<e.config, q.path, q.token>>] > 0
        /\ now < lastHeld[<<e.config, q.path, q.token>>] + SubCacheTTL + MaxFlight
    BY <1>1, <1>4 DEF StaleBounded, Reply
  <2>3. e.config \in Sub
    BY <1>1, <2>2 DEF Entry
  <2>4. lastHeld[<<e.config, q.path, q.token>>] \in Nat
    BY <1>1, <2>3 DEF IInv, TypeOK, Request, Grant
  <2>5. now < lastHeld[<<e.config, q.path, q.token>>] + (SubCacheTTL + MaxFlight)
    BY <2>2, <2>4, DeliveryAssumption DEF IInv, TypeOK
  <2>6. Promise!Outage(View(q))
    BY <1>2, <2>1, <2>2, <2>3, <2>5 DEF Promise!Outage
  <2> QED BY <1>2, <2>6 DEF Promise!Next
<1> QED BY <1>3, <1>4 DEF ServeStaleDelivery, StaleLookupFails, Refuse

(* The detached delete concerns no client.                                 *)
LEMMA PurgeRefines ==
  ASSUME NEW q \in inflight, Purge(q) \/ PurgeFails(q)
  PROVE  Promise!Next
<1>1. /\ q.phase = "purge" /\ inflight' = inflight \ {q} /\ Silent
      /\ UNCHANGED <<subs, now, lastHeld>>
  BY DEF Purge, PurgeFails, Finish
<1>2. Asked' \subseteq Asked
  BY <1>1 DEF Asked
<1> QED BY <1>1, <1>2, Silenced

LEMMA ServeRefines ==
  ASSUME IInv, IInv', RefInv, NEW q \in inflight, Serve(q)
  PROVE  Promise!Next
<1>1. TypeOK /\ StaleBounded'
  BY DEF IInv
<1>2. {"instances", "render", "stale"} \subseteq Phase \ {"purge"}
  BY DEF Phase
<1>3. CASE CheckRate(q)
  BY <1>1, <1>2, <1>3, DeclineRefines, SilentGoto DEF CheckRate, Delivering
<1>4. CASE ReadInstances(q)
  BY <1>1, <1>2, <1>4, DeclineRefines, SilentGoto DEF ReadInstances, Delivering
<1>5. CASE WriteDeliveryCache(q)
  BY <1>5, DeliverRefines DEF WriteDeliveryCache, Delivering
<1>6. CASE D1Fails(q)
  BY <1>1, <1>2, <1>6, SilentGoto DEF D1Fails
<1> QED BY <1>1, <1>3, <1>4, <1>5, <1>6, LookupRefines, RenderRefines,
           OutageRefines, PurgeRefines DEF Serve

(* An edit changes the table and stamps the grants, and answers nobody.    *)
LEMMA AdminRefines ==
  ASSUME IInv, RefInv', Admin
  PROVE  Promise!Next
<1>1. Observe
  BY DEF Admin, CreateSubscription, UpdateSubscription, DeleteSubscription
<1>2. Promise!Table(subs')
  BY DEF RefInv, TableKeyed, Promise!Table
<1>3. lastHeld' = Promise!Held(subs', now)
  BY <1>1 DEF Observe, Promise!Held, Holds, Grant
<1>4. Asked' = Asked
  <2> DEFINE n(r) == [r EXCEPT !.seen = @ \cup Verdicts(subs', r.path, r.token)]
  <2>1. \A r \in inflight : View(n(r)) = View(r) /\ n(r).phase = r.phase
    BY DEF IInv, TypeOK, Request, View
  <2>2. inflight' = {n(r) : r \in inflight}
    BY <1>1 DEF Observe
  <2> HIDE DEF n
  <2>3. Asked = {View(r) : r \in {x \in inflight : x.phase # "purge"}}
    BY DEF Asked, View
  <2>4. Asked' = {View(r) : r \in {x \in inflight' : x.phase # "purge"}}
    BY DEF Asked, View
  <2>5. ASSUME NEW v \in Asked' PROVE v \in Asked
    BY <2>1, <2>2, <2>3, <2>4, <2>5
  <2>6. ASSUME NEW v \in Asked PROVE v \in Asked'
    BY <2>1, <2>2, <2>3, <2>4, <2>6
  <2> QED BY <2>5, <2>6
<1>5. Said' = {} /\ UNCHANGED now
  BY <1>1, Silences DEF Observe
<1> QED BY <1>2, <1>3, <1>4, <1>5 DEF Promise!Next, Promise!Edit

LEMMA ReceiveRefines ==
  ASSUME IInv, NEW id \in Req, NEW i \in Isolate, NEW p \in Path,
         NEW t \in Token, Receive(id, i, p, t)
  PROVE  Promise!Next
<1> DEFINE n == [id |-> id, iso |-> i, path |-> p, token |-> t,
                 phase |-> "lookup", sub |-> NoSub, start |-> now,
                 seen |-> Verdicts(subs, p, t)]
<1>1. /\ n.phase = "lookup"
      /\ View(n) = [id |-> id, path |-> p, token |-> t, sub |-> NoSub]
  BY DEF View
<1>2. inflight' = inflight \cup {n} /\ Silent /\ UNCHANGED <<subs, now, lastHeld>>
  BY DEF Receive
<1> HIDE DEF n
<1>3. Asked = {View(r) : r \in {x \in inflight : x.phase # "purge"}}
  BY DEF Asked, View
<1>4. Asked' = {View(r) : r \in {x \in inflight' : x.phase # "purge"}}
  BY DEF Asked, View
<1>5. Asked' = Asked \cup {View(n)}
  <2>1. ASSUME NEW v \in Asked' PROVE v \in Asked \cup {View(n)}
    BY <1>2, <1>3, <1>4, <2>1
  <2>2. ASSUME NEW v \in Asked \cup {View(n)} PROVE v \in Asked'
    BY <1>1, <1>2, <1>3, <1>4, <2>2
  <2> QED BY <2>1, <2>2
<1>6. \A v \in Asked : v.id # id
  BY DEF Receive, Asked
<1>7. Promise!Ask(id, p, t)
  BY <1>1, <1>2, <1>5, <1>6, Silences DEF Promise!Ask
<1> QED BY <1>7 DEF Promise!Next

LEMMA TickRefines == ASSUME Tick PROVE Promise!Next
<1>1. /\ now' = now + 1 /\ Silent /\ UNCHANGED <<subs, inflight>>
      /\ lastHeld' = [g \in Grant |-> IF Holds(subs, g) THEN now' ELSE lastHeld[g]]
  BY DEF Tick
<1>2. lastHeld' = Promise!Held(subs, now + 1)
  BY <1>1 DEF Promise!Held, Holds, Grant
<1>3. Asked' = Asked /\ Said' = {}
  BY <1>1, Silences DEF Asked
<1> QED BY <1>1, <1>2, <1>3 DEF Promise!Next, Promise!Tick

LEMMA RestartRefines ==
  ASSUME NEW i \in Isolate, Restart(i)
  PROVE  Promise!Next
<1>1. Asked' \subseteq Asked
  BY DEF Restart, Asked
<1> QED BY <1>1, Silenced DEF Restart

LEMMA NextRefines ==
  ASSUME IInv, IInv', RefInv, RefInv', [Next]_vars
  PROVE  Promise!Next \/ UNCHANGED <<subs, Asked, Said, now, lastHeld>>
<1>1. CASE UNCHANGED vars
  BY <1>1 DEF vars, Asked, Said
<1> QED BY <1>1, ReceiveRefines, ServeRefines, AdminRefines, TickRefines,
           RestartRefines DEF Next

LEMMA RefInductive == Spec => [](IInv /\ RefInv)
<1>1. Init => IInv /\ RefInv
  BY InitInv, InitRef
<1>2. (IInv /\ RefInv) /\ [Next]_vars => (IInv /\ RefInv)'
  BY NextInv, NextRef DEF IInv
<1> QED BY <1>1, <1>2, PTL DEF Spec

(* The handler, with its awaits, its isolates, its cache and its outages,  *)
(* answers as if each request had looked at D1 once at one moment of its   *)
(* life (subscriptions.ts:78-94, 143-264).                                 *)
THEOREM DeliveryImplementsPromise == Spec => DeliversAsPromised
<1>1. Init => Promise!Init
  BY DeliveryAssumption DEF Init, Promise!Init, Asked, Said, Grant
<1>2. (IInv /\ RefInv) /\ (IInv /\ RefInv)' /\ [Next]_vars =>
        [Promise!Next]_<<subs, Asked, Said, now, lastHeld>>
  BY NextRefines
<1> QED BY <1>1, <1>2, RefInductive, PTL DEF Spec, DeliversAsPromised, Promise!Spec
=============================================================================
