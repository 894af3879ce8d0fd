-------------------------- MODULE ClientSyncProofs --------------------------
(***************************************************************************)
(* Theorems about ClientSync, and about ClientHistory over it, for any     *)
(* configs, nodes, tags, ports and requests, any TTL, scan limit and       *)
(* bounds, with and without KV failures.                                   *)
(***************************************************************************)
EXTENDS ClientHistory, TLAPS

-----------------------------------------------------------------------------
(* The inductive invariant.  A claim is put at most MaxFlight after the    *)
(* start of its request (InFlight), and by then the request itself stored, *)
(* or found, a record that carries the tag (Earned, Found), which carried  *)
(* remembers (Recorded).                                                   *)

Recorded ==
  \A c \in Config, t \in Tag :
    carried[c][t] <= now /\ (Carries(client[c], t) => carried[c][t] = now)

InFlight ==
  \A q \in writers \cup readers : q.start <= now /\ now <= q.start + MaxFlight

Earned ==
  \A q \in writers : q.phase \in {"claiming", "renewing", "reclaiming"} =>
    Trim[q.raw] \in Tag /\ carried[q.cfg][Trim[q.raw]] >= q.start

Found ==
  \A q \in readers : q.op = "check" =>
    q.tag \in Tag /\ \A c \in q.got : carried[c][q.tag] >= q.start

IInv ==
  TypeOK /\ Recorded /\ InFlight /\ Earned /\ Found /\ StaleClaimBounded

-----------------------------------------------------------------------------
(* Type correctness.                                                       *)

LEMMA RecordTypes == NoRecord \in Record /\ NoClaim.exp = 0
BY DEF NoRecord, Record, RawTag, NoClaim

LEMMA InitType == Init => TypeOK
<1> SUFFICES ASSUME Init PROVE TypeOK
  OBVIOUS
<1>1. Epoch \in Nat /\ Epoch + TTL \in Nat
  BY ClientAssumption DEF Epoch
<1>2. client \in [Config -> Record]
  <2>1. ASSUME NEW r \in [raw : Tag, port : {NoPort}, meta : {FALSE},
                          exp : {Epoch + TTL}]
        PROVE  r \in Record
    BY <1>1 DEF Record, RawTag
  <2> QED BY <2>1, RecordTypes DEF Init
<1>3. carried \in [Config -> [Tag -> Nat]]
  BY <1>1 DEF Init
<1> QED BY <1>1, <1>2, <1>3 DEF Init, TypeOK

LEMMA ObserveType ==
  ASSUME TypeOK, NEW time \in Nat, Observe(time)
  PROVE  carried' \in [Config -> [Tag -> Nat]] /\ readers' \subseteq Reader
<1>1. carried' \in [Config -> [Tag -> Nat]]
  BY DEF TypeOK, Observe
<1>2. ASSUME NEW q \in readers
      PROVE  [q EXCEPT !.stable = {c \in @ : Matches(q, client'[c])}] \in Reader
  BY <1>2 DEF TypeOK, Reader
<1> QED BY <1>1, <1>2 DEF Observe

LEMMA SilentType == ASSUME Silent PROVE answer' \subseteq Answer
BY DEF Silent

LEMMA MoveType ==
  ASSUME writers \subseteq Writer, NEW q \in writers, NEW ph,
         ph \in {"storing", "claiming", "renewing", "reclaiming", "deleting",
                 "releasing", "dropping"},
         Move(q, ph)
  PROVE  writers' \subseteq Writer
BY DEF Move, Writer

LEMMA FinishType ==
  ASSUME writers \subseteq Writer, NEW q, Finish(q)
  PROVE  writers' \subseteq Writer
BY DEF Finish

LEMMA PrevTagType == ASSUME TypeOK, NEW c \in Config PROVE PrevTag(c) \in RawTag
<1>1. client[c].raw \in RawTag
  BY DEF TypeOK, Record
<1> QED BY <1>1, ClientAssumption DEF PrevTag, RawTag

(* Every step of a writer keeps the types.                                 *)
LEMMA WriterType ==
  ASSUME TypeOK, NEW q \in writers,
         \/ (ListSiblings(q) \/ ListFails(q)) \/ Store(q) \/ ClaimTag(q) \/ Renew(q) \/ Release(q)
         \/ DropClaim(q) \/ FetchDeleted(q) \/ DeleteRecord(q) \/ WriteFails(q)
  PROVE  TypeOK'
<1>0. /\ q \in Writer /\ writers \subseteq Writer
      /\ client \in [Config -> Record] /\ claim \in [Tag -> Claim \cup {NoClaim}]
      /\ readers \subseteq Reader /\ answer \subseteq Answer /\ now \in Nat
      /\ carried \in [Config -> [Tag -> Nat]]
  BY DEF TypeOK
<1>1. q.cfg \in Config /\ q.raw \in RawTag /\ q.prev \in RawTag
  BY <1>0 DEF Writer
<1>2. Trim[q.raw] \in RawTag /\ now + TTL \in Nat
  BY <1>0, <1>1, ClientAssumption
<1>3. CASE (ListSiblings(q) \/ ListFails(q))
  <2>1. [q EXCEPT !.phase = "storing", !.prev = PrevTag(q.cfg)] \in Writer
    BY <1>0, <1>1, PrevTagType DEF Writer
  <2>2. writers' \subseteq Writer
    BY <1>0, <1>3, <2>1, MoveType, FinishType DEF ListSiblings, ListFails
  <2> QED BY <1>0, <1>3, <2>2, SilentType DEF ListSiblings, ListFails, WritersOnly, TypeOK
<1>4. CASE Store(q)
  <2>1. [raw |-> q.raw, port |-> q.port, meta |-> TRUE, exp |-> now + TTL]
          \in Record
    BY <1>0, <1>1, <1>2 DEF Record, Writer
  <2>2. client' \in [Config -> Record]
    BY <1>0, <1>1, <1>4, <2>1 DEF Store
  <2>3. writers' \subseteq Writer
    BY <1>0, <1>4, MoveType, FinishType DEF Store
  <2>4. carried' \in [Config -> [Tag -> Nat]] /\ readers' \subseteq Reader
    BY <1>0, <1>4, ObserveType DEF Store
  <2> QED BY <1>0, <1>4, <2>2, <2>3, <2>4, SilentType DEF Store, TypeOK
<1>5. CASE ClaimTag(q)
  <2>1. [owner |-> q.cfg, exp |-> now + TTL] \in Claim
    BY <1>1, <1>2 DEF Claim
  <2>2. claim' \in [Tag -> Claim \cup {NoClaim}]
    BY <1>0, <1>5, <2>1 DEF ClaimTag
  <2>3. writers' \subseteq Writer
    BY <1>0, <1>5, MoveType, FinishType DEF ClaimTag
  <2> QED BY <1>0, <1>5, <2>2, <2>3, SilentType DEF ClaimTag, TypeOK
<1>6. CASE Renew(q)
  <2>1. writers' \subseteq Writer
    BY <1>0, <1>6, MoveType, FinishType DEF Renew
  <2> QED BY <1>0, <1>6, <2>1, SilentType DEF Renew, WritersOnly, TypeOK
<1>7. CASE Release(q)
  <2>1. writers' \subseteq Writer
    BY <1>0, <1>7, MoveType, FinishType DEF Release
  <2> QED BY <1>0, <1>7, <2>1, SilentType DEF Release, WritersOnly, TypeOK
<1>8. CASE DropClaim(q)
  <2>1. writers' \subseteq Writer
    BY <1>0, <1>8, FinishType DEF DropClaim
  <2>2. claim' \in [Tag -> Claim \cup {NoClaim}]
    BY <1>0, <1>8 DEF DropClaim
  <2> QED BY <1>0, <1>8, <2>1, <2>2, SilentType DEF DropClaim, TypeOK
<1>9. CASE FetchDeleted(q)
  <2>1. client[q.cfg].raw \in RawTag
    BY <1>0, <1>1 DEF Record
  <2>2. Trim[client[q.cfg].raw] \in RawTag
    BY <2>1, ClientAssumption
  <2>3. [q EXCEPT !.phase = "deleting", !.prev = Trim[client[q.cfg].raw]]
          \in Writer
    BY <1>0, <2>2 DEF Writer
  <2>4. writers' \subseteq Writer
    BY <1>0, <1>9, <2>3, FinishType DEF FetchDeleted
  <2> QED BY <1>0, <1>9, <2>4, SilentType DEF FetchDeleted, WritersOnly, TypeOK
<1>10. CASE DeleteRecord(q)
  <2>1. client' \in [Config -> Record]
    BY <1>0, <1>10, RecordTypes DEF DeleteRecord
  <2>2. writers' \subseteq Writer
    BY <1>0, <1>10, MoveType, FinishType DEF DeleteRecord
  <2>3. carried' \in [Config -> [Tag -> Nat]] /\ readers' \subseteq Reader
    BY <1>0, <1>10, ObserveType DEF DeleteRecord
  <2> QED BY <1>0, <1>10, <2>1, <2>2, <2>3, SilentType DEF DeleteRecord, TypeOK
<1>11. CASE WriteFails(q)
  <2>1. writers' \subseteq Writer
    BY <1>0, <1>11, FinishType DEF WriteFails
  <2> QED BY <1>0, <1>11, <2>1, SilentType DEF WriteFails, WritersOnly, TypeOK
<1> QED
  BY <1>3, <1>4, <1>5, <1>6, <1>7, <1>8, <1>9, <1>10, <1>11

LEMMA ReplyType ==
  ASSUME TypeOK, NEW q \in Reader, NEW free \in BOOLEAN, Reply(q, free)
  PROVE  answer' \subseteq Answer /\ readers' \subseteq Reader
BY DEF TypeOK, Reply, Reader, Answer

LEMMA StepType ==
  ASSUME TypeOK, NEW q, NEW r \in Reader, Step(q, r)
  PROVE  answer' \subseteq Answer /\ readers' \subseteq Reader
BY DEF TypeOK, Step, Silent

(* Every step of a reader keeps the types.                                 *)
LEMMA ReaderType ==
  ASSUME TypeOK, NEW q \in readers,
         \/ CheckOwner(q) \/ ListKeys(q) \/ ReadFails(q) \/ Conclude(q)
         \/ \E c \in q.todo : FetchKey(q, c)
  PROVE  TypeOK'
<1>0. /\ q \in Reader /\ readers \subseteq Reader /\ writers \subseteq Writer
      /\ client \in [Config -> Record] /\ claim \in [Tag -> Claim \cup {NoClaim}]
      /\ now \in Nat /\ carried \in [Config -> [Tag -> Nat]]
      /\ TRUE \in BOOLEAN /\ FALSE \in BOOLEAN
  BY DEF TypeOK
<1>1. ASSUME answer' \subseteq Answer /\ readers' \subseteq Reader, StoreUnchanged
      PROVE  TypeOK'
  BY <1>0, <1>1 DEF TypeOK, StoreUnchanged
<1>2. CASE CheckOwner(q)
  <2>1. [q EXCEPT !.phase = "listing"] \in Reader
    BY <1>0 DEF Reader
  <2>2. answer' \subseteq Answer /\ readers' \subseteq Reader
    BY <1>0, <1>2, <2>1, ReplyType, StepType DEF CheckOwner
  <2> QED BY <1>1, <1>2, <2>2 DEF CheckOwner
<1>3. CASE ListKeys(q)
  <2> DEFINE keys == Keys \cap q.scope
             want == {c \in keys : NeedsGet(q.op, c)}
             got  == IF q.op = "list" THEN keys \ want ELSE {}
  <2>1. PICK todo \in SUBSET want :
          Step(q, [q EXCEPT !.phase = "scanning", !.todo = todo,
                            !.full = (todo = want), !.got = got])
    BY <1>3 DEF ListKeys
  <2>2. keys \subseteq Config /\ todo \subseteq Config /\ got \subseteq Config
    BY DEF Keys
  <2>3. (todo = want) \in BOOLEAN
    OBVIOUS
  <2> HIDE DEF keys, want, got
  <2>4. \A b \in BOOLEAN :
          [q EXCEPT !.phase = "scanning", !.todo = todo, !.full = b, !.got = got]
            \in Reader
    BY <1>0, <2>2 DEF Reader
  <2>5. answer' \subseteq Answer /\ readers' \subseteq Reader
    BY <2>1, <2>3, <2>4, StepType
  <2> QED BY <1>1, <1>3, <2>5 DEF ListKeys
<1>4. CASE ReadFails(q)
  <2>1. [op |-> q.op, free |-> TRUE, got |-> q.got, full |-> FALSE,
         stable |-> q.stable] \in Answer
    BY <1>0 DEF Reader, Answer
  <2>2. answer' \subseteq Answer /\ readers' \subseteq Reader
    BY <1>0, <1>4, <2>1 DEF ReadFails, Silent
  <2> QED BY <1>1, <1>4, <2>2 DEF ReadFails
<1>5. CASE Conclude(q)
  <2>1. answer' \subseteq Answer /\ readers' \subseteq Reader
    BY <1>0, <1>5, ReplyType DEF Conclude
  <2>2. claim' \in [Tag -> Claim \cup {NoClaim}]
    <3>1. ASSUME NEW c \in q.got
          PROVE  [owner |-> c, exp |-> now + TTL] \in Claim
      BY <1>0, ClientAssumption DEF Reader, Claim
    <3> QED BY <1>0, <1>5, <3>1 DEF Conclude
  <2> QED BY <1>0, <1>5, <2>1, <2>2 DEF Conclude, TypeOK
<1>6. ASSUME NEW c \in q.todo, FetchKey(q, c) PROVE TypeOK'
  <2>1. c \in Config
    BY <1>0 DEF Reader
  <2>2. [q EXCEPT !.todo = @ \ {c},
                  !.got = IF Matches(q, client[c]) THEN @ \cup {c} ELSE @]
          \in Reader
    BY <1>0, <2>1 DEF Reader
  <2>3. answer' \subseteq Answer /\ readers' \subseteq Reader
    BY <1>6, <2>2, StepType DEF FetchKey
  <2> QED BY <1>1, <1>6, <2>3 DEF FetchKey
<1> QED
  BY <1>2, <1>3, <1>4, <1>5, <1>6

LEMMA NextType == TypeOK /\ [Next]_vars => TypeOK'
<1> SUFFICES ASSUME TypeOK, [Next]_vars PROVE TypeOK'
  OBVIOUS
<1>0. /\ readers \subseteq Reader /\ writers \subseteq Writer
      /\ client \in [Config -> Record] /\ claim \in [Tag -> Claim \cup {NoClaim}]
      /\ now \in Nat /\ carried \in [Config -> [Tag -> Nat]]
  BY DEF TypeOK
<1>1. ASSUME NEW id \in Req, NEW c \in Config, NEW t \in RawTag,
             NEW p \in Port \cup {NoPort}, StartUpsert(id, c, t, p)
      PROVE  TypeOK'
  <2>1. [id |-> id, cfg |-> c, raw |-> t, port |-> p, prev |-> NoTag,
         start |-> now, phase |-> "listing"] \in Writer
    BY <1>0 DEF Writer, RawTag
  <2> QED BY <1>0, <1>1, <2>1, SilentType DEF StartUpsert, WritersOnly, TypeOK
<1>2. ASSUME NEW id \in Req, NEW c \in Config, StartDelete(id, c)
      PROVE  TypeOK'
  <2>1. [id |-> id, cfg |-> c, raw |-> NoTag, port |-> NoPort, prev |-> NoTag,
         start |-> now, phase |-> "fetching"] \in Writer
    BY <1>0 DEF Writer, RawTag
  <2> QED BY <1>0, <1>2, <2>1, SilentType DEF StartDelete, WritersOnly, TypeOK
<1>3. ASSUME NEW id \in Req, NEW op \in {"check", "list", "pull"},
             NEW s \in SUBSET Config, NEW t \in RawTag, StartRead(id, op, s, t)
      PROVE  TypeOK'
  <2> DEFINE ph == IF op = "check" THEN "owner" ELSE "listing"
             q  == [id |-> id, op |-> op, scope |-> s, tag |-> t, todo |-> {},
                    got |-> {}, full |-> FALSE, stable |-> {}, start |-> now,
                    phase |-> ph]
             st == {c \in s : Matches(q, client[c])}
  <2>1. st \subseteq Config
    OBVIOUS
  <2>2. q \in Reader
    BY <1>0 DEF Reader
  <2>3. readers' = readers \cup {[q EXCEPT !.stable = st]}
    BY <1>3 DEF StartRead
  <2> HIDE DEF q, st
  <2>4. [q EXCEPT !.stable = st] \in Reader
    BY <2>1, <2>2 DEF Reader
  <2>5. readers' \subseteq Reader
    BY <1>0, <2>3, <2>4
  <2> QED BY <1>0, <1>3, <2>5, SilentType DEF StartRead, StoreUnchanged, TypeOK
<1>4. CASE Serve
  BY <1>4, WriterType, ReaderType DEF Serve, Proceed
<1>5. CASE Tick
  <2>1. client' \in [Config -> Record]
    BY <1>0, <1>5, RecordTypes DEF Tick
  <2>2. claim' \in [Tag -> Claim \cup {NoClaim}]
    BY <1>0, <1>5 DEF Tick
  <2>3. now + 1 \in Nat
    BY <1>0
  <2>4. carried' \in [Config -> [Tag -> Nat]] /\ readers' \subseteq Reader
    BY <1>5, <2>3, ObserveType DEF Tick
  <2> QED BY <1>0, <1>5, <2>1, <2>2, <2>3, <2>4, SilentType DEF Tick, TypeOK
<1>6. CASE UNCHANGED vars
  BY <1>6 DEF vars, TypeOK
<1>7. \A s \in Scopes : s \in SUBSET Config
  BY DEF Scopes
<1>8. Tag \subseteq RawTag /\ NoTag \in RawTag
  BY DEF RawTag
<1> QED
  BY <1>1, <1>2, <1>3, <1>4, <1>5, <1>6, <1>7, <1>8 DEF Next, Receive

(* Every reachable state has the declared types.                           *)
THEOREM TypeCorrect == Spec => []TypeOK
BY InitType, NextType, PTL DEF Spec

-----------------------------------------------------------------------------
(* What carried remembers only grows, and always covers the present.       *)
LEMMA ObserveRecords ==
  ASSUME TypeOK, Recorded, NEW time \in Nat, now <= time, now' = time,
         Observe(time)
  PROVE  /\ Recorded'
         /\ \A c \in Config, t \in Tag : carried[c][t] <= carried'[c][t]
<1>1. ASSUME NEW c \in Config, NEW t \in Tag
      PROVE  /\ carried'[c][t] =
                  IF Carries(client'[c], t) THEN time ELSE carried[c][t]
             /\ carried[c][t] \in Nat /\ carried[c][t] <= now /\ now \in Nat
  BY <1>1 DEF TypeOK, Recorded, Observe
<1>2. \A c \in Config, t \in Tag :
        /\ carried'[c][t] <= time
        /\ Carries(client'[c], t) => carried'[c][t] = time
        /\ carried[c][t] <= carried'[c][t]
  BY <1>1
<1> QED BY <1>2 DEF Recorded

(* A step that only observes the readers keeps what they found.            *)
LEMMA ObserveFound ==
  ASSUME TypeOK, Found, NEW time \in Nat, Observe(time),
         \A c \in Config, t \in Tag : carried[c][t] <= carried'[c][t],
         carried' \in [Config -> [Tag -> Nat]]
  PROVE  Found' /\ \A r \in readers' : \E q \in readers : r.start = q.start
<1>1. ASSUME NEW r \in readers'
      PROVE  \E q \in readers : /\ r.start = q.start /\ r.op = q.op
                                /\ r.tag = q.tag /\ r.got = q.got
  BY DEF Observe, TypeOK, Reader
<1>2. ASSUME NEW q \in readers, q.op = "check"
      PROVE  q.tag \in Tag /\ \A c \in q.got : carried'[c][q.tag] >= q.start
  <2>1. q.tag \in Tag /\ q.got \subseteq Config /\ q.start \in Nat
    BY <1>2 DEF Found, TypeOK, Reader
  <2>2. ASSUME NEW c \in q.got
        PROVE  carried'[c][q.tag] >= q.start
    <3>1. c \in Config /\ carried[c][q.tag] >= q.start
      BY <1>2, <2>1 DEF Found
    <3>2. carried[c][q.tag] \in Nat /\ carried'[c][q.tag] \in Nat
      BY <2>1, <3>1 DEF TypeOK
    <3> QED BY <2>1, <3>1, <3>2
  <2> QED BY <2>1, <2>2
<1> QED BY <1>1, <1>2 DEF Found

(* Claims that stay, or go, stay bounded while carried grows.              *)
LEMMA KeptBounded ==
  ASSUME TypeOK, StaleClaimBounded, carried' \in [Config -> [Tag -> Nat]],
         \A c \in Config, t \in Tag : carried[c][t] <= carried'[c][t],
         \A t \in Tag : claim'[t] = claim[t] \/ claim'[t] = NoClaim
  PROVE  StaleClaimBounded'
<1> SUFFICES ASSUME NEW t \in Tag, claim'[t] # NoClaim
             PROVE  claim'[t].exp <= carried'[claim'[t].owner][t] + TTL + MaxFlight
  BY DEF StaleClaimBounded
<1>1. claim'[t] = claim[t] /\ claim[t] \in Claim
  BY DEF TypeOK
<1>2. claim[t].owner \in Config /\ claim[t].exp \in Nat
  BY <1>1 DEF Claim
<1>3. /\ carried[claim[t].owner][t] \in Nat /\ carried'[claim[t].owner][t] \in Nat
      /\ carried[claim[t].owner][t] <= carried'[claim[t].owner][t]
      /\ claim[t].exp <= carried[claim[t].owner][t] + TTL + MaxFlight
  BY <1>1, <1>2 DEF TypeOK, StaleClaimBounded
<1> QED BY <1>1, <1>2, <1>3, ClientAssumption

(* A claim put by a request within MaxFlight of the start of the request.  *)
LEMMA PutBounded ==
  ASSUME TypeOK, StaleClaimBounded, UNCHANGED carried,
         NEW o \in Config, NEW t \in Tag, NEW s \in Nat,
         carried[o][t] >= s, now <= s + MaxFlight,
         claim' = [claim EXCEPT ![t] = [owner |-> o, exp |-> now + TTL]]
  PROVE  StaleClaimBounded'
<1>1. carried[o][t] \in Nat /\ now \in Nat /\ TTL \in Nat /\ MaxFlight \in Nat
  BY ClientAssumption DEF TypeOK
<1>2. claim'[t].owner = o /\ claim'[t].exp = now + TTL
  BY DEF TypeOK
<1>3. now + TTL <= carried[o][t] + TTL + MaxFlight
  BY <1>1
<1>4. \A u \in Tag \ {t} : claim'[u] = claim[u]
  BY DEF TypeOK
<1> QED BY <1>2, <1>3, <1>4 DEF StaleClaimBounded

(* Moving a writer keeps its start; where to decides what must be earned.  *)
LEMMA MoveEarned ==
  ASSUME TypeOK, Earned, InFlight, NEW q \in writers, NEW ph, UNCHANGED now,
         carried' \in [Config -> [Tag -> Nat]],
         \A c \in Config, t \in Tag : carried[c][t] <= carried'[c][t],
         \A r \in readers' : \E s \in readers : r.start = s.start,
         \/ Finish(q)
         \/ /\ Move(q, ph)
            /\ ph \in {"claiming", "renewing", "reclaiming"} =>
                 Trim[q.raw] \in Tag /\ carried'[q.cfg][Trim[q.raw]] >= q.start
  PROVE  Earned' /\ InFlight'
<1>1. ASSUME NEW w \in writers, w.phase \in {"claiming", "renewing", "reclaiming"}
      PROVE  Trim[w.raw] \in Tag /\ carried'[w.cfg][Trim[w.raw]] >= w.start
  <2>1. w.cfg \in Config /\ w.start \in Nat /\ Trim[w.raw] \in Tag
    BY <1>1 DEF TypeOK, Writer, Earned
  <2>2. carried[w.cfg][Trim[w.raw]] >= w.start
    BY <1>1 DEF Earned
  <2>3. /\ carried[w.cfg][Trim[w.raw]] \in Nat
        /\ carried'[w.cfg][Trim[w.raw]] \in Nat
        /\ carried[w.cfg][Trim[w.raw]] <= carried'[w.cfg][Trim[w.raw]]
    BY <2>1 DEF TypeOK
  <2> QED BY <2>1, <2>2, <2>3
<1> DEFINE w == [q EXCEPT !.phase = ph]
<1>2. w.start = q.start /\ w.raw = q.raw /\ w.cfg = q.cfg /\ w.phase = ph
  BY DEF TypeOK, Writer
<1>3. writers' \subseteq writers \cup {w}
  BY DEF Finish, Move
<1> HIDE DEF w
<1>4. ASSUME NEW r \in writers', r \notin writers
      PROVE  r = w /\ (r.phase \in {"claiming", "renewing", "reclaiming"} =>
               Trim[r.raw] \in Tag /\ carried'[r.cfg][Trim[r.raw]] >= r.start)
  <2>1. r = w
    BY <1>3, <1>4
  <2>2. ~Finish(q)
    BY <1>4 DEF Finish
  <2> QED BY <1>2, <2>1, <2>2
<1>5. Earned'
  BY <1>1, <1>4 DEF Earned
<1>6. InFlight'
  BY <1>2, <1>3 DEF InFlight
<1> QED BY <1>5, <1>6

(* Every step of a writer keeps the invariant.                             *)
LEMMA WriterKeeps ==
  ASSUME IInv, NEW q \in writers,
         \/ (ListSiblings(q) \/ ListFails(q)) \/ Store(q) \/ ClaimTag(q) \/ Renew(q) \/ Release(q)
         \/ DropClaim(q) \/ FetchDeleted(q) \/ DeleteRecord(q) \/ WriteFails(q)
  PROVE  IInv'
<1>0. TypeOK /\ Recorded /\ InFlight /\ Earned /\ Found /\ StaleClaimBounded
  BY DEF IInv
<1>t. TypeOK'
  BY <1>0, WriterType
<1>1. /\ q.cfg \in Config /\ q.raw \in RawTag /\ Trim[q.raw] \in RawTag
      /\ q.start \in Nat /\ q.start <= now /\ now <= q.start + MaxFlight
      /\ now \in Nat /\ carried' \in [Config -> [Tag -> Nat]]
      /\ \A c \in Config, t \in Tag : carried[c][t] <= carried[c][t]
  <2>1. q \in Writer /\ now \in Nat
    BY <1>0 DEF TypeOK
  <2>2. \A c \in Config, t \in Tag : carried[c][t] \in Nat
    BY <1>0 DEF TypeOK
  <2> QED BY <1>0, <1>t, <2>1, <2>2, ClientAssumption DEF Writer, InFlight, TypeOK
(* Steps that leave the stores, the clock and the observer alone.          *)
<1>2. ASSUME WritersOnly, NEW ph, ph \notin {"claiming", "renewing", "reclaiming"},
             Finish(q) \/ Move(q, ph)
      PROVE  IInv'
  <2>1. Earned' /\ InFlight'
    BY <1>0, <1>1, <1>2, MoveEarned DEF WritersOnly
  <2> QED BY <1>0, <1>t, <1>2, <2>1
          DEF IInv, WritersOnly, Recorded, Found, StaleClaimBounded
<1>3. CASE (ListSiblings(q) \/ ListFails(q)) \/ FetchDeleted(q)
  <2>1. WritersOnly
    BY <1>3 DEF ListSiblings, ListFails, FetchDeleted
  <2>2. \A r \in writers' : r \in writers \/
          (r.start = q.start /\ r.phase \in {"storing", "deleting"})
    <3> DEFINE moved(w) == writers' = (writers \ {q}) \cup {w}
               kept(w)  == /\ w.start = q.start
                           /\ w.phase \in {"storing", "deleting"}
    <3>1. ASSUME NEW p, NEW ph \in {"storing", "deleting"}
          PROVE  /\ kept([q EXCEPT !.phase = ph, !.prev = p])
                 /\ kept([q EXCEPT !.phase = ph])
      BY <1>0 DEF TypeOK, Writer
    <3>2. Finish(q) \/ \E w : moved(w) /\ kept(w)
      <4>1. CASE (ListSiblings(q) \/ ListFails(q))
        BY <3>1, <4>1 DEF ListSiblings, ListFails, Move
      <4>2. CASE FetchDeleted(q)
        BY <3>1, <4>2 DEF FetchDeleted
      <4> QED BY <1>3, <4>1, <4>2
    <3> QED BY <3>2 DEF Finish
  <2>3. Earned'
    BY <1>0, <2>1, <2>2 DEF Earned, WritersOnly
  <2>4. InFlight'
    BY <1>0, <2>1, <2>2 DEF InFlight, WritersOnly
  <2> QED BY <1>0, <1>t, <2>1, <2>3, <2>4
          DEF IInv, WritersOnly, Recorded, Found, StaleClaimBounded
<1>4. CASE Store(q)
  <2>1. /\ Recorded' /\ Found'
        /\ \A c \in Config, t \in Tag : carried[c][t] <= carried'[c][t]
        /\ \A r \in readers' : \E s \in readers : r.start = s.start
    <3>1. now <= now /\ now' = now /\ Observe(now)
      BY <1>1, <1>4 DEF Store
    <3> QED BY <1>0, <1>1, <3>1, ObserveRecords, ObserveFound
  <2>2. Trim[q.raw] # NoTag =>
          Trim[q.raw] \in Tag /\ carried'[q.cfg][Trim[q.raw]] >= q.start
    <3>1. SUFFICES ASSUME Trim[q.raw] # NoTag
                   PROVE  carried'[q.cfg][Trim[q.raw]] = now /\ Trim[q.raw] \in Tag
      BY <1>1
    <3>2. Trim[q.raw] \in Tag
      BY <1>1, <3>1 DEF RawTag
    <3>3. client'[q.cfg].raw = q.raw /\ client'[q.cfg].exp = now + TTL
      BY <1>0, <1>1, <1>4 DEF Store, TypeOK
    <3>4. Carries(client'[q.cfg], Trim[q.raw])
      BY <1>1, <3>3, ClientAssumption DEF Carries, NoRecord
    <3> QED BY <1>1, <1>4, <2>1, <3>2, <3>4 DEF Recorded, Store
  <2>3. Earned' /\ InFlight'
    <3>1. now' = now
      BY <1>4 DEF Store
    <3>2. PICK ph : \/ Finish(q)
                    \/ Move(q, ph) /\ (ph # "releasing" => Trim[q.raw] # NoTag)
      BY <1>4 DEF Store
    <3> QED BY <1>0, <1>1, <2>1, <2>2, <3>1, <3>2, MoveEarned
  <2>4. StaleClaimBounded'
    BY <1>0, <1>1, <1>4, <2>1, KeptBounded DEF Store
  <2> QED BY <1>t, <2>1, <2>3, <2>4 DEF IInv
<1>5. CASE ClaimTag(q)
  <2>1. Trim[q.raw] \in Tag /\ carried[q.cfg][Trim[q.raw]] >= q.start
    BY <1>0, <1>5 DEF Earned, ClaimTag
  <2>2. StaleClaimBounded'
    BY <1>0, <1>1, <1>5, <2>1, PutBounded DEF ClaimTag
  <2>3. Earned' /\ InFlight'
    BY <1>0, <1>1, <1>5, MoveEarned DEF ClaimTag
  <2> QED BY <1>0, <1>t, <1>5, <2>2, <2>3 DEF IInv, ClaimTag, Recorded, Found
<1>6. CASE Renew(q)
  <2>1. Trim[q.raw] \in Tag /\ carried'[q.cfg][Trim[q.raw]] >= q.start
    BY <1>0, <1>6 DEF Earned, Renew, WritersOnly
  <2>2. Earned' /\ InFlight'
    BY <1>0, <1>1, <1>6, <2>1, MoveEarned DEF Renew, WritersOnly
  <2> QED BY <1>0, <1>t, <1>6, <2>2
          DEF IInv, Renew, WritersOnly, Recorded, Found, StaleClaimBounded
<1>7. CASE Release(q) \/ WriteFails(q)
  BY <1>2, <1>7 DEF Release, WriteFails
<1>8. CASE DropClaim(q)
  <2>1. \A t \in Tag : claim'[t] = claim[t] \/ claim'[t] = NoClaim
    BY <1>0, <1>8 DEF DropClaim, TypeOK
  <2>2. StaleClaimBounded'
    BY <1>0, <1>1, <1>8, <2>1, KeptBounded DEF DropClaim
  <2>3. Earned' /\ InFlight'
    BY <1>0, <1>1, <1>8, MoveEarned DEF DropClaim
  <2> QED BY <1>0, <1>t, <1>8, <2>2, <2>3 DEF IInv, DropClaim, Recorded, Found
<1>9. CASE DeleteRecord(q)
  <2>1. /\ Recorded' /\ Found'
        /\ \A c \in Config, t \in Tag : carried[c][t] <= carried'[c][t]
        /\ \A r \in readers' : \E s \in readers : r.start = s.start
    <3>1. now <= now /\ now' = now /\ Observe(now)
      BY <1>1, <1>9 DEF DeleteRecord
    <3> QED BY <1>0, <1>1, <3>1, ObserveRecords, ObserveFound
  <2>2. Earned' /\ InFlight'
    <3>1. now' = now
      BY <1>9 DEF DeleteRecord
    <3>2. PICK ph : Finish(q) \/ (Move(q, ph) /\ ph = "releasing")
      BY <1>9 DEF DeleteRecord
    <3>3. carried' \in [Config -> [Tag -> Nat]]
      BY <1>1
    <3> QED BY <1>0, <2>1, <3>1, <3>2, <3>3, MoveEarned
  <2>3. StaleClaimBounded'
    BY <1>0, <1>1, <1>9, <2>1, KeptBounded DEF DeleteRecord
  <2> QED BY <1>t, <2>1, <2>2, <2>3 DEF IInv
<1> QED
  BY <1>3, <1>4, <1>5, <1>6, <1>7, <1>8, <1>9

(* Every step of a reader keeps the invariant; only Conclude puts a claim. *)
LEMMA ReaderKeeps ==
  ASSUME IInv, NEW q \in readers,
         \/ CheckOwner(q) \/ ListKeys(q) \/ ReadFails(q) \/ Conclude(q)
         \/ \E c \in q.todo : FetchKey(q, c)
  PROVE  IInv'
<1>0. TypeOK /\ Recorded /\ InFlight /\ Earned /\ Found /\ StaleClaimBounded
  BY DEF IInv
<1>t. TypeOK'
  BY <1>0, ReaderType
<1>1. /\ q \in Reader /\ q.start \in Nat /\ q.start <= now
      /\ now <= q.start + MaxFlight /\ now \in Nat
  BY <1>0 DEF TypeOK, Reader, InFlight
<1>2. UNCHANGED <<client, writers, now, carried>>
  BY DEF CheckOwner, ListKeys, ReadFails, Conclude, FetchKey, StoreUnchanged
<1>3. Recorded' /\ Earned'
  BY <1>0, <1>2 DEF Recorded, Earned
(* Readers go, or are replaced by one of the same start that found no      *)
(* config that did not carry the tag.                                      *)
<1>4. ASSUME NEW r,
             /\ r.start = q.start /\ r.op = q.op /\ r.tag = q.tag
             /\ q.op = "check" => \A c \in r.got : carried[c][q.tag] >= q.start,
             readers' \subseteq readers \cup {r}
      PROVE  Found' /\ InFlight'
  BY <1>0, <1>1, <1>2, <1>4 DEF Found, InFlight
<1>5. ASSUME readers' \subseteq readers PROVE Found' /\ InFlight'
  BY <1>0, <1>2, <1>5 DEF Found, InFlight
<1>6. ASSUME StoreUnchanged PROVE StaleClaimBounded'
  BY <1>0, <1>6 DEF StoreUnchanged, StaleClaimBounded
<1>7. CASE CheckOwner(q)
  <2> DEFINE r == [q EXCEPT !.phase = "listing"]
  <2>1. r.start = q.start /\ r.op = q.op /\ r.tag = q.tag /\ r.got = q.got
    BY <1>1 DEF Reader
  <2>2. readers' \subseteq readers \cup {r}
    BY <1>7 DEF CheckOwner, Reply, Step
  <2> HIDE DEF r
  <2>3. Found' /\ InFlight'
    BY <1>0, <1>4, <2>1, <2>2 DEF Found
  <2> QED BY <1>t, <1>3, <1>6, <1>7, <2>3 DEF IInv, CheckOwner
<1>8. CASE ListKeys(q)
  <2>1. PICK td, fl, r :
          /\ r = [q EXCEPT !.phase = "scanning", !.todo = td, !.full = fl,
                           !.got = IF q.op = "list"
                                   THEN (Keys \cap q.scope) \
                                     {c \in Keys \cap q.scope : NeedsGet(q.op, c)}
                                   ELSE {}]
          /\ Step(q, r)
    BY <1>8 DEF ListKeys
  <2>2. r.start = q.start /\ r.op = q.op /\ r.tag = q.tag
    BY <1>1, <2>1 DEF Reader
  <2>3. q.op = "check" => r.got = {}
    BY <1>1, <2>1 DEF Reader
  <2>4. Found' /\ InFlight'
    BY <1>4, <2>1, <2>2, <2>3 DEF Step
  <2> QED BY <1>t, <1>3, <1>6, <1>8, <2>4 DEF IInv, ListKeys
<1>9. CASE ReadFails(q)
  <2>1. readers' \subseteq readers
    BY <1>9 DEF ReadFails
  <2> QED BY <1>t, <1>3, <1>5, <1>6, <1>9, <2>1 DEF IInv, ReadFails
<1>10. CASE Conclude(q)
  <2>1. readers' \subseteq readers
    BY <1>10 DEF Conclude, Reply
  <2>2. ASSUME q.op = "check", NEW c \in q.got,
               claim' = [claim EXCEPT ![q.tag] = [owner |-> c, exp |-> now + TTL]]
        PROVE  StaleClaimBounded'
    <3>1. c \in Config /\ q.tag \in Tag /\ carried[c][q.tag] >= q.start
      BY <1>0, <1>1, <2>2 DEF Found, Reader
    <3> QED BY <1>0, <1>1, <1>2, <2>2, <3>1, PutBounded
  <2>3. ASSUME UNCHANGED claim PROVE StaleClaimBounded'
    BY <1>0, <1>2, <2>3 DEF StaleClaimBounded
  <2>4. StaleClaimBounded'
    BY <1>10, <2>2, <2>3 DEF Conclude
  <2> QED BY <1>t, <1>3, <1>5, <2>1, <2>4 DEF IInv
<1>11. ASSUME NEW c \in q.todo, FetchKey(q, c) PROVE IInv'
  <2> DEFINE r == [q EXCEPT !.todo = @ \ {c},
                     !.got = IF Matches(q, client[c]) THEN @ \cup {c} ELSE @]
  <2>1. /\ r.start = q.start /\ r.op = q.op /\ r.tag = q.tag
        /\ r.got = IF Matches(q, client[c]) THEN q.got \cup {c} ELSE q.got
    BY <1>1 DEF Reader
  <2>2. readers' \subseteq readers \cup {r}
    BY <1>11 DEF FetchKey, Step
  <2> HIDE DEF r
  <2>3. c \in Config
    BY <1>1 DEF Reader
  <2>4. ASSUME q.op = "check", Matches(q, client[c])
        PROVE  carried[c][q.tag] >= q.start
    <3>1. q.tag \in Tag /\ Carries(client[c], q.tag)
      BY <1>0, <2>4 DEF Found, Matches, Carries
    <3> QED BY <1>0, <1>1, <2>3, <3>1 DEF Recorded
  <2>5. q.op = "check" => \A d \in r.got : carried[d][q.tag] >= q.start
    BY <1>0, <2>1, <2>4 DEF Found
  <2>6. Found' /\ InFlight'
    BY <1>4, <2>1, <2>2, <2>5
  <2> QED BY <1>t, <1>3, <1>6, <1>11, <2>6 DEF IInv, FetchKey
<1> QED
  BY <1>7, <1>8, <1>9, <1>10, <1>11

LEMMA InitKeeps == Init => IInv
<1> SUFFICES ASSUME Init PROVE IInv
  OBVIOUS
<1>1. TypeOK
  BY InitType
<1>2. Epoch \in Nat /\ now = Epoch
  BY ClientAssumption DEF Init, Epoch
<1>3. Recorded
  BY <1>2 DEF Init, Recorded
<1>4. InFlight /\ Earned /\ Found /\ StaleClaimBounded
  BY DEF Init, InFlight, Earned, Found, StaleClaimBounded
<1> QED BY <1>1, <1>3, <1>4 DEF IInv

LEMMA NextKeeps == IInv /\ [Next]_vars => IInv'
<1> SUFFICES ASSUME IInv, [Next]_vars PROVE IInv'
  OBVIOUS
<1>0. /\ TypeOK /\ Recorded /\ InFlight /\ Earned /\ Found /\ StaleClaimBounded
      /\ now \in Nat /\ MaxFlight \in Nat
  BY ClientAssumption DEF IInv, TypeOK
<1>t. TypeOK'
  BY <1>0, NextType
<1>1. ASSUME NEW w, w.start = now, w.phase \in {"listing", "fetching"},
             writers' = writers \cup {w}, WritersOnly
      PROVE  IInv'
  <2>1. Earned' /\ InFlight'
    BY <1>0, <1>1 DEF Earned, InFlight, WritersOnly
  <2> QED BY <1>0, <1>t, <1>1, <2>1
          DEF IInv, WritersOnly, Recorded, Found, StaleClaimBounded
<1>2. ASSUME NEW id \in Req, NEW c \in Config, NEW t \in RawTag,
             NEW p \in Port \cup {NoPort}, StartUpsert(id, c, t, p)
      PROVE  IInv'
  BY <1>1, <1>2 DEF StartUpsert
<1>3. ASSUME NEW id \in Req, NEW c \in Config, StartDelete(id, c)
      PROVE  IInv'
  BY <1>1, <1>3 DEF StartDelete
<1>4. ASSUME NEW id \in Req, NEW op, NEW s, NEW t, StartRead(id, op, s, t),
             op = "check" => t \in Tag
      PROVE  IInv'
  <2> DEFINE q == [id |-> id, op |-> op, scope |-> s, tag |-> t, todo |-> {},
                   got |-> {}, full |-> FALSE, stable |-> {}, start |-> now,
                   phase |-> IF op = "check" THEN "owner" ELSE "listing"]
             r == [q EXCEPT !.stable = {c \in s : Matches(q, client[c])}]
  <2>1. r.start = now /\ r.op = op /\ r.tag = t /\ r.got = {}
    OBVIOUS
  <2>2. readers' = readers \cup {r} /\ StoreUnchanged
    BY <1>4 DEF StartRead
  <2> HIDE DEF r
  <2>3. Found' /\ InFlight'
    BY <1>0, <1>4, <2>1, <2>2 DEF Found, InFlight, StoreUnchanged
  <2> QED BY <1>0, <1>t, <2>2, <2>3
          DEF IInv, StoreUnchanged, Recorded, Earned, StaleClaimBounded
<1>5. CASE Serve
  BY <1>5, WriterKeeps, ReaderKeeps DEF Serve, Proceed
<1>6. CASE Tick
  <2>1. now + 1 \in Nat /\ now <= now + 1 /\ now' = now + 1 /\ Observe(now + 1)
    BY <1>0, <1>6 DEF Tick
  <2>2. /\ Recorded'
        /\ \A c \in Config, t \in Tag : carried[c][t] <= carried'[c][t]
    BY <1>0, <2>1, ObserveRecords
  <2>3. carried' \in [Config -> [Tag -> Nat]]
    BY <1>t DEF TypeOK
  <2>4. Found' /\ \A r \in readers' : \E q \in readers : r.start = q.start
    BY <1>0, <2>1, <2>2, <2>3, ObserveFound
  <2>5. Earned'
    <3>1. ASSUME NEW w \in writers,
                 w.phase \in {"claiming", "renewing", "reclaiming"}
          PROVE  Trim[w.raw] \in Tag /\ carried'[w.cfg][Trim[w.raw]] >= w.start
      <4>1. /\ w.cfg \in Config /\ w.start \in Nat /\ Trim[w.raw] \in Tag
            /\ carried[w.cfg][Trim[w.raw]] >= w.start
        BY <1>0, <3>1 DEF TypeOK, Writer, Earned
      <4>2. /\ carried[w.cfg][Trim[w.raw]] \in Nat
            /\ carried'[w.cfg][Trim[w.raw]] \in Nat
            /\ carried[w.cfg][Trim[w.raw]] <= carried'[w.cfg][Trim[w.raw]]
        BY <1>0, <2>2, <2>3, <4>1 DEF TypeOK
      <4> QED BY <4>1, <4>2
    <3> QED BY <1>6, <3>1 DEF Earned, Tick
  <2>6. InFlight'
    <3>1. ASSUME NEW q \in writers \cup readers
          PROVE  q.start <= now + 1 /\ now + 1 <= q.start + MaxFlight
      <4>1. q.start \in Nat
        BY <1>0 DEF TypeOK, Writer, Reader
      <4>2. q.start <= now /\ now - q.start < MaxFlight
        BY <1>0, <1>6 DEF InFlight, Tick
      <4> QED BY <1>0, <4>1, <4>2
    <3>2. writers' = writers
      BY <1>6 DEF Tick
    <3> QED BY <2>1, <2>4, <3>1, <3>2 DEF InFlight
  <2>7. StaleClaimBounded'
    <3>1. \A t \in Tag : claim'[t] = claim[t] \/ claim'[t] = NoClaim
      BY <1>6 DEF Tick
    <3> QED BY <1>0, <2>2, <2>3, <3>1, KeptBounded
  <2> QED BY <1>t, <2>2, <2>4, <2>5, <2>6, <2>7 DEF IInv
<1>7. CASE UNCHANGED vars
  BY <1>0, <1>t, <1>7
     DEF vars, IInv, Recorded, InFlight, Earned, Found, StaleClaimBounded
<1> QED
  BY <1>2, <1>3, <1>4, <1>5, <1>6, <1>7 DEF Next, Receive

(* A claim no longer backed by its owner's record is gone one TTL and one  *)
(* request after the owner last carried the tag, whatever interleaves or   *)
(* fails (clients.ts 264-288, tags.ts 90-97).                              *)
THEOREM StaleClaimIsBounded == Spec => []StaleClaimBounded
<1>1. IInv => StaleClaimBounded
  BY DEF IInv
<1> QED BY InitKeeps, NextKeeps, <1>1, PTL DEF Spec

-----------------------------------------------------------------------------
(* Reads.  What a reader should find has its key in the scope all along    *)
(* and, once the keys are listed, is either found or still to be fetched.  *)

Settled ==
  \A q \in readers :
    /\ \A c \in q.stable : c \in q.scope /\ Matches(q, client[c])
    /\ q.phase = "scanning" /\ q.full => q.stable \subseteq q.todo \cup q.got
    /\ q.phase = "owner" => q.op = "check"

SInv == TypeOK /\ Settled /\ CheckSeesSettled /\ ListComplete

LEMMA ObserveSettled ==
  ASSUME TypeOK, Settled, NEW time, Observe(time)
  PROVE  Settled'
<1> SUFFICES ASSUME NEW r \in readers'
             PROVE  /\ \A c \in r.stable : c \in r.scope /\ Matches(r, client'[c])
                    /\ r.phase = "scanning" /\ r.full =>
                         r.stable \subseteq r.todo \cup r.got
                    /\ r.phase = "owner" => r.op = "check"
  BY DEF Settled, Matches
<1>1. PICK q \in readers :
        r = [q EXCEPT !.stable = {c \in q.stable : Matches(q, client'[c])}]
  BY DEF Observe
<1>2. /\ r.stable = {c \in q.stable : Matches(q, client'[c])}
      /\ r.op = q.op /\ r.tag = q.tag /\ r.scope = q.scope
      /\ r.phase = q.phase /\ r.full = q.full /\ r.todo = q.todo /\ r.got = q.got
  BY <1>1 DEF TypeOK, Reader
<1> QED BY <1>2 DEF Settled, Matches

LEMMA QuietReads == ASSUME Silent PROVE CheckSeesSettled' /\ ListComplete'
BY DEF Silent, CheckSeesSettled, ListComplete

(* An answer: what the two properties ask of it.                           *)
LEMMA ReplySettled ==
  ASSUME NEW q, NEW free, Reply(q, free),
         q.op = "check" /\ free /\ q.full => q.stable = {},
         q.op # "check" /\ q.full => q.stable \subseteq q.got
  PROVE  CheckSeesSettled' /\ ListComplete'
<1> DEFINE a == [op |-> q.op, free |-> free, got |-> q.got, full |-> q.full,
                 stable |-> q.stable]
<1>1. /\ a.op = q.op /\ a.free = free /\ a.got = q.got /\ a.full = q.full
      /\ a.stable = q.stable
  OBVIOUS
<1>2. answer' = {a}
  BY DEF Reply
<1> HIDE DEF a
<1> QED BY <1>1, <1>2 DEF CheckSeesSettled, ListComplete

LEMMA ReaderSettled ==
  ASSUME SInv, NEW q \in readers,
         \/ CheckOwner(q) \/ ListKeys(q) \/ ReadFails(q) \/ Conclude(q)
         \/ \E c \in q.todo : FetchKey(q, c)
  PROVE  Settled' /\ CheckSeesSettled' /\ ListComplete'
<1>0. TypeOK /\ Settled /\ q \in Reader
  BY DEF SInv, TypeOK
<1>1. client' = client
  BY DEF CheckOwner, ListKeys, ReadFails, Conclude, FetchKey, StoreUnchanged
<1>2. ASSUME readers' \subseteq readers PROVE Settled'
  BY <1>0, <1>1, <1>2 DEF Settled, Matches
<1>3. ASSUME NEW r, r.op = q.op, r.tag = q.tag, r.scope = q.scope,
             r.stable = q.stable, r.phase # "owner",
             r.phase = "scanning" /\ r.full => r.stable \subseteq r.todo \cup r.got,
             Step(q, r)
      PROVE  Settled' /\ CheckSeesSettled' /\ ListComplete'
  <2>1. \A c \in r.stable : c \in r.scope /\ Matches(r, client'[c])
    BY <1>0, <1>1, <1>3 DEF Settled, Matches
  <2>2. readers' \subseteq readers \cup {r}
    BY <1>3 DEF Step
  <2>3. Settled'
    BY <1>0, <1>1, <1>3, <2>1, <2>2 DEF Settled, Matches
  <2> QED BY <1>3, <2>3, QuietReads DEF Step
<1>4. CASE CheckOwner(q)
  <2>1. CASE Reply(q, FALSE)
    <3>1. q.op = "check"
      BY <1>0, <1>4 DEF Settled, CheckOwner
    <3>2. readers' \subseteq readers
      BY <2>1 DEF Reply
    <3> QED BY <1>2, <2>1, <3>1, <3>2, ReplySettled
  <2>2. CASE Step(q, [q EXCEPT !.phase = "listing"])
    <3> DEFINE r == [q EXCEPT !.phase = "listing"]
    <3>1. /\ r.op = q.op /\ r.tag = q.tag /\ r.scope = q.scope
          /\ r.stable = q.stable /\ r.phase = "listing"
      BY <1>0 DEF Reader
    <3>2. Step(q, r)
      BY <2>2
    <3> HIDE DEF r
    <3> QED BY <1>3, <3>1, <3>2
  <2> QED BY <1>4, <2>1, <2>2 DEF CheckOwner
<1>5. CASE ListKeys(q)
  <2> DEFINE keys == Keys \cap q.scope
             want == {c \in keys : NeedsGet(q.op, c)}
             got  == IF q.op = "list" THEN keys \ want ELSE {}
  <2>1. PICK td : /\ td \in SUBSET want
                  /\ Step(q, [q EXCEPT !.phase = "scanning", !.todo = td,
                                       !.full = (td = want), !.got = got])
    BY <1>5 DEF ListKeys
  <2> DEFINE r == [q EXCEPT !.phase = "scanning", !.todo = td,
                            !.full = (td = want), !.got = got]
  <2>2. q.op # "list" => want = keys
    BY DEF NeedsGet
  <2>3. q.stable \subseteq keys
    BY <1>0 DEF Settled, Matches, Keys, Reader
  <2>4. keys \subseteq want \cup got
    BY <2>2
  <2>5. /\ r.op = q.op /\ r.tag = q.tag /\ r.scope = q.scope
        /\ r.stable = q.stable /\ r.phase = "scanning"
        /\ r.full = (td = want) /\ r.todo = td /\ r.got = got
    BY <1>0 DEF Reader
  <2>6. Step(q, r)
    BY <2>1
  <2> HIDE DEF r, want, got, keys
  <2>7. r.full => r.stable \subseteq r.todo \cup r.got
    BY <2>3, <2>4, <2>5
  <2> QED BY <1>3, <2>5, <2>6, <2>7
<1>6. CASE ReadFails(q)
  <2>1. readers' \subseteq readers
    BY <1>6 DEF ReadFails
  <2>2. ASSUME q.op = "check",
               answer' = {[op |-> q.op, free |-> TRUE, got |-> q.got, full |-> FALSE,
                           stable |-> q.stable]}
        PROVE  CheckSeesSettled' /\ ListComplete'
    BY <2>2 DEF CheckSeesSettled, ListComplete
  <2> QED BY <1>2, <1>6, <2>1, <2>2, QuietReads DEF ReadFails
<1>7. CASE Conclude(q)
  <2>1. q.full => q.stable \subseteq q.got
    BY <1>0, <1>7 DEF Settled, Conclude
  <2>2. PICK free \in BOOLEAN :
          Reply(q, free) /\ (free /\ q.op = "check" => q.got = {})
    BY <1>7 DEF Conclude
  <2>3. q.op = "check" /\ free /\ q.full => q.stable = {}
    BY <2>1, <2>2
  <2>4. readers' \subseteq readers
    BY <2>2 DEF Reply
  <2> QED BY <1>2, <2>1, <2>2, <2>3, <2>4, ReplySettled
<1>8. ASSUME NEW c \in q.todo, FetchKey(q, c)
      PROVE  Settled' /\ CheckSeesSettled' /\ ListComplete'
  <2> DEFINE r == [q EXCEPT !.todo = @ \ {c},
                     !.got = IF Matches(q, client[c]) THEN @ \cup {c} ELSE @]
  <2>1. /\ r.op = q.op /\ r.tag = q.tag /\ r.scope = q.scope
        /\ r.stable = q.stable /\ r.phase = q.phase /\ r.full = q.full
        /\ r.todo = q.todo \ {c}
        /\ r.got = IF Matches(q, client[c]) THEN q.got \cup {c} ELSE q.got
    BY <1>0 DEF Reader
  <2>2. Step(q, r) /\ q.phase = "scanning"
    BY <1>8 DEF FetchKey
  <2> HIDE DEF r
  <2>3. r.full => r.stable \subseteq r.todo \cup r.got
    BY <1>0, <2>1, <2>2 DEF Settled
  <2> QED BY <1>3, <2>1, <2>2, <2>3
<1> QED
  BY <1>4, <1>5, <1>6, <1>7, <1>8

LEMMA SettledKept == SInv /\ [Next]_vars => SInv'
<1> SUFFICES ASSUME SInv, [Next]_vars PROVE SInv'
  OBVIOUS
<1>0. TypeOK /\ Settled /\ TypeOK'
  BY NextType DEF SInv
<1>1. ASSUME UNCHANGED <<client, readers>> PROVE Settled'
  BY <1>0, <1>1 DEF Settled, Matches
<1>2. ASSUME Silent, UNCHANGED <<client, readers>> PROVE SInv'
  BY <1>0, <1>1, <1>2, QuietReads DEF SInv
<1>3. ASSUME Silent, NEW time, Observe(time) PROVE SInv'
  BY <1>0, <1>3, ObserveSettled, QuietReads DEF SInv
<1>4. ASSUME NEW q \in writers,
             \/ (ListSiblings(q) \/ ListFails(q)) \/ Store(q) \/ ClaimTag(q) \/ Renew(q)
             \/ Release(q) \/ DropClaim(q) \/ FetchDeleted(q)
             \/ DeleteRecord(q) \/ WriteFails(q)
      PROVE  SInv'
  BY <1>2, <1>3, <1>4 DEF ListSiblings, ListFails, Store, ClaimTag, Renew, Release, DropClaim,
     FetchDeleted, DeleteRecord, WriteFails, WritersOnly
<1>5. ASSUME NEW id \in Req, NEW op, NEW s, NEW t, StartRead(id, op, s, t)
      PROVE  SInv'
  <2> DEFINE q == [id |-> id, op |-> op, scope |-> s, tag |-> t, todo |-> {},
                   got |-> {}, full |-> FALSE, stable |-> {}, start |-> now,
                   phase |-> IF op = "check" THEN "owner" ELSE "listing"]
             st == {c \in s : Matches(q, client[c])}
             r == [q EXCEPT !.stable = st]
  <2>1. /\ r.op = op /\ r.tag = t /\ r.scope = s /\ r.full = FALSE
        /\ r.phase = (IF op = "check" THEN "owner" ELSE "listing")
        /\ r.stable = st /\ q.op = op /\ q.tag = t
    OBVIOUS
  <2>2. readers' = readers \cup {r} /\ Silent /\ client' = client
    BY <1>5 DEF StartRead, StoreUnchanged
  <2>3. \A c \in st : c \in s /\ Matches(q, client[c])
    OBVIOUS
  <2> HIDE DEF r, q, st
  <2>4. \A c \in r.stable : c \in r.scope /\ Matches(r, client'[c])
    BY <2>1, <2>2, <2>3 DEF Matches
  <2>5. Settled'
    BY <1>0, <2>1, <2>2, <2>4 DEF Settled, Matches
  <2> QED BY <1>0, <2>2, <2>5, QuietReads DEF SInv
<1>6. CASE Serve
  BY <1>0, <1>4, <1>6, ReaderSettled DEF Serve, Proceed, SInv
<1>7. CASE Tick
  BY <1>3, <1>7 DEF Tick
<1>8. CASE UNCHANGED vars
  BY <1>0, <1>1, <1>8 DEF vars, SInv, CheckSeesSettled, ListComplete
<1> QED
  BY <1>2, <1>5, <1>6, <1>7, <1>8 DEF Next, Receive, StartUpsert, StartDelete, WritersOnly

LEMMA SettledInv == Spec => []SInv
<1>1. Init => SInv
  BY InitType DEF Init, SInv, Settled, CheckSeesSettled, ListComplete
<1> QED BY <1>1, SettledKept, PTL DEF Spec

(* A check that scanned every record never frees a tag one config carried  *)
(* from its start to its end (tags.ts 66-107).                             *)
THEOREM CheckIsSound == Spec => []CheckSeesSettled
<1>1. SInv => CheckSeesSettled
  BY DEF SInv
<1> QED BY <1>1, SettledInv, PTL

(* A list answered 200 and not cut short holds every config that was there *)
(* throughout (clients.ts 110-187).                                        *)
THEOREM ListIsComplete == Spec => []ListComplete
<1>1. SInv => ListComplete
  BY DEF SInv
<1> QED BY <1>1, SettledInv, PTL

-----------------------------------------------------------------------------
(* ClientHistory: what overlapping requests know of each other.  It only   *)
(* remembers, so that what holds of ClientSync holds of it.                *)
THEOREM HistoryOnlyRecords == HistorySpec => Spec
<1>1. HistoryInit => Init
  BY DEF HistoryInit
<1>2. [HistoryNext]_historyVars => [Next]_vars
  BY DEF HistoryNext, historyVars, Next, Serve
<1> QED  BY <1>1, <1>2, PTL DEF HistorySpec, Spec

(* The inductive invariant.  No two requests have one identity; an upload  *)
(* between its list and its put, and a request between its look at a claim *)
(* and its write, either still see what is there or are noted as unaware.  *)
Unique(qs) == \A q, r \in qs : q.id = r.id => q = r

UniqueIds ==
  /\ Unique(writers) /\ Unique(readers)
  /\ \A q \in writers, r \in readers : q.id # r.id

SeesPorts(q) ==
  \A c \in Config \ {q.cfg} :
    (NodeOf[c] = NodeOf[q.cfg] /\ Meta(c)) => client[c].port # q.port

PortsWatched ==
  \A q \in writers :
    (q.phase = "storing" /\ q.port # NoPort) =>
      <<q.id, "port">> \in unaware \/ SeesPorts(q)

SeesClaim(q) ==
  /\ q.phase = "reclaiming" => HolderOf(Trim[q.raw]) \subseteq {q.cfg}
  /\ q.phase = "dropping" => HolderOf(q.prev) = {q.cfg}

ClaimsWatched ==
  /\ \A q \in writers : <<q.id, "claim">> \in unaware \/ SeesClaim(q)
  /\ \A q \in readers : (q.op = "check" /\ q.phase # "owner") =>
       <<q.id, "claim">> \in unaware \/ HolderOf(q.tag) = {}

HInv == TypeOK /\ UniqueIds /\ PortsWatched /\ ClaimsWatched /\ PortsDistinct

-----------------------------------------------------------------------------
(* A step replaces a request by one of the same identity, or ends it.      *)
LEMMA ReplaceUnique ==
  ASSUME NEW qs, NEW rs, Unique(qs), NEW q \in qs, NEW w, w.id = q.id,
         rs \subseteq (qs \ {q}) \cup {w}
  PROVE  Unique(rs) /\ \A r \in rs : \E s \in qs : r.id = s.id
BY DEF Unique

LEMMA SubsetUnique ==
  ASSUME NEW qs, NEW rs, Unique(qs), rs \subseteq qs
  PROVE  Unique(rs)
BY DEF Unique

LEMMA ObserveUnique ==
  ASSUME TypeOK, Unique(readers), NEW time, Observe(time)
  PROVE  Unique(readers') /\ \A r \in readers' : \E s \in readers : r.id = s.id
<1>1. ASSUME NEW r \in readers'
      PROVE  \E q \in readers :
               r = [q EXCEPT !.stable = {c \in @ : Matches(q, client'[c])}] /\ r.id = q.id
  BY DEF Observe, TypeOK, Reader
<1>2. ASSUME NEW r \in readers', NEW s \in readers', r.id = s.id
      PROVE  r = s
  <2>1. PICK p \in readers :
          r = [p EXCEPT !.stable = {c \in @ : Matches(p, client'[c])}] /\ r.id = p.id
    BY <1>1
  <2>2. PICK q \in readers :
          s = [q EXCEPT !.stable = {c \in @ : Matches(q, client'[c])}] /\ s.id = q.id
    BY <1>1
  <2>3. p = q
    BY <1>2, <2>1, <2>2 DEF Unique
  <2> QED  BY <2>1, <2>2, <2>3
<1> QED  BY <1>1, <1>2 DEF Unique

(* What a writer's step does to writers and readers.                       *)
LEMMA WriterShape ==
  ASSUME TypeOK, NEW q \in writers,
         \/ (ListSiblings(q) \/ ListFails(q)) \/ Store(q) \/ ClaimTag(q) \/ Renew(q)
         \/ Release(q) \/ DropClaim(q) \/ FetchDeleted(q) \/ DeleteRecord(q)
         \/ WriteFails(q)
  PROVE  /\ \E w : w.id = q.id /\ writers' \subseteq (writers \ {q}) \cup {w}
         /\ readers' = readers \/ Observe(now)
<1> DEFINE Shape == \E w : w.id = q.id /\ writers' \subseteq (writers \ {q}) \cup {w}
<1>1. q \in Writer
  BY DEF TypeOK
<1>2. ASSUME Finish(q) PROVE Shape
  BY <1>2 DEF Finish
<1>3. ASSUME NEW ph, Move(q, ph) PROVE Shape
  <2>1. [q EXCEPT !.phase = ph].id = q.id
    BY <1>1 DEF Writer
  <2> QED  BY <1>3, <2>1 DEF Move
<1>4. ASSUME NEW ph, NEW t,
             writers' = (writers \ {q}) \cup {[q EXCEPT !.phase = ph, !.prev = t]}
      PROVE  Shape
  <2>1. [q EXCEPT !.phase = ph, !.prev = t].id = q.id
    BY <1>1 DEF Writer
  <2> QED  BY <1>4, <2>1
<1> HIDE DEF Shape
<1>5. CASE ListSiblings(q) \/ ListFails(q)
  BY <1>2, <1>3, <1>4, <1>5 DEF Shape, ListSiblings, ListFails, WritersOnly
<1>6. CASE Store(q) \/ DeleteRecord(q)
  BY <1>2, <1>3, <1>6 DEF Shape, Store, DeleteRecord
<1>7. CASE ClaimTag(q) \/ DropClaim(q)
  BY <1>2, <1>3, <1>7 DEF Shape, ClaimTag, DropClaim
<1>8. CASE Renew(q) \/ Release(q) \/ FetchDeleted(q) \/ WriteFails(q)
  BY <1>2, <1>3, <1>4, <1>8 DEF Shape, Renew, Release, FetchDeleted, WriteFails, WritersOnly
<1> QED  BY <1>5, <1>6, <1>7, <1>8

(* And a reader's.                                                         *)
LEMMA ReaderShape ==
  ASSUME TypeOK, NEW q \in readers,
         \/ CheckOwner(q) \/ ListKeys(q) \/ ReadFails(q) \/ Conclude(q)
         \/ \E c \in q.todo : FetchKey(q, c)
  PROVE  /\ writers' = writers
         /\ \E w : /\ w.id = q.id /\ readers' \subseteq (readers \ {q}) \cup {w}
                   /\ (w \in readers' /\ w.op = "check" /\ w.phase # "owner") =>
                        /\ q.op = "check" /\ w.tag = q.tag
                        /\ \/ q.phase # "owner"
                           \/ UNCHANGED claim /\ claim[q.tag] = NoClaim
<1> DEFINE Shape ==
      \E w : /\ w.id = q.id /\ readers' \subseteq (readers \ {q}) \cup {w}
             /\ (w \in readers' /\ w.op = "check" /\ w.phase # "owner") =>
                  /\ q.op = "check" /\ w.tag = q.tag
                  /\ \/ q.phase # "owner"
                     \/ UNCHANGED claim /\ claim[q.tag] = NoClaim
<1>1. q \in Reader
  BY DEF TypeOK
<1>2. ASSUME readers' = readers \ {q} PROVE Shape
  BY <1>2
<1>3. ASSUME NEW w, Step(q, w), w.id = q.id, w.op = q.op, w.tag = q.tag,
             q.phase # "owner" \/ (UNCHANGED claim /\ claim[q.tag] = NoClaim)
      PROVE  Shape
  BY <1>3 DEF Step
<1> HIDE DEF Shape
<1>4. CASE CheckOwner(q)
  <2> DEFINE w == [q EXCEPT !.phase = "listing"]
  <2>1. w.id = q.id /\ w.op = q.op /\ w.tag = q.tag
    BY <1>1 DEF Reader
  <2>2. CASE Reply(q, FALSE)
    BY <1>2, <1>4, <2>2 DEF CheckOwner, Reply, StoreUnchanged
  <2>3. CASE claim[q.tag] = NoClaim /\ Step(q, w)
    <3> HIDE DEF w
    <3> QED  BY <1>3, <1>4, <2>1, <2>3 DEF Shape, CheckOwner, StoreUnchanged
  <2>4. StoreUnchanged
    BY <1>4 DEF CheckOwner
  <2> QED  BY <1>4, <2>2, <2>3, <2>4 DEF CheckOwner, Shape, StoreUnchanged
<1>5. CASE ListKeys(q)
  <2> DEFINE keys == Keys \cap q.scope
             want == {c \in keys : NeedsGet(q.op, c)}
             got  == IF q.op = "list" THEN keys \ want ELSE {}
  <2>1. PICK td : Step(q, [q EXCEPT !.phase = "scanning", !.todo = td,
                                    !.full = (td = want), !.got = got])
    BY <1>5 DEF ListKeys
  <2> DEFINE w == [q EXCEPT !.phase = "scanning", !.todo = td,
                            !.full = (td = want), !.got = got]
  <2>2. w.id = q.id /\ w.op = q.op /\ w.tag = q.tag
    BY <1>1 DEF Reader
  <2>3. Step(q, w)
    BY <2>1
  <2>4. writers' = writers /\ q.phase # "owner"
    BY <1>5 DEF ListKeys, StoreUnchanged
  <2> HIDE DEF w
  <2>5. Shape
    BY <1>3, <2>2, <2>3, <2>4
  <2> QED  BY <2>4, <2>5 DEF Shape
<1>6. CASE ReadFails(q)
  BY <1>2, <1>6 DEF ReadFails, StoreUnchanged, Shape
<1>7. CASE Conclude(q)
  BY <1>2, <1>7 DEF Conclude, Reply, Shape
<1>8. ASSUME NEW c \in q.todo, FetchKey(q, c)
      PROVE  Shape /\ writers' = writers
  <2> DEFINE w == [q EXCEPT !.todo = @ \ {c},
                     !.got = IF Matches(q, client[c]) THEN @ \cup {c} ELSE @]
  <2>1. w.id = q.id /\ w.op = q.op /\ w.tag = q.tag
    BY <1>1 DEF Reader
  <2>2. Step(q, w) /\ q.phase # "owner" /\ writers' = writers
    BY <1>8 DEF FetchKey, StoreUnchanged
  <2> HIDE DEF w
  <2> QED  BY <1>3, <2>1, <2>2
<1> QED  BY <1>4, <1>5, <1>6, <1>7, <1>8 DEF Shape

(* A request that is received has an identity of its own.                  *)
LEMMA ReceiveUnique ==
  ASSUME TypeOK, UniqueIds, Receive
  PROVE  UniqueIds'
<1>1. ASSUME NEW w, Free(w.id), writers' = writers \cup {w}, readers' = readers
      PROVE  UniqueIds'
  BY <1>1 DEF Free, UniqueIds, Unique
<1>2. ASSUME NEW r, Free(r.id), readers' = readers \cup {r}, writers' = writers
      PROVE  UniqueIds'
  BY <1>2 DEF Free, UniqueIds, Unique
<1>3. ASSUME NEW id \in Req, NEW c \in Config, NEW t \in RawTag,
             NEW p \in Port \cup {NoPort}, StartUpsert(id, c, t, p)
      PROVE  UniqueIds'
  <2> DEFINE w == [id |-> id, cfg |-> c, raw |-> t, port |-> p, prev |-> NoTag,
                   start |-> now, phase |-> "listing"]
  <2>1. w.id = id /\ writers' = writers \cup {w} /\ readers' = readers
    BY <1>3 DEF StartUpsert, WritersOnly
  <2> HIDE DEF w
  <2> QED  BY <1>1, <1>3, <2>1 DEF StartUpsert
<1>4. ASSUME NEW id \in Req, NEW c \in Config, StartDelete(id, c)
      PROVE  UniqueIds'
  <2> DEFINE w == [id |-> id, cfg |-> c, raw |-> NoTag, port |-> NoPort,
                   prev |-> NoTag, start |-> now, phase |-> "fetching"]
  <2>1. w.id = id /\ writers' = writers \cup {w} /\ readers' = readers
    BY <1>4 DEF StartDelete, WritersOnly
  <2> HIDE DEF w
  <2> QED  BY <1>1, <1>4, <2>1 DEF StartDelete
<1>5. ASSUME NEW id, NEW op, NEW s, NEW t, StartRead(id, op, s, t)
      PROVE  UniqueIds'
  <2> DEFINE q == [id |-> id, op |-> op, scope |-> s, tag |-> t, todo |-> {},
                   got |-> {}, full |-> FALSE, stable |-> {}, start |-> now,
                   phase |-> IF op = "check" THEN "owner" ELSE "listing"]
             r == [q EXCEPT !.stable = {c \in s : Matches(q, client[c])}]
  <2>1. r.id = id /\ readers' = readers \cup {r} /\ writers' = writers
    BY <1>5 DEF StartRead, StoreUnchanged
  <2> HIDE DEF r
  <2> QED  BY <1>2, <1>5, <2>1 DEF StartRead
<1> QED  BY <1>3, <1>4, <1>5 DEF Receive

LEMMA NextUnique == TypeOK /\ UniqueIds /\ [Next]_vars => UniqueIds'
<1> SUFFICES ASSUME TypeOK, UniqueIds, [Next]_vars
             PROVE  UniqueIds'
  OBVIOUS
<1>1. ASSUME NEW q \in writers,
             \/ (ListSiblings(q) \/ ListFails(q)) \/ Store(q) \/ ClaimTag(q) \/ Renew(q)
             \/ Release(q) \/ DropClaim(q) \/ FetchDeleted(q) \/ DeleteRecord(q)
             \/ WriteFails(q)
      PROVE  UniqueIds'
  <2>1. PICK w : w.id = q.id /\ writers' \subseteq (writers \ {q}) \cup {w}
    BY <1>1, WriterShape
  <2>2. Unique(writers') /\ \A r \in writers' : \E s \in writers : r.id = s.id
    BY <2>1, ReplaceUnique DEF UniqueIds
  <2>3. readers' = readers \/ Observe(now)
    BY <1>1, WriterShape
  <2>4. Unique(readers') /\ \A r \in readers' : \E s \in readers : r.id = s.id
    BY <2>3, ObserveUnique DEF UniqueIds
  <2> QED  BY <2>2, <2>4 DEF UniqueIds
<1>2. ASSUME NEW q \in readers,
             \/ CheckOwner(q) \/ ListKeys(q) \/ ReadFails(q) \/ Conclude(q)
             \/ \E c \in q.todo : FetchKey(q, c)
      PROVE  UniqueIds'
  <2>1. PICK w : w.id = q.id /\ readers' \subseteq (readers \ {q}) \cup {w}
    BY <1>2, ReaderShape
  <2>2. Unique(readers') /\ \A r \in readers' : \E s \in readers : r.id = s.id
    BY <2>1, ReplaceUnique DEF UniqueIds
  <2>3. writers' = writers
    BY <1>2, ReaderShape
  <2> QED  BY <2>2, <2>3 DEF UniqueIds
<1>3. CASE Tick
  <2>1. Unique(readers') /\ \A r \in readers' : \E s \in readers : r.id = s.id
    BY <1>3, ObserveUnique DEF UniqueIds, Tick
  <2> QED  BY <1>3, <2>1 DEF UniqueIds, Tick
<1>4. CASE UNCHANGED vars
  BY <1>4 DEF vars, UniqueIds, Unique
<1> QED  BY <1>1, <1>2, <1>3, <1>4, ReceiveUnique DEF Next, Serve, Proceed

-----------------------------------------------------------------------------
(* What unaware keeps of a request that stays where it is.                 *)
LEMMA NoticePort ==
  ASSUME NEW blind, Notice(blind), NEW q \in writers, q \in writers',
         q.phase = "storing", <<q.id, "port">> \in unaware \/ PortMissed(q)
  PROVE  <<q.id, "port">> \in unaware'
BY DEF Notice, Stays

LEMMA NoticeBlind ==
  ASSUME NEW blind, Notice(blind), NEW q \in blind, q.port # NoPort
  PROVE  <<q.id, "port">> \in unaware'
BY DEF Notice

LEMMA NoticeClaim ==
  ASSUME NEW blind, Notice(blind), NEW q \in writers \cup readers,
         NEW w \in writers' \cup readers', w.id = q.id,
         w.phase \in {"reclaiming", "dropping", "listing", "scanning"},
         <<q.id, "claim">> \in unaware \/ ClaimMissed(q)
  PROVE  <<q.id, "claim">> \in unaware'
BY DEF Notice, Stays

(* An upload that waits keeps seeing the ports, or is noted.               *)
LEMMA PortKept ==
  ASSUME NEW blind, Notice(blind), NEW q \in writers, q \in writers',
         q.phase = "storing", q.port # NoPort,
         <<q.id, "port">> \in unaware \/ SeesPorts(q)
  PROVE  <<q.id, "port">> \in unaware' \/ SeesPorts(q)'
<1>1. CASE <<q.id, "port">> \in unaware \/ PortMissed(q)
  BY <1>1, NoticePort
<1>2. CASE SeesPorts(q) /\ ~PortMissed(q)
  BY <1>2 DEF SeesPorts, PortMissed, Meta
<1> QED  BY <1>1, <1>2

(* A request that waits keeps seeing its claim, or is noted.               *)
LEMMA ClaimKept ==
  ASSUME NEW blind, Notice(blind), NEW q \in writers, q \in writers',
         <<q.id, "claim">> \in unaware \/ SeesClaim(q)
  PROVE  <<q.id, "claim">> \in unaware' \/ SeesClaim(q)'
<1>1. CASE q.phase \notin {"reclaiming", "dropping"}
  BY <1>1 DEF SeesClaim
<1>2. CASE /\ q.phase \in {"reclaiming", "dropping"}
           /\ <<q.id, "claim">> \in unaware \/ ClaimMissed(q)
  BY <1>2, NoticeClaim
<1>3. CASE /\ q.phase \in {"reclaiming", "dropping"}
           /\ SeesClaim(q) /\ ~ClaimMissed(q)
  BY <1>3 DEF SeesClaim, ClaimMissed, Changed, HolderOf
<1> QED  BY <1>1, <1>2, <1>3

(* A check under way keeps seeing no claim, or is noted.                   *)
LEMMA CheckKept ==
  ASSUME UniqueIds, NEW blind, Notice(blind), NEW q \in readers, NEW w \in readers',
         w.id = q.id, w.tag = q.tag, w.phase \in {"listing", "scanning"},
         q.op = "check", q.phase # "owner",
         <<q.id, "claim">> \in unaware \/ HolderOf(q.tag) = {}
  PROVE  <<w.id, "claim">> \in unaware' \/ HolderOf(w.tag)' = {}
<1>1. q \notin writers
  BY DEF UniqueIds
<1>2. CASE <<q.id, "claim">> \in unaware \/ Changed(q.tag)
  BY <1>1, <1>2, NoticeClaim DEF ClaimMissed
<1>3. CASE HolderOf(q.tag) = {} /\ ~Changed(q.tag)
  BY <1>3 DEF Changed, HolderOf
<1> QED  BY <1>2, <1>3

-----------------------------------------------------------------------------
(* A writer that is new where it is has just looked.                       *)
LEMMA MovedWriter ==
  ASSUME TypeOK, NEW q \in writers, NEW ph, Move(q, ph), NEW w \in writers', w \notin writers
  PROVE  /\ w.phase = ph /\ w.id = q.id /\ w.cfg = q.cfg /\ w.raw = q.raw
         /\ w.prev = q.prev /\ w.port = q.port
<1>1. q \in Writer
  BY DEF TypeOK
<1>2. w = [q EXCEPT !.phase = ph]
  BY DEF Move
<1> QED  BY <1>1, <1>2 DEF Writer

LEMMA NewWriter ==
  ASSUME TypeOK, Receive \/ Proceed \/ Tick, NEW w \in writers', w \notin writers
  PROVE  /\ (w.phase = "storing" /\ w.port # NoPort) => SeesPorts(w)'
         /\ SeesClaim(w)'
<1> DEFINE Fine == /\ (w.phase = "storing" /\ w.port # NoPort) => SeesPorts(w)'
                   /\ SeesClaim(w)'
<1>1. ASSUME w.phase \notin {"storing", "reclaiming", "dropping"} PROVE Fine
  BY <1>1 DEF SeesClaim
<1> HIDE DEF Fine
<1>2. ASSUME NEW q \in writers, NEW ph, Move(q, ph),
             ph \notin {"storing", "reclaiming", "dropping"}
      PROVE  Fine
  BY <1>1, <1>2, MovedWriter
<1>3. ASSUME NEW q, Finish(q) PROVE Fine
  BY <1>3 DEF Finish
<1>4. ASSUME NEW q \in writers, ListSiblings(q) PROVE Fine
  <2>1. /\ ~PortConflict(q) /\ UNCHANGED client
        /\ w = [q EXCEPT !.phase = "storing", !.prev = PrevTag(q.cfg)]
    BY <1>3, <1>4 DEF ListSiblings, WritersOnly, Finish
  <2>2. w.phase = "storing" /\ w.cfg = q.cfg /\ w.port = q.port
    BY <2>1 DEF TypeOK, Writer
  <2>3. w.port # NoPort => SeesPorts(w)'
    BY <2>1, <2>2 DEF PortConflict, Keys, Meta, SeesPorts
  <2> QED  BY <2>2, <2>3 DEF Fine, SeesClaim
<1>5. ASSUME NEW q \in writers, Renew(q) PROVE Fine
  <2>1. Move(q, "reclaiming") /\ HolderOf(Trim[q.raw]) \subseteq {q.cfg} /\ UNCHANGED claim
    BY <1>5 DEF Renew, Finish, WritersOnly
  <2>2. w.phase = "reclaiming" /\ w.cfg = q.cfg /\ w.raw = q.raw
    BY <2>1, MovedWriter
  <2> QED  BY <2>1, <2>2 DEF Fine, SeesClaim, HolderOf
<1>6. ASSUME NEW q \in writers, Release(q) PROVE Fine
  <2>1. Move(q, "dropping") /\ HolderOf(q.prev) = {q.cfg} /\ UNCHANGED claim
    BY <1>6 DEF Release, Finish, WritersOnly
  <2>2. w.phase = "dropping" /\ w.cfg = q.cfg /\ w.prev = q.prev
    BY <2>1, MovedWriter
  <2> QED  BY <2>1, <2>2 DEF Fine, SeesClaim, HolderOf
<1>7. ASSUME NEW q \in writers, FetchDeleted(q) PROVE Fine
  <2>1. w = [q EXCEPT !.phase = "deleting", !.prev = Trim[client[q.cfg].raw]]
    BY <1>7 DEF FetchDeleted, Finish
  <2>2. w.phase = "deleting"
    BY <2>1 DEF TypeOK, Writer
  <2> QED  BY <1>1, <2>2
<1>8. ASSUME NEW q \in writers,
             Store(q) \/ ClaimTag(q) \/ DropClaim(q) \/ DeleteRecord(q) \/ WriteFails(q)
      PROVE  Fine
  BY <1>2, <1>3, <1>8 DEF Store, ClaimTag, DropClaim, DeleteRecord, WriteFails
<1>9. ASSUME Receive PROVE Fine
  <2>1. ASSUME NEW id, NEW c, NEW t, NEW p, StartUpsert(id, c, t, p)
        PROVE  w.phase = "listing"
    BY <2>1 DEF StartUpsert
  <2>2. ASSUME NEW id, NEW c, StartDelete(id, c)
        PROVE  w.phase = "fetching"
    BY <2>2 DEF StartDelete
  <2>3. ASSUME NEW id, NEW op, NEW s, NEW t, StartRead(id, op, s, t)
        PROVE  FALSE
    BY <2>3 DEF StartRead, StoreUnchanged
  <2> QED  BY <1>1, <1>9, <2>1, <2>2, <2>3 DEF Receive
<1>10. ASSUME NEW q \in readers,
              \/ CheckOwner(q) \/ ListKeys(q) \/ ReadFails(q) \/ Conclude(q)
              \/ \E c \in q.todo : FetchKey(q, c)
       PROVE  Fine
  BY <1>10, ReaderShape
<1>11. ASSUME Tick PROVE Fine
  BY <1>11 DEF Tick
<1>12. Fine
  BY <1>4, <1>5, <1>6, <1>7, <1>8, <1>9, <1>10, <1>11 DEF Proceed
<1> QED  BY <1>12 DEF Fine

(* A check past its first look was so before, or has just seen no claim.   *)
LEMMA NewReader ==
  ASSUME TypeOK, [Next]_vars, NEW w \in readers', w.op = "check", w.phase # "owner"
  PROVE  \/ \E q \in readers : /\ q.id = w.id /\ q.op = "check" /\ q.tag = w.tag
                               /\ q.phase # "owner"
         \/ HolderOf(w.tag)' = {}
<1> DEFINE Fine == \/ \E q \in readers : /\ q.id = w.id /\ q.op = "check" /\ q.tag = w.tag
                                         /\ q.phase # "owner"
                   \/ HolderOf(w.tag)' = {}
<1>1. ASSUME w \in readers PROVE Fine
  BY <1>1
<1>2. ASSUME NEW time, Observe(time) PROVE Fine
  <2>1. PICK q \in readers :
          w = [q EXCEPT !.stable = {c \in q.stable : Matches(q, client'[c])}]
    BY <1>2 DEF Observe
  <2>2. w.id = q.id /\ w.op = q.op /\ w.tag = q.tag /\ w.phase = q.phase
    BY <2>1 DEF TypeOK, Reader
  <2> QED  BY <2>2
<1>3. ASSUME NEW q \in readers,
             \/ CheckOwner(q) \/ ListKeys(q) \/ ReadFails(q) \/ Conclude(q)
             \/ \E c \in q.todo : FetchKey(q, c)
      PROVE  Fine
  <2>1. PICK v : /\ v.id = q.id /\ readers' \subseteq (readers \ {q}) \cup {v}
                 /\ (v \in readers' /\ v.op = "check" /\ v.phase # "owner") =>
                      /\ q.op = "check" /\ v.tag = q.tag
                      /\ \/ q.phase # "owner"
                         \/ UNCHANGED claim /\ claim[q.tag] = NoClaim
    BY <1>3, ReaderShape
  <2>2. CASE w = v
    BY <2>1, <2>2 DEF HolderOf
  <2> QED  BY <1>1, <2>1, <2>2
<1> HIDE DEF Fine
<1>4. ASSUME NEW q \in writers,
             \/ (ListSiblings(q) \/ ListFails(q)) \/ Store(q) \/ ClaimTag(q) \/ Renew(q)
             \/ Release(q) \/ DropClaim(q) \/ FetchDeleted(q) \/ DeleteRecord(q)
             \/ WriteFails(q)
      PROVE  Fine
  BY <1>1, <1>2, <1>4, WriterShape
<1>5. ASSUME Receive PROVE Fine
  <2>1. ASSUME NEW id, NEW op, NEW s, NEW t, StartRead(id, op, s, t)
        PROVE  w \in readers
    <3> DEFINE q == [id |-> id, op |-> op, scope |-> s, tag |-> t, todo |-> {},
                     got |-> {}, full |-> FALSE, stable |-> {}, start |-> now,
                     phase |-> IF op = "check" THEN "owner" ELSE "listing"]
               r == [q EXCEPT !.stable = {c \in s : Matches(q, client[c])}]
    <3>1. readers' = readers \cup {r} /\ r.op = op
          /\ (op = "check" => r.phase = "owner")
      BY <2>1 DEF StartRead
    <3> HIDE DEF r
    <3> QED  BY <3>1
  <2> QED  BY <1>1, <1>5, <2>1 DEF Receive, StartUpsert, StartDelete, WritersOnly
<1>6. ASSUME Tick PROVE Fine
  BY <1>2, <1>6 DEF Tick
<1>7. ASSUME UNCHANGED vars PROVE Fine
  BY <1>1, <1>7 DEF vars
<1>8. Fine
  BY <1>3, <1>4, <1>5, <1>6, <1>7 DEF Next, Serve, Proceed
<1> QED  BY <1>8 DEF Fine

-----------------------------------------------------------------------------
(* A record of today appears, or changes, by the put of one upload only.   *)
LEMMA PutStep ==
  ASSUME TypeOK, UniqueIds, [Next]_vars, NEW c \in Config,
         client'[c] # client[c], Meta(c)'
  PROVE  \E q \in writers : /\ q \in Putting(c) /\ client'[c].port = q.port
                            /\ \A d \in Config \ {c} : client'[d] = client[d]
<1>1. ASSUME NEW q \in writers, Store(q)
      PROVE  /\ q \in Putting(q.cfg) /\ client'[q.cfg].port = q.port
             /\ \A d \in Config \ {q.cfg} : client'[d] = client[d]
  <2>1. q.cfg \in Config /\ client \in [Config -> Record]
    BY DEF TypeOK, Writer
  <2>2. ASSUME NEW w \in writers', w.id = q.id
        PROVE  w.phase # "storing"
    <3>1. ASSUME w \in writers
          PROVE  FALSE
      <4>1. w = q
        BY <2>2, <3>1 DEF UniqueIds, Unique
      <4>2. ASSUME NEW ph, ph # "storing", Move(q, ph)
            PROVE  FALSE
        <5>1. q = [q EXCEPT !.phase = ph] /\ q.phase = "storing"
          BY <1>1, <2>2, <4>1, <4>2 DEF Move, Store
        <5> QED  BY <4>2, <5>1 DEF TypeOK, Writer
      <4> QED  BY <1>1, <2>2, <4>1, <4>2 DEF Store, Finish
    <3>2. ASSUME NEW ph, ph # "storing", Move(q, ph)
          PROVE  w.phase # "storing"
      BY <2>2, <3>1, <3>2, MovedWriter
    <3> QED  BY <1>1, <2>2, <3>1, <3>2 DEF Store, Finish
  <2>3. ~Stays(q.id, {"storing"})
    <3>1. readers' \subseteq Reader
      BY NextType DEF TypeOK
    <3> QED  BY <2>2, <3>1 DEF Stays, Reader
  <2> QED  BY <1>1, <2>1, <2>3 DEF Store, Putting
<1>2. ASSUME NEW q \in writers, Store(q)
      PROVE  q.cfg = c
  BY <1>1, <1>2
<1>3. ASSUME NEW q \in writers, DeleteRecord(q)
      PROVE  FALSE
  BY <1>3 DEF DeleteRecord, Meta, TypeOK
<1>4. ASSUME Tick
      PROVE  FALSE
  BY <1>4 DEF Tick, Meta
<1>5. ASSUME NEW q \in writers,
             \/ (ListSiblings(q) \/ ListFails(q)) \/ ClaimTag(q) \/ Renew(q)
             \/ Release(q) \/ DropClaim(q) \/ FetchDeleted(q) \/ WriteFails(q)
      PROVE  FALSE
  BY <1>5 DEF ListSiblings, ListFails, ClaimTag, Renew, Release, DropClaim,
     FetchDeleted, WriteFails, WritersOnly
<1>6. ASSUME NEW q \in readers,
             \/ CheckOwner(q) \/ ListKeys(q) \/ ReadFails(q) \/ Conclude(q)
             \/ \E d \in q.todo : FetchKey(q, d)
      PROVE  FALSE
  BY <1>6 DEF CheckOwner, ListKeys, ReadFails, Conclude, FetchKey, StoreUnchanged
<1>7. ASSUME Receive
      PROVE  FALSE
  BY <1>7 DEF Receive, StartUpsert, StartDelete, StartRead, WritersOnly, StoreUnchanged
<1>8. ASSUME UNCHANGED vars
      PROVE  FALSE
  BY <1>8 DEF vars
<1> QED  BY <1>1, <1>2, <1>3, <1>4, <1>5, <1>6, <1>7, <1>8 DEF Next, Serve, Proceed

(* Of two records that newly share a port, the later was put by an upload  *)
(* that did not see the other.                                             *)
LEMMA ClashIsRushed ==
  ASSUME HInv, [Next]_vars, Rush, NEW c \in Config, NEW d \in Config, Clash(c, d)'
  PROVE  c \in rushed' \/ d \in rushed'
<1>1. ASSUME NEW a \in Config, NEW b \in Config, Clash(a, b)', client'[a] # client[a]
      PROVE  a \in rushed'
  <2>1. PICK q \in writers : /\ q \in Putting(a) /\ client'[a].port = q.port
                             /\ \A e \in Config \ {a} : client'[e] = client[e]
    BY <1>1, PutStep DEF HInv, Clash
  <2>2. q.phase = "storing" /\ q.cfg = a
    BY <2>1 DEF Putting
  <2>3. /\ q.port # NoPort /\ b \in Config \ {q.cfg} /\ NodeOf[b] = NodeOf[q.cfg]
        /\ Meta(b) /\ client[b].port = q.port
    BY <1>1, <2>1, <2>2 DEF Clash, Meta
  <2>4. <<q.id, "port">> \in unaware
    BY <2>2, <2>3 DEF HInv, PortsWatched, SeesPorts
  <2>5. \E p \in Putting(a) : <<p.id, "port">> \in unaware
    BY <2>1, <2>4
  <2>6. \E e \in Config : Clash(a, e)'
    BY <1>1
  <2> QED  BY <1>1, <2>1, <2>5, <2>6 DEF Rush
<1>2. Clash(d, c)'
  BY DEF Clash
<1>3. ASSUME client'[c] = client[c], client'[d] = client[d]
      PROVE  c \in rushed' \/ d \in rushed'
  <2>1. Clash(c, d)
    BY <1>3 DEF Clash, Meta
  <2>2. c \in rushed \/ d \in rushed
    BY <2>1 DEF HInv, PortsDistinct
  <2> QED  BY <1>2, <1>3, <2>2 DEF Rush
<1> QED  BY <1>1, <1>2, <1>3

LEMMA HistoryNextKeeps == HInv /\ [HistoryNext]_historyVars => HInv'
<1> SUFFICES ASSUME HInv, HistoryNext
             PROVE  HInv'
  <2>1. ASSUME HInv, UNCHANGED historyVars
        PROVE  HInv'
    <3>1. TypeOK' /\ UniqueIds' /\ PortsDistinct'
      BY <2>1 DEF HInv, historyVars, vars, TypeOK, UniqueIds, Unique, PortsDistinct,
         Clash, Meta
    <3>2. PortsWatched' /\ ClaimsWatched'
      BY <2>1 DEF HInv, historyVars, vars, PortsWatched, SeesPorts, Meta,
         ClaimsWatched, SeesClaim, HolderOf
    <3> QED  BY <3>1, <3>2 DEF HInv
  <2> QED  BY <2>1
<1>1. [Next]_vars /\ Rush
  BY DEF HistoryNext, Next, Serve
<1>2. TypeOK /\ UniqueIds /\ TypeOK' /\ UniqueIds'
  BY <1>1, NextType, NextUnique DEF HInv
<1>3. PICK blind :
        /\ Notice(blind)
        /\ \/ Receive \/ Proceed \/ Tick
           \/ \E q \in writers : ListFails(q) /\ blind = {q}
  BY DEF HistoryNext
<1>4. ASSUME NEW w \in writers', w \notin writers
      PROVE  /\ (w.phase = "storing" /\ w.port # NoPort) =>
                  <<w.id, "port">> \in unaware' \/ SeesPorts(w)'
             /\ SeesClaim(w)'
  <2>1. ASSUME NEW q \in writers, ListFails(q), blind = {q}
        PROVE  /\ w.port # NoPort => <<w.id, "port">> \in unaware'
               /\ SeesClaim(w)'
    <3>1. w.phase = "storing" /\ w.id = q.id /\ w.port = q.port
      BY <1>2, <1>4, <2>1, MovedWriter DEF ListFails
    <3> QED  BY <1>3, <2>1, <3>1, NoticeBlind DEF SeesClaim
  <2> QED  BY <1>2, <1>3, <1>4, <2>1, NewWriter
<1>5. PortsWatched'
  <2>1. ASSUME NEW q \in writers', q.phase = "storing", q.port # NoPort
        PROVE  <<q.id, "port">> \in unaware' \/ SeesPorts(q)'
    BY <1>3, <1>4, <2>1, PortKept DEF HInv, PortsWatched
  <2> QED  BY <2>1 DEF PortsWatched
<1>6. ClaimsWatched'
  <2>1. ASSUME NEW q \in writers'
        PROVE  <<q.id, "claim">> \in unaware' \/ SeesClaim(q)'
    BY <1>3, <1>4, <2>1, ClaimKept DEF HInv, ClaimsWatched
  <2>2. ASSUME NEW w \in readers', w.op = "check", w.phase # "owner"
        PROVE  <<w.id, "claim">> \in unaware' \/ HolderOf(w.tag)' = {}
    <3>1. w.phase \in {"listing", "scanning"}
      BY <1>2, <2>2 DEF TypeOK, Reader
    <3>2. ASSUME NEW q \in readers, q.id = w.id, q.op = "check", q.tag = w.tag,
                 q.phase # "owner"
          PROVE  <<w.id, "claim">> \in unaware' \/ HolderOf(w.tag)' = {}
      BY <1>2, <1>3, <3>1, <3>2, CheckKept DEF HInv, ClaimsWatched
    <3> QED  BY <1>1, <1>2, <2>2, <3>2, NewReader
  <2> QED  BY <2>1, <2>2 DEF ClaimsWatched
<1>7. PortsDistinct'
  BY <1>1, ClashIsRushed DEF PortsDistinct
<1> QED  BY <1>2, <1>5, <1>6, <1>7 DEF HInv

LEMMA HistoryInvariance == HistorySpec => []HInv
<1>1. HistoryInit => HInv
  <2> SUFFICES ASSUME HistoryInit
               PROVE  HInv
    OBVIOUS
  <2>1. Init /\ TypeOK /\ writers = {} /\ readers = {}
    BY InitType DEF HistoryInit, Init
  <2>2. \A c \in Config : ~Meta(c)
    BY <2>1 DEF Init, Meta
  <2> QED  BY <2>1, <2>2 DEF HInv, UniqueIds, Unique, PortsWatched, ClaimsWatched,
           PortsDistinct, Clash
<1> QED  BY <1>1, HistoryNextKeeps, PTL DEF HistorySpec

(* For any uploads, deletions, expiries and failures: two records share a  *)
(* port of a node only if one was put by an upload that could not have seen*)
(* the other (clients.ts:207-228).                                         *)
THEOREM PortsAreDistinct == HistorySpec => []PortsDistinct
<1>1. HInv => PortsDistinct
  BY DEF HInv
<1> QED  BY <1>1, HistoryInvariance, PTL

(* Who looked at a claim and still sees it takes it from nobody else.      *)
LEMMA ClaimStep ==
  ASSUME HInv, [HistoryNext]_historyVars, NEW t \in Tag, claim[t] # NoClaim, Changed(t),
         now' = now
  PROVE  \/ \E q \in writers \ writers' : q.cfg = claim[t].owner \/ q.phase = "claiming"
         \/ \E q \in (writers \ writers') \cup (readers \ readers') :
              <<q.id, "claim">> \in unaware
<1> DEFINE Goal ==
      \/ \E q \in writers \ writers' : q.cfg = claim[t].owner \/ q.phase = "claiming"
      \/ \E q \in (writers \ writers') \cup (readers \ readers') :
           <<q.id, "claim">> \in unaware
<1>1. [Next]_vars /\ TypeOK /\ HolderOf(t) = {claim[t].owner}
  BY DEF HistoryNext, historyVars, Next, Serve, HInv, HolderOf
<1>2. ASSUME UNCHANGED claim PROVE FALSE
  BY <1>2 DEF Changed, HolderOf
<1>3. ASSUME NEW q \in writers, NEW ph, ph # q.phase, Move(q, ph) PROVE q \notin writers'
  <2>1. [q EXCEPT !.phase = ph] # q
    BY <1>1, <1>3 DEF TypeOK, Writer
  <2> QED  BY <1>3, <2>1 DEF Move
<1>4. ASSUME NEW q \in writers, ClaimTag(q)
      PROVE  Goal
  <2>1. q \notin writers'
    BY <1>3, <1>4 DEF ClaimTag, Finish
  <2>2. CASE q.phase = "claiming"
    BY <2>1, <2>2
  <2>3. CASE q.phase = "reclaiming"
    <3>1. t = Trim[q.raw] /\ claim'[t].owner = q.cfg
      BY <1>1, <1>4 DEF ClaimTag, Changed, HolderOf, TypeOK
    <3>2. <<q.id, "claim">> \in unaware \/ claim[t].owner = q.cfg
      BY <1>1, <2>3, <3>1 DEF HInv, ClaimsWatched, SeesClaim
    <3> QED  BY <2>1, <3>2
  <2> QED  BY <1>4, <2>2, <2>3 DEF ClaimTag
<1>5. ASSUME NEW q \in writers, DropClaim(q)
      PROVE  Goal
  <2>1. q \notin writers' /\ q.phase = "dropping"
    BY <1>5 DEF DropClaim, Finish
  <2>2. t = q.prev
    BY <1>1, <1>5 DEF DropClaim, Changed, HolderOf, TypeOK
  <2>3. <<q.id, "claim">> \in unaware \/ claim[t].owner = q.cfg
    BY <1>1, <2>1, <2>2 DEF HInv, ClaimsWatched, SeesClaim
  <2> QED  BY <2>1, <2>3
<1>6. ASSUME NEW q \in readers, Conclude(q)
      PROVE  Goal
  <2>1. q \notin readers' /\ q.op = "check" /\ q.phase = "scanning"
    BY <1>2, <1>6 DEF Conclude, Reply
  <2>2. t = q.tag
    BY <1>1, <1>2, <1>6 DEF Conclude, Changed, HolderOf, TypeOK
  <2>3. <<q.id, "claim">> \in unaware
    BY <1>1, <2>1, <2>2 DEF HInv, ClaimsWatched
  <2> QED  BY <2>1, <2>3
<1>7. ASSUME NEW q \in writers,
             \/ (ListSiblings(q) \/ ListFails(q)) \/ Store(q) \/ Renew(q) \/ Release(q)
             \/ FetchDeleted(q) \/ DeleteRecord(q) \/ WriteFails(q)
      PROVE  FALSE
  BY <1>2, <1>7 DEF ListSiblings, ListFails, Store, Renew, Release, FetchDeleted,
     DeleteRecord, WriteFails, WritersOnly
<1>8. ASSUME NEW q \in readers,
             CheckOwner(q) \/ ListKeys(q) \/ ReadFails(q) \/ \E c \in q.todo : FetchKey(q, c)
      PROVE  FALSE
  BY <1>2, <1>8 DEF CheckOwner, ListKeys, ReadFails, FetchKey, StoreUnchanged
<1>9. ASSUME Receive \/ Tick \/ UNCHANGED vars
      PROVE  FALSE
  <2>1. now + 1 # now
    BY <1>1 DEF TypeOK
  <2> QED  BY <1>2, <1>9, <2>1 DEF Receive, StartUpsert, StartDelete, StartRead, WritersOnly,
           StoreUnchanged, Tick, vars
<1> HIDE DEF Goal
<1>10. Goal
  BY <1>1, <1>4, <1>5, <1>6, <1>7, <1>8, <1>9 DEF Next, Serve, Proceed
<1> QED  BY <1>10 DEF Goal

(* No renewal, release, delete or check takes a claim from another config  *)
(* unless the claim changed hands after it had looked (clients.ts:267-288, *)
(* 302-309, tags.ts:66-97).                                                *)
THEOREM ClaimsAreRespected == HistorySpec => ClaimsRespected
<1>1. HInv /\ [HistoryNext]_historyVars =>
        [\A t \in Tag : claim[t] # NoClaim /\ Changed(t) =>
           \/ now' # now
           \/ \E q \in writers \ writers' : q.cfg = claim[t].owner \/ q.phase = "claiming"
           \/ \E q \in (writers \ writers') \cup (readers \ readers') :
                <<q.id, "claim">> \in unaware]_historyVars
  BY ClaimStep
<1> QED  BY <1>1, HistoryInvariance, PTL DEF HistorySpec, ClaimsRespected
=============================================================================
