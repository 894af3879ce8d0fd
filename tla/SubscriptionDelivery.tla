------------------------ MODULE SubscriptionDelivery ------------------------
(***************************************************************************)
(* The delivery plane of chorus-cloud: GET /s/{path}?token={token}         *)
(* (src/routes/subscriptions.ts), the KV copy of the last delivery that    *)
(* stands in for D1 during an outage, and the admin operations that edit   *)
(* the subscriptions table underneath it.                                  *)
(*                                                                         *)
(* A request is a record in inflight; every await of the handler ends a    *)
(* step, so admin edits, other requests, failures of D1 and KV and the     *)
(* death of an isolate fall between any two of its steps.  Every D1 or KV  *)
(* call may fail: an outage is a run of failing calls.  The rendered       *)
(* document is abstracted to the subscription it was rendered for.         *)
(***************************************************************************)
EXTENDS Integers, FiniteSets, Sequences

CONSTANTS
  Sub,            \* subscription ids (random UUIDs: never used twice)
  Path,           \* delivery paths that are not reserved
  Token,          \* subscription tokens
  Isolate,        \* Worker isolates; the Node server is a single one
  Req,            \* identities of concurrently served requests
  NoSub,          \* stands for "no subscription"
  SubCacheTTL,    \* SUB_CACHE_TTL, in clock ticks
  WriteInterval,  \* SUB_CACHE_WRITE_INTERVAL_MS, in clock ticks
  MaxFlight,      \* longest life of a request, in clock ticks
  MaxTime,        \* bound: the clock stops here
  MaxEdits        \* bound: number of admin edits

ASSUME DeliveryAssumption ==
  /\ NoSub \notin Sub
  /\ SubCacheTTL \in Nat \ {0}
  /\ WriteInterval \in Nat \ {0}
  /\ MaxFlight \in Nat
  /\ MaxTime \in Nat
  /\ MaxEdits \in Nat

VARIABLES
  subs,             \* table subscriptions: a set of rows
  used,             \* ids ever inserted
  subcache,         \* KV entries under subcache:{path}
  subCacheWriteAt,  \* per isolate and path, when a write was last issued
  inflight,         \* requests being served
  answer,           \* the response the last step sent, if it sent one
  now,              \* Date.now()
  edits,            \* admin edits so far (bound)
  lastHeld,         \* observer: when a grant last held
  purged,           \* observer: what the 403 path's delete left behind
  writes            \* observer: per isolate and path, when its writes started

vars == <<subs, used, subcache, subCacheWriteAt, inflight, answer, now,
          edits, lastHeld, purged, writes>>

-----------------------------------------------------------------------------
Row == [id : Sub, path : Path, token : Token, active : BOOLEAN]

(* hashToken: SHA-256, taken to be injective.                              *)
HashToken(t) == [sha256 |-> t]

Entry == [path : Path, tokenHash : {HashToken(t) : t \in Token},
          active : BOOLEAN, config : Sub \cup {NoSub}, expireAt : Nat]

Phase == {"lookup", "limit", "instances", "render", "put", "stale", "purge"}

(* Phases of a request that has passed the token and active checks and is  *)
(* still on its way to the delivery cache.                                 *)
Delivering == {"limit", "instances", "render", "put"}

(* What D1 says of a path and a token: the code of the refusal, or the     *)
(* subscription it entitles to.                                            *)
Verdict == [code : {"SUB_NOT_FOUND", "AUTH_INVALID_TOKEN", "SUB_INACTIVE",
                    "OK"}, sub : Sub \cup {NoSub}]

Request == [id : Req, iso : Isolate, path : Path, token : Token,
            phase : Phase, sub : Sub \cup {NoSub}, start : Nat,
            seen : SUBSET Verdict]

Code == {"SUB_NOT_FOUND", "AUTH_INVALID_TOKEN", "SUB_INACTIVE", "OK",
         "RATE_LIMITED", "KV_UNAVAILABLE", "INSTANCES_MISSING",
         "OVERALL_RENDER_FAILED", "DB_UNAVAILABLE", "STALE"}

Answer == [code : Code, path : Path, token : Token,
           sub : Sub \cup {NoSub}, seen : SUBSET Verdict]

(* <<s, p, t>>: subscription s is active at path p under token t.          *)
Grant == Sub \X Path \X Token

Holds(rows, g) ==
  \E row \in rows : /\ row.id = g[1] /\ row.path = g[2] /\ row.token = g[3]
                    /\ row.active

ActiveAt(rows, p) == \E row \in rows : row.path = p /\ row.active

Verdicts(rows, p, t) ==
  {[code |-> "SUB_NOT_FOUND", sub |-> NoSub] :
      x \in {y \in {p} : \A row \in rows : row.path # p}}
  \cup {[code |-> "AUTH_INVALID_TOKEN", sub |-> NoSub] :
      row \in {r \in rows : r.path = p /\ r.token # t}}
  \cup {[code |-> "SUB_INACTIVE", sub |-> NoSub] :
      row \in {r \in rows : r.path = p /\ r.token = t /\ ~r.active}}
  \cup {[code |-> "OK", sub |-> row.id] :
      row \in {r \in rows : r.path = p /\ r.token = t /\ r.active}}

-----------------------------------------------------------------------------
(* Steps of a request.                                                     *)

Silent == answer' = {}

Reply(q, code, sub) ==
  answer' = {[code |-> code, path |-> q.path, token |-> q.token,
              sub |-> sub, seen |-> q.seen]}

Finish(q) == inflight' = inflight \ {q}

Goto(q, ph) == inflight' = (inflight \ {q}) \cup {[q EXCEPT !.phase = ph]}

Refuse(q, code) == Finish(q) /\ Reply(q, code, NoSub)

(* A request without a token is answered 401 before anything is read; it   *)
(* is not represented.                                                     *)
Receive(id, i, p, t) ==
  /\ \A q \in inflight : q.id # id
  /\ inflight' = inflight \cup
       {[id |-> id, iso |-> i, path |-> p, token |-> t, phase |-> "lookup",
         sub |-> NoSub, start |-> now,
         seen |-> Verdicts(subs, p, t)]}
  /\ Silent
  /\ UNCHANGED <<subs, used, subcache, subCacheWriteAt, now, edits, lastHeld,
                 purged, writes>>

(* Mutation of Lookup: the active flag is not consulted.                   *)
LookupIgnoringActive(q) ==
  /\ q.phase = "lookup"
  /\ \/ /\ \A row \in subs : row.path # q.path
        /\ Refuse(q, "SUB_NOT_FOUND")
     \/ \E row \in subs :
          /\ row.path = q.path
          /\ \/ row.token # q.token /\ Refuse(q, "AUTH_INVALID_TOKEN")
             \/ /\ row.token = q.token
                /\ inflight' = (inflight \ {q}) \cup
                     {[q EXCEPT !.phase = "limit", !.sub = row.id]}
                /\ Silent
  /\ UNCHANGED <<subs, used, subcache, subCacheWriteAt, now, edits, lastHeld,
                 purged, writes>>

(* The row is read and judged in one step: there is no await between the   *)
(* SELECT's answer and the checks.  The disabled branch answers 403 and    *)
(* leaves the cache delete to a detached promise (fireAndForget), which    *)
(* the slot carries on as phase "purge".                                   *)
Lookup(q) ==
  /\ q.phase = "lookup"
  /\ \/ /\ \A row \in subs : row.path # q.path
        /\ Refuse(q, "SUB_NOT_FOUND")
     \/ \E row \in subs :
          /\ row.path = q.path
          /\ \/ /\ row.token # q.token
                /\ Refuse(q, "AUTH_INVALID_TOKEN")
             \/ /\ row.token = q.token /\ ~row.active
                /\ Goto(q, "purge")
                /\ Reply(q, "SUB_INACTIVE", NoSub)
             \/ /\ row.token = q.token /\ row.active
                /\ inflight' = (inflight \ {q}) \cup
                     {[q EXCEPT !.phase = "limit", !.sub = row.id]}
                /\ Silent
  /\ UNCHANGED <<subs, used, subcache, subCacheWriteAt, now, edits, lastHeld,
                 purged, writes>>

(* The limiter's verdict is an input; an absent or failing one lets pass.  *)
CheckRate(q) ==
  /\ q.phase = "limit"
  /\ \/ Refuse(q, "RATE_LIMITED")
     \/ Goto(q, "instances") /\ Silent
  /\ UNCHANGED <<subs, used, subcache, subCacheWriteAt, now, edits, lastHeld,
                 purged, writes>>

(* Active instances from D1, else the panel's configurations from KV:      *)
(* found, failing (503) or none (500).                                     *)
ReadInstances(q) ==
  /\ q.phase = "instances"
  /\ \/ Goto(q, "render") /\ Silent
     \/ Refuse(q, "KV_UNAVAILABLE")
     \/ Refuse(q, "INSTANCES_MISSING")
  /\ UNCHANGED <<subs, used, subcache, subCacheWriteAt, now, edits, lastHeld,
                 purged, writes>>

(* An isolate's write for a path starts: the throttle lets it pass.  The   *)
(* observer notes the start.                                               *)
StartWrite(q) ==
  /\ now - subCacheWriteAt[q.iso][q.path] >= WriteInterval
  /\ writes' = [writes EXCEPT ![q.iso][q.path] = Append(@, now)]
  /\ Goto(q, "put")
  /\ Silent

(* Mutation of Render: the interval is not claimed before the write.       *)
RenderWithoutClaim(q) ==
  /\ q.phase = "render"
  /\ StartWrite(q)
  /\ UNCHANGED <<subs, used, subcache, subCacheWriteAt, now, edits, lastHeld,
                 purged>>

(* loadAll and the render; then, with no await in between, the throttle of *)
(* writeDeliveryCache, which claims its interval before the write starts.  *)
Render(q) ==
  /\ q.phase = "render"
  /\ \/ /\ StartWrite(q)
        /\ subCacheWriteAt' = [subCacheWriteAt EXCEPT ![q.iso][q.path] = now]
     \/ /\ now - subCacheWriteAt[q.iso][q.path] < WriteInterval
        /\ Finish(q)
        /\ Reply(q, "OK", q.sub)
        /\ UNCHANGED <<subCacheWriteAt, writes>>
     \/ /\ Refuse(q, "OVERALL_RENDER_FAILED")
        /\ UNCHANGED <<subCacheWriteAt, writes>>
  /\ UNCHANGED <<subs, used, subcache, now, edits, lastHeld, purged>>

(* Mutation of WriteDeliveryCache: the token is stored, not its hash.      *)
WriteTokenUnhashed(q) ==
  /\ q.phase = "put"
  /\ subcache' = {e \in subcache : e.path # q.path} \cup
       {[path |-> q.path, tokenHash |-> q.token, active |-> TRUE,
         config |-> q.sub, expireAt |-> now + SubCacheTTL]}
  /\ Finish(q)
  /\ Reply(q, "OK", q.sub)
  /\ UNCHANGED <<subs, used, subCacheWriteAt, now, edits, lastHeld, purged,
                 writes>>

(* Mutation of WriteDeliveryCache: no expirationTtl.                       *)
WriteWithoutTTL(q) ==
  /\ q.phase = "put"
  /\ subcache' = {e \in subcache : e.path # q.path} \cup
       {[path |-> q.path, tokenHash |-> HashToken(q.token), active |-> TRUE,
         config |-> q.sub, expireAt |-> MaxTime + 1]}
  /\ Finish(q)
  /\ Reply(q, "OK", q.sub)
  /\ UNCHANGED <<subs, used, subCacheWriteAt, now, edits, lastHeld, purged,
                 writes>>

(* The KV write lands, or fails and is swallowed; the delivery succeeds    *)
(* either way.  Only an active row gets this far, so active is TRUE.       *)
WriteDeliveryCache(q) ==
  /\ q.phase = "put"
  /\ \/ subcache' = {e \in subcache : e.path # q.path} \cup
          {[path |-> q.path, tokenHash |-> HashToken(q.token),
            active |-> TRUE, config |-> q.sub,
            expireAt |-> now + SubCacheTTL]}
     \/ UNCHANGED subcache
  /\ Finish(q)
  /\ Reply(q, "OK", q.sub)
  /\ UNCHANGED <<subs, used, subCacheWriteAt, now, edits, lastHeld, purged,
                 writes>>

(* Mutation of D1Fails: the handler retries from the lookup.               *)
D1FailsThenRetries(q) ==
  /\ q.phase \in {"lookup", "instances", "render"}
  /\ Goto(q, "lookup")
  /\ Silent
  /\ UNCHANGED <<subs, used, subcache, subCacheWriteAt, now, edits, lastHeld,
                 purged, writes>>

(* A D1 call of the request throws: the row lookup, the instance read or   *)
(* the template load.                                                      *)
D1Fails(q) ==
  /\ q.phase \in {"lookup", "instances", "render"}
  /\ Goto(q, "stale")
  /\ Silent
  /\ UNCHANGED <<subs, used, subcache, subCacheWriteAt, now, edits, lastHeld,
                 purged, writes>>

(* A cache entry that serveStaleDelivery accepts for a request.            *)
Usable(e, q) ==
  /\ e.path = q.path
  /\ now < e.expireAt
  /\ e.active
  /\ e.tokenHash = HashToken(q.token)

ServeStaleDelivery(q) ==
  /\ q.phase = "stale"
  /\ \/ \E e \in subcache : Usable(e, q) /\ Reply(q, "STALE", e.config)
     \/ /\ \A e \in subcache : ~Usable(e, q)
        /\ Reply(q, "DB_UNAVAILABLE", NoSub)
  /\ Finish(q)
  /\ UNCHANGED <<subs, used, subcache, subCacheWriteAt, now, edits, lastHeld,
                 purged, writes>>

(* KV is down as well.                                                     *)
StaleLookupFails(q) ==
  /\ q.phase = "stale"
  /\ Refuse(q, "DB_UNAVAILABLE")
  /\ UNCHANGED <<subs, used, subcache, subCacheWriteAt, now, edits, lastHeld,
                 purged, writes>>

(* Mutation of Purge: the delete names another key.                        *)
PurgeOtherKey(q) ==
  /\ q.phase = "purge"
  /\ Finish(q)
  /\ purged' = [purged EXCEPT ![q.path] =
       IF ActiveAt(subs, q.path) THEN @
       ELSE IF \E d \in inflight : d.path = q.path /\ d.phase \in Delivering
            THEN "racing" ELSE "quiet"]
  /\ Silent
  /\ UNCHANGED <<subs, used, subcache, subCacheWriteAt, now, edits, lastHeld, writes>>

(* The 403 path's detached delete lands.  The observer notes whether a     *)
(* delivery that read the row while it was active is still under way.      *)
Purge(q) ==
  /\ q.phase = "purge"
  /\ subcache' = {e \in subcache : e.path # q.path}
  /\ Finish(q)
  /\ purged' = [purged EXCEPT ![q.path] =
       IF ActiveAt(subs, q.path) THEN @
       ELSE IF \E d \in inflight : d.path = q.path /\ d.phase \in Delivering
            THEN "racing" ELSE "quiet"]
  /\ Silent
  /\ UNCHANGED <<subs, used, subCacheWriteAt, now, edits, lastHeld, writes>>

(* Mutation of PurgeFails: the delete is awaited and its failure answered. *)
PurgeFailsLoudly(q) ==
  /\ q.phase = "purge"
  /\ Refuse(q, "DB_UNAVAILABLE")
  /\ UNCHANGED <<subs, used, subcache, subCacheWriteAt, now, edits, lastHeld,
                 purged, writes>>

PurgeFails(q) ==
  /\ q.phase = "purge"
  /\ Finish(q)
  /\ Silent
  /\ UNCHANGED <<subs, used, subcache, subCacheWriteAt, now, edits, lastHeld,
                 purged, writes>>

-----------------------------------------------------------------------------
(* Admin edits of the table.  The handlers' SELECTs only choose between    *)
(* 404 and going on; each changes the table by one statement.              *)

(* Observers of an edit: grants that hold are stamped, requests in flight  *)
(* see the new verdict, a path with an active row is no longer purged.     *)
Observe ==
  /\ lastHeld' = [g \in Grant |-> IF Holds(subs', g) THEN now ELSE lastHeld[g]]
  /\ inflight' = {[q EXCEPT !.seen = @ \cup Verdicts(subs', q.path, q.token)] :
                    q \in inflight}
  /\ purged' = [p \in Path |-> IF ActiveAt(subs', p) THEN "no" ELSE purged[p]]
  /\ edits < MaxEdits
  /\ edits' = edits + 1
  /\ Silent
  /\ UNCHANGED <<subcache, subCacheWriteAt, now, writes>>

(* The UNIQUE columns: another row has the path or the token.              *)
Taken(s, p, t) ==
  \E row \in subs : row.id # s /\ (row.path = p \/ row.token = t)

CreateSubscription(s, p, t, a) ==
  /\ s \notin used
  /\ ~Taken(s, p, t)
  /\ subs' = subs \cup {[id |-> s, path |-> p, token |-> t, active |-> a]}
  /\ used' = used \cup {s}
  /\ Observe

(* PUT: any subset of path, token and active (a conflict answers 409).     *)
UpdateSubscription(row, p, t, a) ==
  /\ ~Taken(row.id, p, t)
  /\ subs' = (subs \ {row}) \cup
       {[id |-> row.id, path |-> p, token |-> t, active |-> a]}
  /\ subs' # subs
  /\ UNCHANGED used
  /\ Observe

(* DELETE does not touch the delivery cache.                               *)
DeleteSubscription(row) ==
  /\ subs' = subs \ {row}
  /\ UNCHANGED used
  /\ Observe

-----------------------------------------------------------------------------
(* The environment: time, KV expiry, isolates.                             *)

(* A request lives at most MaxFlight ticks.                                *)
Tick ==
  /\ now < MaxTime
  /\ \A q \in inflight : now < q.start + MaxFlight
  /\ now' = now + 1
  /\ subcache' = {e \in subcache : now' < e.expireAt}
  /\ lastHeld' = [g \in Grant |-> IF Holds(subs, g) THEN now' ELSE lastHeld[g]]
  /\ Silent
  /\ UNCHANGED <<subs, used, subCacheWriteAt, inflight, edits, purged,
                 writes>>

(* The isolate dies with its requests and its module-level maps; the       *)
(* observer starts over with the isolate's next life.                      *)
Restart(i) ==
  /\ inflight' = {q \in inflight : q.iso # i}
  /\ subCacheWriteAt' = [subCacheWriteAt EXCEPT ![i] = [p \in Path |-> 0]]
  /\ writes' = [writes EXCEPT ![i] = [p \in Path |-> << >>]]
  /\ Silent
  /\ UNCHANGED <<subs, used, subcache, now, edits, lastHeld, purged>>

-----------------------------------------------------------------------------
(* The clock starts a full interval after the epoch, so that "never        *)
(* written" (?? 0) does not throttle, as Date.now() makes sure in reality. *)
Init ==
  /\ subs = {}
  /\ used = {}
  /\ subcache = {}
  /\ subCacheWriteAt = [i \in Isolate |-> [p \in Path |-> 0]]
  /\ inflight = {}
  /\ answer = {}
  /\ now = WriteInterval
  /\ edits = 0
  /\ lastHeld = [g \in Grant |-> 0]
  /\ purged = [p \in Path |-> "no"]
  /\ writes = [i \in Isolate |-> [p \in Path |-> << >>]]

Serve(q) ==
  \/ Lookup(q) \/ CheckRate(q) \/ ReadInstances(q) \/ Render(q)
  \/ WriteDeliveryCache(q) \/ D1Fails(q) \/ ServeStaleDelivery(q)
  \/ StaleLookupFails(q) \/ Purge(q) \/ PurgeFails(q)

Admin ==
  \/ \E s \in Sub, p \in Path, t \in Token, a \in BOOLEAN :
       CreateSubscription(s, p, t, a)
  \/ \E row \in subs, p \in Path, t \in Token, a \in BOOLEAN :
       UpdateSubscription(row, p, t, a)
  \/ \E row \in subs : DeleteSubscription(row)

Next ==
  \/ \E id \in Req, i \in Isolate, p \in Path, t \in Token : Receive(id, i, p, t)
  \/ \E q \in inflight : Serve(q)
  \/ Admin
  \/ Tick
  \/ \E i \in Isolate : Restart(i)

Spec == Init /\ [][Next]_vars

(* Every promise the handler awaits settles; nothing makes clients poll,   *)
(* admins edit or isolates die.                                            *)
ServeRequest(id) == \E q \in inflight : q.id = id /\ Serve(q)

FairSpec == Spec /\ \A id \in Req : WF_vars(ServeRequest(id))

-----------------------------------------------------------------------------
(* Every variable keeps its shape.                                         *)
TypeOK ==
  /\ subs \subseteq Row
  /\ used \subseteq Sub
  /\ subcache \subseteq Entry
  /\ subCacheWriteAt \in [Isolate -> [Path -> Nat]]
  /\ inflight \subseteq Request
  /\ answer \subseteq Answer
  /\ now \in Nat
  /\ edits \in Nat
  /\ lastHeld \in [Grant -> Nat]
  /\ purged \in [Path -> {"no", "quiet", "racing"}]
  /\ writes \in [Isolate -> [Path -> Seq(Nat)]]

(* A fresh 200 and the refusals 404, 401 and 403 are what D1 would have    *)
(* said of this path and token at some moment while the request was being  *)
(* served, whatever renames, rotations and toggles happened meanwhile: a   *)
(* configuration never reaches a token that was not entitled to it during  *)
(* the request, under any interleaving with the admin handlers.            *)
AnswerLinearizable ==
  \A r \in answer :
    r.code \in {"SUB_NOT_FOUND", "AUTH_INVALID_TOKEN", "SUB_INACTIVE", "OK"}
      => [code |-> r.code, sub |-> r.sub] \in r.seen

(* A stale answer carries the configuration of a subscription that was     *)
(* active at this very path under this very token less than the cache TTL  *)
(* plus one request's lifetime ago: "staleness is bounded by the 24h KV    *)
(* TTL" (subscriptions.ts:43-44), including the request that was already   *)
(* rendering when the grant ended, and paths that changed hands.           *)
StaleBounded ==
  \A r \in answer : r.code = "STALE" =>
    /\ r.sub # NoSub
    /\ lastHeld[<<r.sub, r.path, r.token>>] > 0
    /\ now < lastHeld[<<r.sub, r.path, r.token>>] + SubCacheTTL + MaxFlight

(* The requests that still wait for an answer, and the answer without its  *)
(* observer, as a client sees them.                                        *)
Asked ==
  {[id |-> q.id, path |-> q.path, token |-> q.token, sub |-> q.sub] :
     q \in {r \in inflight : r.phase # "purge"}}

Said ==
  {[code |-> r.code, path |-> r.path, token |-> r.token, sub |-> r.sub] :
     r \in answer}

Promise == INSTANCE DeliveryPromise
             WITH asked <- Asked, answer <- Said, Staleness <- SubCacheTTL + MaxFlight

(* The handler, with its awaits, its isolates and its cache, answers as if *)
(* each request looked at D1 once, at one moment of its life: it is ruled  *)
(* on once and answered at most once, it hears of limits and instances only*)
(* if entitled, and an outage serves it what it was granted a bounded time *)
(* ago (subscriptions.ts:78-94, 143-264).                                  *)
DeliversAsPromised == Promise!Spec

(* Any two writes an isolate starts for a path in one life start at least  *)
(* an interval apart (subscriptions.ts:47-53, 64-66), whether they are     *)
(* still in flight or landed or failed long ago, however many deliveries   *)
(* overlap, and whatever else became of the path in between: the check and *)
(* the claim of the slot are one step, and the claim precedes the write.   *)
PutsSpaced ==
  \A i \in Isolate, p \in Path : \A m, n \in 1..Len(writes[i][p]) :
    m < n => writes[i][p][n] - writes[i][p][m] >= WriteInterval

(* Once the 403 path's delete has landed with no earlier delivery still    *)
(* under way, the path stays out of the cache until a row is active there  *)
(* again: no later poll, outage or edit elsewhere can bring it back.       *)
PurgedStaysEmpty ==
  \A p \in Path : purged[p] = "quiet" => \A e \in subcache : e.path # p

(* Every request is eventually answered, or dies with its isolate: no      *)
(* combination of failing D1 and KV calls leaves the handler stuck.        *)
RequestsAnswered ==
  \A id \in Req : (\E q \in inflight : q.id = id) ~>
                    ~(\E q \in inflight : q.id = id)

(* "A subscription disabled while D1 was healthy has its cache entry       *)
(* invalidated on the 403 path" (subscriptions.ts:42-43): once the delete  *)
(* of a 403 has landed, nothing is cached for the path while it has no     *)
(* active row.                                                             *)
DisabledNotCached ==
  \A p \in Path : purged[p] # "no" => \A e \in subcache : e.path # p
=============================================================================
