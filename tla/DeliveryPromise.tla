-------------------------- MODULE DeliveryPromise --------------------------
(***************************************************************************)
(* What the delivery of subscriptions promises, stated without phases,     *)
(* isolates or a cache: a request is ruled on once, by what D1 holds at one*)
(* moment between its arrival and its answer; it is answered at most once; *)
(* and what is served in an outage was granted to this path and token less *)
(* than Staleness ago.                                                     *)
(***************************************************************************)
EXTENDS Integers

CONSTANTS Sub, Path, Token, Req, NoSub,
          Staleness   \* how old a grant an outage may serve, in clock ticks

VARIABLES
  subs,      \* table subscriptions
  asked,     \* requests without an answer; sub: what they were entitled to
  answer,    \* what the last step answered, if it did
  now,
  lastHeld   \* when a grant <<subscription, path, token>> last held

-----------------------------------------------------------------------------
(* Ids, paths and tokens are unique columns.                               *)
Table(rows) ==
  \A r, s \in rows :
    (r.id = s.id \/ r.path = s.path \/ r.token = s.token) => r = s

Held(rows, time) ==
  [g \in Sub \X Path \X Token |->
     IF \E r \in rows : r.id = g[1] /\ r.path = g[2] /\ r.token = g[3] /\ r.active
     THEN time ELSE lastHeld[g]]

Answered(q, code, sub) ==
  /\ asked' = asked \ {q}
  /\ answer' = {[code |-> code, path |-> q.path, token |-> q.token, sub |-> sub]}
  /\ UNCHANGED <<subs, now, lastHeld>>

Init ==
  /\ subs = {} /\ asked = {} /\ answer = {} /\ now \in Nat
  /\ lastHeld = [g \in Sub \X Path \X Token |-> 0]

Ask(id, p, t) ==
  /\ \A q \in asked : q.id # id
  /\ asked' = asked \cup {[id |-> id, path |-> p, token |-> t, sub |-> NoSub]}
  /\ answer' = {}
  /\ UNCHANGED <<subs, now, lastHeld>>

(* D1 is looked at: it refuses the request, or entitles it.                *)
Refuse(q) ==
  /\ q.sub = NoSub
  /\ \/ /\ \A r \in subs : r.path # q.path
        /\ Answered(q, "SUB_NOT_FOUND", NoSub)
     \/ \E r \in subs :
          /\ r.path = q.path
          /\ \/ r.token # q.token /\ Answered(q, "AUTH_INVALID_TOKEN", NoSub)
             \/ /\ r.token = q.token /\ ~r.active
                /\ Answered(q, "SUB_INACTIVE", NoSub)

Entitle(q) ==
  /\ q.sub = NoSub
  /\ \E r \in subs :
       /\ r.path = q.path /\ r.token = q.token /\ r.active
       /\ asked' = (asked \ {q}) \cup {[q EXCEPT !.sub = r.id]}
  /\ answer' = {}
  /\ UNCHANGED <<subs, now, lastHeld>>

Deliver(q) == q.sub # NoSub /\ Answered(q, "OK", q.sub)

(* Limits and configuration are only spoken of to whoever is entitled.     *)
Decline(q) ==
  /\ q.sub # NoSub
  /\ \E code \in {"RATE_LIMITED", "KV_UNAVAILABLE", "INSTANCES_MISSING",
                  "OVERALL_RENDER_FAILED"} : Answered(q, code, NoSub)

Outage(q) ==
  \/ Answered(q, "DB_UNAVAILABLE", NoSub)
  \/ \E s \in Sub :
       /\ lastHeld[<<s, q.path, q.token>>] > 0
       /\ now < lastHeld[<<s, q.path, q.token>>] + Staleness
       /\ Answered(q, "STALE", s)

Edit ==
  /\ Table(subs')
  /\ lastHeld' = Held(subs', now)
  /\ answer' = {}
  /\ UNCHANGED <<asked, now>>

Tick ==
  /\ now' = now + 1
  /\ lastHeld' = Held(subs, now + 1)
  /\ answer' = {}
  /\ UNCHANGED <<subs, asked>>

(* Nobody is answered; requests die with their isolate.                    *)
Silence ==
  /\ asked' \subseteq asked
  /\ answer' = {}
  /\ UNCHANGED <<subs, now, lastHeld>>

Next ==
  \/ \E id \in Req, p \in Path, t \in Token : Ask(id, p, t)
  \/ \E q \in asked : Refuse(q) \/ Entitle(q) \/ Deliver(q) \/ Decline(q) \/ Outage(q)
  \/ Edit \/ Tick \/ Silence

Spec == Init /\ [][Next]_<<subs, asked, answer, now, lastHeld>>
=============================================================================
