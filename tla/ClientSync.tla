----------------------------- MODULE ClientSync -----------------------------
(***************************************************************************)
(* The store of client configs that panels synchronise through             *)
(* (src/routes/clients.ts) and the tag check (src/routes/tags.ts), over    *)
(* one KV namespace: a record per config, key client:{fingerprint}:{name}, *)
(* and a claim per tag, key tag:{tag}, naming the config that owns it.     *)
(* Both expire.  KV has no transactions: a request is a sequence of single *)
(* KV calls, each an await, and requests interleave between them.          *)
(*                                                                         *)
(* A config stands for its key.  Of a record the model keeps the tag as    *)
(* uploaded, the port, and whether metadata mirrors it: legacy records     *)
(* have none, so that the uploads of today neither see their tag nor their *)
(* port.  KV is taken to be linearizable, as the SQLite one is.            *)
(***************************************************************************)
EXTENDS Integers, FiniteSets

CONSTANTS
  Config, NodeOf,   \* the configs, and the node that owns each
  Tag, NoTag,       \* the tags a config may be uploaded with
  Trim,             \* what extractTag makes of each
  Port, NoPort,
  Legacy,           \* configs that start as legacy records
  Req,              \* identities of concurrently served requests
  Until,            \* bound: the last tick at which requests of each kind start
  Uploads,          \* bound: the pairs of a tag and a port that are uploaded
  KvFails,          \* whether KV calls may fail
  TTL,              \* CLIENT_CONFIG_TTL, in clock ticks
  ScanLimit,        \* FALLBACK_SCAN_LIMIT, MAX_KV_READS: gets in a request
  MaxFlight,        \* longest life of a request, in clock ticks
  MaxTime           \* bound: the clock stops here

RawTag == Tag \cup {NoTag}

ASSUME ClientAssumption ==
  /\ Legacy \subseteq Config
  /\ NoTag \notin Tag /\ NoPort \notin Port
  /\ Trim \in [RawTag -> RawTag] /\ Trim[NoTag] = NoTag
  /\ \A t \in RawTag : Trim[Trim[t]] = Trim[t]
  /\ KvFails \in BOOLEAN
  /\ TTL \in Nat \ {0} /\ ScanLimit \in Nat
  /\ MaxFlight \in Nat /\ MaxTime \in Nat

VARIABLES
  client,    \* the record of each config
  claim,     \* the owner of each tag
  writers,   \* PUT and DELETE requests being served
  readers,   \* GET requests being served
  answer,    \* what the last step answered to a reader, if it did
  now,
  carried    \* observer: when a config last carried a tag

vars == <<client, claim, writers, readers, answer, now, carried>>

-----------------------------------------------------------------------------
(* The clock starts late enough for a carried of 0 to mean "never".        *)
Epoch == TTL + MaxFlight + 1

Record == [raw : RawTag, port : Port \cup {NoPort}, meta : BOOLEAN, exp : Nat]
NoRecord == [raw |-> NoTag, port |-> NoPort, meta |-> FALSE, exp |-> 0]
Claim == [owner : Config, exp : Nat]
NoClaim == [exp |-> 0]

Writer == [id : Req, cfg : Config, raw : RawTag, port : Port \cup {NoPort},
           prev : RawTag, start : Nat,
           phase : {"listing", "storing", "claiming", "renewing", "reclaiming",
                    "fetching", "deleting", "releasing", "dropping"}]

(* got: the configs a list returns, or those found to carry the tag;       *)
(* stable: observer, the configs it should find, present ever since start. *)
Reader == [id : Req, op : {"check", "list", "pull"}, scope : SUBSET Config,
           tag : RawTag, todo : SUBSET Config, got : SUBSET Config,
           full : BOOLEAN, stable : SUBSET Config, start : Nat,
           phase : {"owner", "listing", "scanning"}]

Answer == [op : {"check", "list", "pull"}, free : BOOLEAN,
           got : SUBSET Config, full : BOOLEAN, stable : SUBSET Config]

Free(id) == \A q \in writers \cup readers : q.id # id
Keys == {c \in Config : client[c] # NoRecord}
HolderOf(t) == IF claim[t] = NoClaim THEN {} ELSE {claim[t].owner}
Silent == answer' = {}

(* metaOf, and the tag of the record as an upload sees it.                 *)
Meta(c) == client[c] # NoRecord /\ client[c].meta
PrevTag(c) == IF Meta(c) THEN Trim[client[c].raw] ELSE NoTag

Carries(r, t) == r # NoRecord /\ t \in {r.raw, Trim[r.raw]}
Matches(q, r) == r # NoRecord /\ (q.op = "check" => r.raw = q.tag)

(* The observers follow every change of the records.                       *)
Observe(time) ==
  /\ carried' = [c \in Config |-> [t \in Tag |->
       IF Carries(client'[c], t) THEN time ELSE carried[c][t]]]
  /\ readers' = {[q EXCEPT !.stable = {c \in @ : Matches(q, client'[c])}] :
                   q \in readers}

WritersOnly == Silent /\ UNCHANGED <<client, claim, readers, now, carried>>
StoreUnchanged == UNCHANGED <<client, claim, writers, now, carried>>

Move(q, ph) == writers' = (writers \ {q}) \cup {[q EXCEPT !.phase = ph]}
Finish(q) == writers' = writers \ {q}

-----------------------------------------------------------------------------
(* PUT /:fingerprint/:name.                                                *)

StartUpsert(id, c, t, p) ==
  /\ now <= Epoch + Until["put"] /\ <<t, p>> \in Uploads
  /\ Free(id)
  /\ writers' = writers \cup
       {[id |-> id, cfg |-> c, raw |-> t, port |-> p, prev |-> NoTag,
         start |-> now, phase |-> "listing"]}
  /\ WritersOnly

PortConflict(q) ==
  /\ q.port # NoPort
  /\ \E c \in Keys \ {q.cfg} :
       NodeOf[c] = NodeOf[q.cfg] /\ Meta(c) /\ client[c].port = q.port

(* Mutation of ListSiblings: the siblings' ports are not compared.         *)
ListSiblingsUnchecked(q) ==
  /\ q.phase = "listing"
  /\ writers' = (writers \ {q}) \cup
       {[q EXCEPT !.phase = "storing", !.prev = PrevTag(q.cfg)]}
  /\ WritersOnly

(* listClientKeys: one list gives the previous tag and the ports in use.   *)
ListSiblings(q) ==
  /\ q.phase = "listing"
  /\ \/ PortConflict(q) /\ Finish(q)
     \/ /\ ~PortConflict(q)
        /\ writers' = (writers \ {q}) \cup
             {[q EXCEPT !.phase = "storing", !.prev = PrevTag(q.cfg)]}
  /\ WritersOnly

(* It fails: the upload goes on knowing neither.                           *)
ListFails(q) ==
  /\ KvFails /\ q.phase = "listing"
  /\ Move(q, "storing")
  /\ WritersOnly

(* The put of the record; what is left to do follows from the two tags.    *)
Store(q) ==
  LET tag == Trim[q.raw]
  IN  /\ q.phase = "storing"
      /\ client' = [client EXCEPT ![q.cfg] =
           [raw |-> q.raw, port |-> q.port, meta |-> TRUE, exp |-> now + TTL]]
      /\ \/ tag # NoTag /\ tag # q.prev /\ Move(q, "claiming")
         \/ tag # NoTag /\ tag = q.prev /\ Move(q, "renewing")
         \/ tag = NoTag /\ q.prev # NoTag /\ Move(q, "releasing")
         \/ tag = NoTag /\ q.prev = NoTag /\ Finish(q)
      /\ Observe(now)
      /\ Silent
      /\ UNCHANGED <<claim, now>>

ClaimTag(q) ==
  /\ q.phase \in {"claiming", "reclaiming"}
  /\ claim' = [claim EXCEPT ![Trim[q.raw]] = [owner |-> q.cfg, exp |-> now + TTL]]
  /\ \/ q.prev \notin {NoTag, Trim[q.raw]} /\ Move(q, "releasing")
     \/ q.prev \in {NoTag, Trim[q.raw]} /\ Finish(q)
  /\ Silent
  /\ UNCHANGED <<client, readers, now, carried>>

(* Mutation of Renew: the claim is renewed whoever owns it.                *)
RenewAlways(q) ==
  /\ q.phase = "renewing"
  /\ Move(q, "reclaiming")
  /\ WritersOnly

(* The tag is kept: read the owner, put the claim again unless another     *)
(* config owns it.                                                         *)
Renew(q) ==
  /\ q.phase = "renewing"
  /\ \/ HolderOf(Trim[q.raw]) \subseteq {q.cfg} /\ Move(q, "reclaiming")
     \/ ~ (HolderOf(Trim[q.raw]) \subseteq {q.cfg}) /\ Finish(q)
  /\ WritersOnly

(* The previous tag, of a re-tagged or a deleted config: read the owner,   *)
(* delete the claim if it is this config's.                                *)
Release(q) ==
  /\ q.phase = "releasing"
  /\ \/ HolderOf(q.prev) = {q.cfg} /\ Move(q, "dropping")
     \/ HolderOf(q.prev) # {q.cfg} /\ Finish(q)
  /\ WritersOnly

(* Mutation of DropClaim: an empty owner is put instead of a delete.       *)
DropClaimByBlanking(q) ==
  /\ q.phase = "dropping"
  /\ claim' = [claim EXCEPT ![q.prev] = [owner |-> NoTag, exp |-> now + TTL]]
  /\ Finish(q)
  /\ Silent
  /\ UNCHANGED <<client, readers, now, carried>>

DropClaim(q) ==
  /\ q.phase = "dropping"
  /\ claim' = [claim EXCEPT ![q.prev] = NoClaim]
  /\ Finish(q)
  /\ Silent
  /\ UNCHANGED <<client, readers, now, carried>>

-----------------------------------------------------------------------------
(* DELETE /:fingerprint/:name.                                             *)

StartDelete(id, c) ==
  /\ now <= Epoch + Until["delete"] /\ Free(id)
  /\ writers' = writers \cup
       {[id |-> id, cfg |-> c, raw |-> NoTag, port |-> NoPort, prev |-> NoTag,
         start |-> now, phase |-> "fetching"]}
  /\ WritersOnly

FetchDeleted(q) ==
  /\ q.phase = "fetching"
  /\ \/ client[q.cfg] = NoRecord /\ Finish(q)
     \/ /\ client[q.cfg] # NoRecord
        /\ writers' = (writers \ {q}) \cup
             {[q EXCEPT !.phase = "deleting", !.prev = Trim[client[q.cfg].raw]]}
  /\ WritersOnly

DeleteRecord(q) ==
  /\ q.phase = "deleting"
  /\ client' = [client EXCEPT ![q.cfg] = NoRecord]
  /\ \/ q.prev # NoTag /\ Move(q, "releasing")
     \/ q.prev = NoTag /\ Finish(q)
  /\ Observe(now)
  /\ Silent
  /\ UNCHANGED <<claim, now>>

(* Any other KV call of a writer throws: 500, the rest is not done.        *)
WriteFails(q) ==
  /\ KvFails /\ q.phase # "listing"
  /\ Finish(q)
  /\ WritersOnly

-----------------------------------------------------------------------------
(* GET /, GET /:fingerprint and GET /tags/check.                           *)

StartRead(id, op, scope, t) ==
  /\ now <= Epoch + Until[op] /\ Free(id)
  /\ readers' = readers \cup
       {LET q == [id |-> id, op |-> op, scope |-> scope, tag |-> t, todo |-> {},
                  got |-> {}, full |-> FALSE, stable |-> {}, start |-> now,
                  phase |-> IF op = "check" THEN "owner" ELSE "listing"]
        IN  [q EXCEPT !.stable = {c \in scope : Matches(q, client[c])}]}
  /\ Silent
  /\ StoreUnchanged

Reply(q, free) ==
  /\ readers' = readers \ {q}
  /\ answer' = {[op |-> q.op, free |-> free, got |-> q.got, full |-> q.full,
                 stable |-> q.stable]}

Step(q, r) ==
  /\ readers' = (readers \ {q}) \cup {r}
  /\ Silent

(* Mutation of CheckOwner: a claim that is found is put again.             *)
CheckOwnerRenewing(q) ==
  /\ q.phase = "owner"
  /\ \/ /\ claim[q.tag] # NoClaim
        /\ Reply(q, FALSE)
        /\ claim' = [claim EXCEPT ![q.tag].exp = now + TTL]
     \/ /\ claim[q.tag] = NoClaim
        /\ Step(q, [q EXCEPT !.phase = "listing"])
        /\ UNCHANGED claim
  /\ UNCHANGED <<client, writers, now, carried>>

(* The check's first look: a claim, whoever owns it, makes the tag taken.  *)
CheckOwner(q) ==
  /\ q.phase = "owner"
  /\ \/ claim[q.tag] # NoClaim /\ Reply(q, FALSE)
     \/ claim[q.tag] = NoClaim /\ Step(q, [q EXCEPT !.phase = "listing"])
  /\ StoreUnchanged

(* Mutation of NeedsGet: the check trusts the mirrored metadata.           *)
NeedsGetLegacyOnly(op, c) == ~Meta(c) /\ op # "check"

(* GET / answers from the metadata, and gets the legacy records only.      *)
NeedsGet(op, c) == op = "list" => ~Meta(c)

ListKeys(q) ==
  LET keys == Keys \cap q.scope
      want == {c \in keys : NeedsGet(q.op, c)}
  IN  /\ q.phase = "listing"
      /\ \E todo \in SUBSET want :
           /\ \/ todo = want /\ Cardinality(want) <= ScanLimit
              \/ Cardinality(todo) = ScanLimit
           /\ Step(q, [q EXCEPT !.phase = "scanning", !.todo = todo,
                                !.full = (todo = want),
                                !.got = IF q.op = "list" THEN keys \ want ELSE {}])
      /\ StoreUnchanged

(* The gets run in parallel: each takes effect at a moment of its own.     *)
FetchKey(q, c) ==
  /\ q.phase = "scanning" /\ c \in q.todo
  /\ Step(q, [q EXCEPT !.todo = @ \ {c},
                       !.got = IF Matches(q, client[c]) THEN @ \cup {c} ELSE @])
  /\ StoreUnchanged

(* Mutation of ReadFails: a failing list looks like an empty one.          *)
ReadFailsEmpty(q) ==
  /\ KvFails /\ q.phase \in {"listing", "scanning"}
  /\ readers' = readers \ {q}
  /\ answer' = {[op |-> q.op, free |-> TRUE, got |-> {}, full |-> q.op # "check",
                 stable |-> q.stable]}
  /\ StoreUnchanged

(* A KV call fails: the lists answer 503 or 500, the check degrades to     *)
(* "available" once past its first look.                                   *)
ReadFails(q) ==
  /\ KvFails
  /\ readers' = readers \ {q}
  /\ \/ /\ q.op = "check" /\ q.phase # "owner"
        /\ answer' = {[op |-> q.op, free |-> TRUE, got |-> q.got, full |-> FALSE,
                       stable |-> q.stable]}
     \/ (q.op = "check" => q.phase = "owner") /\ Silent
  /\ StoreUnchanged

(* The check that found a config writes its claim, best-effort.            *)
Conclude(q) ==
  /\ q.phase = "scanning" /\ q.todo = {}
  /\ \/ /\ q.op = "check" /\ q.got # {}
        /\ Reply(q, FALSE)
        /\ \/ \E c \in q.got : claim' = [claim EXCEPT ![q.tag] =
                                           [owner |-> c, exp |-> now + TTL]]
           \/ KvFails /\ UNCHANGED claim
     \/ /\ q.op = "check" => q.got = {}
        /\ Reply(q, TRUE)
        /\ UNCHANGED claim
  /\ UNCHANGED <<client, writers, now, carried>>

-----------------------------------------------------------------------------
(* Time: KV drops what has expired; no request outlives MaxFlight.         *)
Tick ==
  /\ now < Epoch + MaxTime
  /\ \A q \in writers \cup readers : now - q.start < MaxFlight
  /\ now' = now + 1
  /\ client' = [c \in Config |->
       IF client[c].exp <= now + 1 THEN NoRecord ELSE client[c]]
  /\ claim' = [t \in Tag |->
       IF claim[t].exp <= now + 1 THEN NoClaim ELSE claim[t]]
  /\ Observe(now + 1)
  /\ Silent
  /\ UNCHANGED writers

(* Legacy records were stored before metadata and claims existed.          *)
Init ==
  /\ now = Epoch
  /\ client \in [Config -> {NoRecord} \cup
       [raw : Tag, port : {NoPort}, meta : {FALSE}, exp : {Epoch + TTL}]]
  /\ \A c \in Config : client[c] # NoRecord <=> c \in Legacy
  /\ claim = [t \in Tag |-> NoClaim]
  /\ writers = {} /\ readers = {} /\ answer = {}
  /\ carried = [c \in Config |-> [t \in Tag |->
       IF Carries(client[c], t) THEN Epoch ELSE 0]]

(* One KV call of a request being served.                                  *)
Proceed ==
  \/ \E q \in writers : \/ ListSiblings(q) \/ Store(q) \/ ClaimTag(q)
                        \/ Renew(q) \/ Release(q) \/ DropClaim(q)
                        \/ FetchDeleted(q) \/ DeleteRecord(q) \/ WriteFails(q)
  \/ \E q \in readers : \/ CheckOwner(q) \/ ListKeys(q) \/ ReadFails(q)
                        \/ Conclude(q) \/ \E c \in q.todo : FetchKey(q, c)

Serve == Proceed \/ \E q \in writers : ListFails(q)

Scopes == {{c \in Config : NodeOf[c] = n} : n \in {NodeOf[c] : c \in Config}}

Receive ==
  \/ \E id \in Req, c \in Config, t \in RawTag, p \in Port \cup {NoPort} :
       StartUpsert(id, c, t, p)
  \/ \E id \in Req, c \in Config : StartDelete(id, c)
  \/ \E id \in Req, t \in Tag : StartRead(id, "check", Config, t)
  \/ \E id \in Req, s \in Scopes \cup {Config} : StartRead(id, "list", s, NoTag)
  \/ \E id \in Req, s \in Scopes : StartRead(id, "pull", s, NoTag)

Next == Receive \/ Serve \/ Tick

Spec == Init /\ [][Next]_vars

(* A request that was received is served: the event loop runs it.          *)
FairSpec == Spec /\ WF_vars(Serve)

-----------------------------------------------------------------------------
(* Type invariant of the state above.                                      *)
TypeOK ==
  /\ client \in [Config -> Record]
  /\ claim \in [Tag -> Claim \cup {NoClaim}]
  /\ writers \subseteq Writer /\ readers \subseteq Reader
  /\ answer \subseteq Answer
  /\ now \in Nat
  /\ carried \in [Config -> [Tag -> Nat]]

(* However uploads, deletes, checks and failures interleave, a claim whose *)
(* owner does not carry the tag any more, or never had it released, is     *)
(* gone one TTL and one request after the owner last carried it: nothing   *)
(* renews it.  clients.ts 264-288, tags.ts 90-97.                          *)
StaleClaimBounded ==
  \A t \in Tag : claim[t] # NoClaim =>
    claim[t].exp <= carried[claim[t].owner][t] + TTL + MaxFlight

(* A check that could scan all records never calls free a tag that one     *)
(* config carried, so spelled, from its start to its end -- whatever       *)
(* became of the claim meanwhile.  tags.ts 66-107.                         *)
CheckSeesSettled ==
  \A a \in answer : a.op = "check" /\ a.free /\ a.full => a.stable = {}

(* A list that answers 200 and was not cut short holds every config that   *)
(* was there from its start to its end: panels reconcile against it and    *)
(* delete what it lacks.  clients.ts 119-121, 167-168.                     *)
ListComplete ==
  \A a \in answer : a.op # "check" /\ a.full => a.stable \subseteq a.got

(* Between requests every claim is backed: its owner has a record that     *)
(* carries the tag.  "so renames don't leave stale claims behind",         *)
(* clients.ts 261-263.                                                     *)
ClaimsBacked ==
  writers = {} => \A t \in Tag : claim[t] # NoClaim =>
                    Carries(client[claim[t].owner], t)
=============================================================================
