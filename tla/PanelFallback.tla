--------------------------- MODULE PanelFallback ---------------------------
(***************************************************************************)
(* The configs a delivery takes from KV when D1 holds no instance          *)
(* (loadConfigsFromKv in src/routes/subscriptions.ts), over the KV table   *)
(* of a Node deployment.  The list and every get are awaited: uploads,     *)
(* deletions, expiries, other deliveries and failures of KV fall between   *)
(* them, and the cache kvConfigsCache is shared by all deliveries of an    *)
(* isolate.  Metadata is abstracted to whether a config is deployed and    *)
(* enabled, a record to its config or the lack of one.                     *)
(***************************************************************************)
EXTENDS SqliteKv

CONSTANTS
  ClientPrefix,  \* "client:"
  Scoped,        \* the keys of three segments or more
  Shown,         \* the metadata of configs deployed and not disabled
  Bare,          \* a record without a config
  Isolate,
  Req,           \* identities of concurrently served deliveries
  ConfigsTTL,    \* KV_CONFIGS_TTL_MS, in clock ticks
  MaxVisible,    \* the 40 that may be read
  MaxFlight      \* longest life of a request, in clock ticks

ASSUME PanelAssumption ==
  /\ ClientPrefix \in Prefix /\ Scoped \subseteq Key /\ Shown \subseteq Meta
  /\ ConfigsTTL \in Nat \ {0} /\ MaxVisible \in Nat \ {0} /\ MaxFlight \in Nat

VARIABLES
  kvConfigsCache,  \* per isolate: {} or the one cached load
  loads,           \* loads under way
  served           \* what the last step delivered, if it did

panelVars == <<kv_store, now, answer, writes, scan, kvConfigsCache, loads, served>>

-----------------------------------------------------------------------------
Config == Key \X (Value \ {Bare})

(* read: when the load listed the keys; at: the time stamp of the cache.   *)
Cached == [at : Nat, read : Nat, configs : SUBSET Config]

(* steady: the keys that had a shown config since the load began; cut: the *)
(* list was longer than what is read of it.                                *)
Loading == [id : Req, iso : Isolate, phase : {"list", "gets"}, start : Nat,
            read : Nat, todo : SUBSET Key, configs : SUBSET Config,
            steady : SUBSET Key, cut : BOOLEAN]

Served == [kind : {"cache", "fresh", "stale", "unavailable"},
           configs : SUBSET Config, read : Nat, steady : SUBSET Key,
           cut : BOOLEAN]

(* The keys under which a shown config can be read.                        *)
Configured(rows, t) ==
  {r.key : r \in {d \in Unexpired(rows, t) :
     /\ d.key \in Scoped /\ StartsWith(d.key, ClientPrefix)
     /\ d.metadata \in Shown /\ d.value # Bare}}

Follow(qs) == loads' = {[q EXCEPT !.steady = @ \cap Configured(kv_store', now')] :
                          q \in qs}

Silent == served' = {}

(* What a poll gets without a load.                                        *)
Deliver(kind, c) ==
  served' = {[kind |-> kind, configs |-> c.configs, read |-> c.read,
              steady |-> {}, cut |-> FALSE]}

(* Mutation of Fresh: the time stamp is not looked at.                     *)
FreshForever(i) == kvConfigsCache[i]

Fresh(i) == {c \in kvConfigsCache[i] : now - c.at < ConfigsTTL}

-----------------------------------------------------------------------------
(* loadConfigsFromKv: the cache, or a list.                                *)
Poll(id, i) ==
  /\ \A q \in loads : q.id # id
  /\ \/ \E c \in Fresh(i) : Deliver("cache", c) /\ UNCHANGED loads
     \/ /\ Fresh(i) = {}
        /\ loads' = loads \cup
             {[id |-> id, iso |-> i, phase |-> "list", start |-> now, read |-> now,
               todo |-> {}, configs |-> {}, steady |-> Configured(kv_store, now),
               cut |-> FALSE]}
        /\ Silent
  /\ UNCHANGED answer
  /\ UNCHANGED <<kv_store, now, writes, scan, kvConfigsCache>>

(* Of the keys listed, those that are delivered.                           *)
Eligible(page) == {r \in page : r.key \in Scoped /\ r.metadata \in Shown}

First(rows, n) == {r \in rows : Cardinality({d \in rows : Before(d.key, r.key)}) < n}

(* Mutation of Visible: cut to length before the hidden ones are left out. *)
VisibleOfFirst(page) == Eligible(First(page, MaxVisible))

Visible(page) == First(Eligible(page), MaxVisible)

(* The first page of the list, and no other.                               *)
ListKeys(q) ==
  /\ q.phase = "list"
  /\ \E page \in SUBSET Swept(kv_store) :
       /\ List(ClientPrefix, DefaultListLimit, <<>>, page)
       /\ UNCHANGED <<now, writes, scan, kvConfigsCache>>
       /\ Follow((loads \ {q}) \cup
            {[q EXCEPT !.phase = "gets", !.read = now,
                !.todo = {r.key : r \in Visible(page)},
                !.cut = \/ Cardinality(Eligible(page)) > MaxVisible
                        \/ Cardinality(page) >= DefaultListLimit]})
  /\ Silent

(* Mutation of GetConfig: a record without a config is delivered as one.   *)
GetConfigOrBare(q, k) ==
  /\ q.phase = "gets" /\ k \in q.todo
  /\ Get(k)
  /\ UNCHANGED <<now, writes, scan, kvConfigsCache>>
  /\ Follow((loads \ {q}) \cup
       {[q EXCEPT !.todo = @ \ {k},
                  !.configs = @ \cup {<<k, v>> : v \in Found(k)}]})
  /\ Silent

(* One of the parallel gets is answered: a key gone since is passed over,  *)
(* and so is a record without a config.                                    *)
GetConfig(q, k) ==
  /\ q.phase = "gets" /\ k \in q.todo
  /\ Get(k)
  /\ UNCHANGED <<now, writes, scan, kvConfigsCache>>
  /\ Follow((loads \ {q}) \cup
       {[q EXCEPT !.todo = @ \ {k},
                  !.configs = @ \cup {<<k, v>> : v \in Found(k) \ {Bare}}]})
  /\ Silent

(* All are answered: the cache is set, and stamped now.                    *)
FillConfigs(q) ==
  /\ q.phase = "gets" /\ q.todo = {}
  /\ kvConfigsCache' = [kvConfigsCache EXCEPT ![q.iso] =
       {[at |-> now, read |-> q.read, configs |-> q.configs]}]
  /\ loads' = loads \ {q}
  /\ served' = {[kind |-> "fresh", configs |-> q.configs, read |-> q.read,
                 steady |-> q.steady, cut |-> q.cut]}
  /\ UNCHANGED answer
  /\ UNCHANGED <<kv_store, now, writes, scan>>

(* The list, a get or the parsing throws: whatever the cache holds, however*)
(* old, or an error (503 KV_UNAVAILABLE).                                  *)
LoadFails(q) ==
  /\ loads' = loads \ {q}
  /\ \/ \E c \in kvConfigsCache[q.iso] : Deliver("stale", c)
     \/ /\ kvConfigsCache[q.iso] = {}
        /\ Deliver("unavailable", [configs |-> {}, read |-> q.read])
  /\ UNCHANGED answer
  /\ UNCHANGED <<kv_store, now, writes, scan, kvConfigsCache>>

(* Everybody else: uploads, deletions, scans, expiry.                      *)
Others ==
  /\ KvNext
  /\ now' # now => \A q \in loads : now < q.start + MaxFlight
  /\ UNCHANGED kvConfigsCache
  /\ Follow(loads)
  /\ Silent

Restart(i) ==
  /\ kvConfigsCache' = [kvConfigsCache EXCEPT ![i] = {}]
  /\ loads' = {q \in loads : q.iso # i}
  /\ UNCHANGED answer
  /\ Silent
  /\ UNCHANGED <<kv_store, now, writes, scan>>

Init ==
  /\ KvInit
  /\ kvConfigsCache = [i \in Isolate |-> {}]
  /\ loads = {}
  /\ served = {}

Next ==
  \/ \E id \in Req, i \in Isolate : Poll(id, i)
  \/ \E q \in loads : \/ ListKeys(q) \/ FillConfigs(q) \/ LoadFails(q)
                      \/ \E k \in Key : GetConfig(q, k)
  \/ Others
  \/ \E i \in Isolate : Restart(i)

Spec == Init /\ [][Next]_panelVars

-----------------------------------------------------------------------------
(* Every variable keeps its shape.                                         *)
TypeOK ==
  /\ KvTypeOK
  /\ kvConfigsCache \in [Isolate -> SUBSET Cached]
  /\ \A i \in Isolate : Cardinality(kvConfigsCache[i]) <= 1
  /\ loads \subseteq Loading
  /\ served \subseteq Served

(* What is delivered while KV answers was listed in KV less than a TTL and *)
(* one request's life ago, though loads of one isolate overlap, and a slow *)
(* one may put an older list, newly stamped, over a newer one              *)
(* (subscriptions.ts:12-22, 102-131).                                      *)
FallbackRecent ==
  \A r \in served : r.kind \in {"cache", "fresh"} =>
    now < r.read + ConfigsTTL + MaxFlight

(* A load delivers every config that was deployed and enabled from its     *)
(* start to its end, unless more were listed than it reads: none is lost   *)
(* for another that is hidden, bare, replaced or gone between the list and *)
(* the gets (subscriptions.ts:107-130).                                    *)
FallbackComplete ==
  \A r \in served : (r.kind = "fresh" /\ ~r.cut) =>
    r.steady \subseteq {c[1] : c \in r.configs}
=============================================================================
