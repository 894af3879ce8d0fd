------------------------------ MODULE SqliteKv ------------------------------
(***************************************************************************)
(* The KV binding of a Node deployment: the table kv_store of the SQLite   *)
(* file (src/node/kv-sqlite.ts).  A row outlives its expiry until a list   *)
(* sweeps it.  Every method runs without an await, so it is one step; what *)
(* is not one step is a scan by a client, page after page, between which   *)
(* rows come, go and expire.                                               *)
(***************************************************************************)
EXTENDS KeyOrder, FiniteSets

CONSTANTS
  Key, Value, Meta,
  Prefix,            \* the prefixes lists are asked for
  Never,             \* NULL in expire_at
  TTL,               \* the expirationTtl that puts are given, in clock ticks
  DefaultListLimit,  \* DEFAULT_LIST_LIMIT
  Limit,             \* the limits that scans ask for
  Client,            \* clients that scan
  MaxTime,           \* bound: the clock stops here
  MaxWrites          \* bound: number of puts and deletes

ASSUME KvAssumption ==
  /\ IsFiniteSet(Key) /\ Prefix \subseteq Seq(0..(Top - 1))
  /\ Key \subseteq Seq(0..(Top - 1)) \ {<<>>}
  /\ Never \notin Nat /\ TTL \subseteq Nat
  /\ DefaultListLimit \in Nat \ {0} /\ Limit \subseteq Nat

VARIABLES
  kv_store,  \* the rows of the table
  now,       \* Date.now()
  answer,    \* what the last call returned, if it did
  writes,    \* puts and deletes so far (bound)
  scan       \* per client: the scan it is at, and what it has seen

kvVars == <<kv_store, now, answer, writes, scan>>

Row == [key : Key, value : Value, metadata : Meta, expire_at : Nat \cup {Never}]

(* got: the keys of the pages so far; again: some page repeated a key;     *)
(* steady: the keys of the prefix that were there all along.               *)
Scan == [prefix : Prefix \cup {<<>>}, cursor : Key \cup {<<>>}, got : SUBSET Key,
         steady : SUBSET Key, again : BOOLEAN,
         phase : {"idle", "scanning", "complete"}]

-----------------------------------------------------------------------------
Unexpired(rows, t) == {r \in rows : r.expire_at = Never \/ t < r.expire_at}

(* Mutation of Swept: the row that expires at this very tick is kept.      *)
SweptLate(rows) == {r \in rows : r.expire_at = Never \/ now <= r.expire_at}

(* The lazy sweep of a list.                                               *)
Swept(rows) == Unexpired(rows, now)

(* A scan's steady keys are those that stay.                               *)
Watch == scan' = [c \in Client |-> [scan[c] EXCEPT !.steady =
            @ \cap {r.key : r \in Unexpired(kv_store', now')}]]

Write == writes < MaxWrites /\ writes' = writes + 1

-----------------------------------------------------------------------------
(* Mutation of Put: the key is no primary key, and the old row stays.      *)
PutAgain(k, v, m, ttl) ==
  /\ ttl # Never => ttl > 0
  /\ Write
  /\ kv_store' = kv_store \cup
       {[key |-> k, value |-> v, metadata |-> m,
         expire_at |-> IF ttl = Never THEN Never ELSE now + ttl]}
  /\ answer' = {}
  /\ UNCHANGED now
  /\ Watch

(* The upsert replaces value, metadata and expiry together; a TTL that is  *)
(* not positive throws before anything is written.                         *)
Put(k, v, m, ttl) ==
  /\ ttl # Never => ttl > 0
  /\ Write
  /\ kv_store' = {r \in kv_store : r.key # k} \cup
       {[key |-> k, value |-> v, metadata |-> m,
         expire_at |-> IF ttl = Never THEN Never ELSE now + ttl]}
  /\ answer' = {}
  /\ UNCHANGED now
  /\ Watch

Delete(k) ==
  /\ Write
  /\ kv_store' = {r \in kv_store : r.key # k}
  /\ answer' = {}
  /\ UNCHANGED now
  /\ Watch

Found(k) == {r.value : r \in {d \in Unexpired(kv_store, now) : d.key = k}}

(* A row past its expiry reads as null.                                    *)
Get(k) ==
  /\ answer' = {[get |-> k, values |-> Found(k)]}
  /\ UNCHANGED kv_store

(* The rows in the range of the prefix, after the cursor if there is one.  *)
Ahead(rows, p, cursor) ==
  {r \in rows : InRange(r.key, p) /\ (cursor = <<>> \/ Before(cursor, r.key))}

Clamped(limit) ==
  LET low == IF limit < 1 THEN 1 ELSE limit
  IN  IF low < DefaultListLimit THEN low ELSE DefaultListLimit

(* ORDER BY key LIMIT n.                                                   *)
Pages(rows, n) ==
  {page \in SUBSET rows :
     /\ \A r \in page, d \in rows : Before(d.key, r.key) => d \in page
     /\ Cardinality(page) =
          IF Cardinality(rows) < n THEN Cardinality(rows) ELSE n}

(* The sweep, then the page.                                               *)
List(p, limit, cursor, page) ==
  /\ kv_store' = Swept(kv_store)
  /\ page \in Pages(Ahead(kv_store', p, cursor), Clamped(limit))
  /\ answer' = {[list |-> p, after |-> cursor,
                 keys |-> {<<r.key, r.metadata>> : r \in page},
                 complete |-> Cardinality(page) < Clamped(limit)]}

-----------------------------------------------------------------------------
(* A client scans: it asks for pages, each from where the last one ended,  *)
(* until one is complete.                                                  *)
StartScan(c, p) ==
  /\ scan[c].phase # "scanning"
  /\ scan' = [scan EXCEPT ![c] =
       [prefix |-> p, cursor |-> <<>>, got |-> {}, again |-> FALSE,
        steady |-> {r.key : r \in {d \in Unexpired(kv_store, now) :
                                     StartsWith(d.key, p)}},
        phase |-> "scanning"]]
  /\ UNCHANGED <<kv_store, now, answer, writes>>

(* Mutation of LastKey: the cursor is the first key of the page.           *)
FirstKey(page) ==
  CHOOSE k \in {r.key : r \in page} : \A r \in page : ~Before(r.key, k)

(* The cursor of the next page: the key of the last row of this one.       *)
LastKey(page) ==
  CHOOSE k \in {r.key : r \in page} : \A r \in page : ~Before(k, r.key)

NextPage(c, limit) ==
  LET s == scan[c] IN
  /\ s.phase = "scanning"
  /\ \E page \in SUBSET Swept(kv_store) :
       LET keys     == {r.key : r \in page}
           complete == Cardinality(page) < Clamped(limit)
       IN  /\ List(s.prefix, limit, s.cursor, page)
           /\ scan' = [scan EXCEPT ![c] =
                [s EXCEPT !.got = @ \cup keys,
                          !.again = @ \/ keys \cap s.got # {},
                          !.cursor = IF complete THEN @ ELSE LastKey(page),
                          !.phase = IF complete THEN "complete" ELSE @]]
  /\ UNCHANGED <<now, writes>>

Tick ==
  /\ now < MaxTime
  /\ now' = now + 1
  /\ answer' = {}
  /\ UNCHANGED <<kv_store, writes>>
  /\ Watch

KvInit ==
  /\ kv_store = {}
  /\ now = 0
  /\ answer = {}
  /\ writes = 0
  /\ scan = [c \in Client |->
               [prefix |-> <<>>, cursor |-> <<>>, got |-> {}, steady |-> {},
                again |-> FALSE, phase |-> "idle"]]

KvNext ==
  \/ \E k \in Key, v \in Value, m \in Meta, ttl \in TTL \cup {Never} :
       Put(k, v, m, ttl)
  \/ \E k \in Key : Delete(k) \/ (Get(k) /\ UNCHANGED <<now, writes, scan>>)
  \/ \E c \in Client, p \in Prefix : StartScan(c, p)
  \/ \E c \in Client, limit \in Limit : NextPage(c, limit)
  \/ Tick

KvSpec == KvInit /\ [][KvNext]_kvVars

-----------------------------------------------------------------------------
KvTypeOK ==
  /\ kv_store \subseteq Row
  /\ \A r, d \in kv_store : r.key = d.key => r = d
  /\ now \in Nat /\ writes \in Nat
  /\ scan \in [Client -> Scan]

(* The rows that count: what a KV holds that forgets in time.              *)
KV == INSTANCE KVStore WITH
  store <- {[key |-> r.key, value |-> r.value, metadata |-> r.metadata,
             until |-> r.expire_at] : r \in Unexpired(kv_store, now)}

(* The table behaves as the KV store it stands in for: an expired row is   *)
(* seen by neither get nor list, at the very tick of its expiry, swept or  *)
(* not; a page has no gap, begins after its cursor, and says complete only *)
(* when nothing follows (kv-sqlite.ts:1-12, 79-142).                       *)
KeepsKV == KV!Spec

(* A scan by cursor returns every key that was there from its first page   *)
(* to its last exactly once, whatever is put, deleted and expires between  *)
(* two pages (kv-sqlite.ts:66-72, 108-143).                                *)
ScanExact ==
  \A c \in Client : /\ ~scan[c].again
                    /\ scan[c].phase = "complete" => scan[c].steady \subseteq scan[c].got
=============================================================================
