------------------------------ MODULE KVStore ------------------------------
(***************************************************************************)
(* What the routes expect of the KV binding CLIENT_CONFIGS: an entry is    *)
(* there until it is deleted or its time is up, to get and list alike, and *)
(* a list returns the keys of a prefix in order, a page at a time, each    *)
(* page beginning after its cursor and none but the last incomplete.       *)
(***************************************************************************)
EXTENDS KeyOrder

CONSTANTS
  Key, Value, Meta,
  Prefix,   \* the prefixes lists are asked for
  Never     \* stands for "no expiry"

VARIABLES
  store,    \* the entries there are now
  answer,   \* what the last step returned, if it did
  now

Init == store = {} /\ answer = {} /\ now = 0

Put(e) ==
  /\ e.until # Never => now < e.until
  /\ store' = {d \in store : d.key # e.key} \cup {e}
  /\ answer' = {}
  /\ UNCHANGED now

Delete(k) ==
  /\ store' = {d \in store : d.key # k}
  /\ answer' = {}
  /\ UNCHANGED now

Get(k) ==
  /\ answer' = {[get |-> k, values |-> {e.value : e \in {d \in store : d.key = k}}]}
  /\ UNCHANGED <<store, now>>

(* The entries of the prefix that come after the cursor.                   *)
Ahead(p, cursor) ==
  {e \in store : StartsWith(e.key, p) /\ Before(cursor, e.key)}

(* The page leaves no gap before an entry it holds.                        *)
List(p, cursor) ==
  \E page \in SUBSET Ahead(p, cursor), complete \in BOOLEAN :
    /\ answer' = {[list |-> p, after |-> cursor,
                   keys |-> {<<e.key, e.metadata>> : e \in page},
                   complete |-> complete]}
    /\ \A e \in page, d \in Ahead(p, cursor) : Before(d.key, e.key) => d \in page
    /\ (page = {} => complete) /\ (complete => page = Ahead(p, cursor))
    /\ UNCHANGED <<store, now>>

(* At the very tick it was given, an entry is gone.                        *)
Tick ==
  /\ now' = now + 1
  /\ store' = {e \in store : e.until = Never \/ now' < e.until}
  /\ answer' = {}

Next ==
  \/ \E e \in store' : Put(e)
  \/ \E k \in Key : Delete(k) \/ Get(k)
  \/ \E p \in Prefix, cursor \in Key \cup {<<>>} : List(p, cursor)
  \/ Tick

Spec == Init /\ [][Next]_<<store, answer, now>>
=============================================================================
