--------------------------- MODULE SqliteKvProofs ---------------------------
(***************************************************************************)
(* What TLAPS proves of SqliteKv, and of PanelFallback over it, for every  *)
(* value of their constants: that the table keeps its shape and implements *)
(* KVStore, that scans are exact, and that deliveries from KV are recent   *)
(* and complete.  The order of keys and the range scan come first; the     *)
(* rest is by steps.                                                       *)
(***************************************************************************)
EXTENDS PanelFallback, TLAPS, FiniteSetTheorems, WellFoundedInduction

(* A set of numbers has a least one.                                       *)
LEMMA MinNat ==
  ASSUME NEW T, T \subseteq Nat, T # {}
  PROVE  \E x \in T : \A y \in T : x <= y
<1>1. PICK x \in T : \A y \in T : ~(<<y, x>> \in OpToRel(<, Nat))
  BY NatLessThanWellFounded, WFMin
<1>2. \A y \in T : ~(y < x)
  BY <1>1 DEF OpToRel
<1> QED  BY <1>2

(* The order of keys is irreflexive, transitive and total.                 *)
LEMMA BeforeIrreflexive ==
  ASSUME NEW a \in Seq(Nat)
  PROVE  ~Before(a, a)
BY DEF Before

LEMMA BeforeTransitive ==
  ASSUME NEW a \in Seq(Nat), NEW b \in Seq(Nat), NEW c \in Seq(Nat),
         Before(a, b), Before(b, c)
  PROVE  Before(a, c)
<1>1. PICK i \in 1..Len(b) : /\ i <= Len(a) + 1
                             /\ \A j \in 1..(i - 1) : a[j] = b[j]
                             /\ i = Len(a) + 1 \/ a[i] < b[i]
  BY DEF Before
<1>2. PICK k \in 1..Len(c) : /\ k <= Len(b) + 1
                             /\ \A j \in 1..(k - 1) : b[j] = c[j]
                             /\ k = Len(b) + 1 \/ b[k] < c[k]
  BY DEF Before
<1>3. /\ Len(a) \in Nat /\ Len(b) \in Nat /\ Len(c) \in Nat
      /\ \A j \in 1..Len(a) : a[j] \in Nat
      /\ \A j \in 1..Len(b) : b[j] \in Nat
      /\ \A j \in 1..Len(c) : c[j] \in Nat
  OBVIOUS
<1>4. /\ i \in Nat /\ 1 <= i /\ i <= Len(b) /\ i <= Len(a) + 1
      /\ k \in Nat /\ 1 <= k /\ k <= Len(c) /\ k <= Len(b) + 1
  BY <1>1, <1>2, <1>3
<1>5. CASE i < k
  <2>1. \A j \in 1..(i - 1) : a[j] = c[j]
    BY <1>1, <1>2, <1>4, <1>5
  <2>2. b[i] = c[i]
    BY <1>2, <1>4, <1>5
  <2>3. i \in 1..Len(c)
    BY <1>3, <1>4, <1>5
  <2>4. i = Len(a) + 1 \/ a[i] < c[i]
    BY <1>1, <2>2
  <2> QED  BY <1>4, <2>1, <2>3, <2>4 DEF Before
<1>6. CASE i = k
  <2>1. \A j \in 1..(i - 1) : a[j] = c[j]
    BY <1>1, <1>2, <1>6
  <2>2. i \in 1..Len(c) /\ b[i] < c[i]
    BY <1>2, <1>3, <1>4, <1>6
  <2>3. i = Len(a) + 1 \/ a[i] < c[i]
    <3>1. CASE i = Len(a) + 1
      BY <3>1
    <3>2. CASE i # Len(a) + 1
      <4>1. i \in 1..Len(a) /\ i \in 1..Len(b) /\ i \in 1..Len(c)
        BY <1>3, <1>4, <2>2, <3>2
      <4>2. a[i] < b[i]
        BY <1>1, <3>2
      <4>3. a[i] \in Nat /\ b[i] \in Nat /\ c[i] \in Nat
        BY <1>3, <4>1
      <4> QED  BY <2>2, <4>2, <4>3
    <3> QED  BY <3>1, <3>2
  <2> QED  BY <1>4, <2>1, <2>2, <2>3 DEF Before
<1>7. CASE k < i
  <2>1. \A j \in 1..(k - 1) : a[j] = c[j]
    BY <1>1, <1>2, <1>4, <1>7
  <2>2. a[k] = b[k]
    BY <1>1, <1>4, <1>7
  <2>3. k \in 1..Len(c) /\ k <= Len(a) + 1
    BY <1>3, <1>4, <1>7
  <2>4. k # Len(b) + 1
    BY <1>3, <1>4, <1>7
  <2>5. a[k] < c[k]
    BY <1>2, <2>2, <2>4
  <2> QED  BY <2>1, <2>3, <2>5 DEF Before
<1> QED  BY <1>4, <1>5, <1>6, <1>7

LEMMA BeforeTotal ==
  ASSUME NEW a \in Seq(Nat), NEW b \in Seq(Nat)
  PROVE  a = b \/ Before(a, b) \/ Before(b, a)
<1> DEFINE D == {i \in 1..Len(a) : i > Len(b) \/ a[i] # b[i]}
<1>5. /\ Len(a) \in Nat /\ Len(b) \in Nat
      /\ \A j \in 1..Len(a) : a[j] \in Nat
      /\ \A j \in 1..Len(b) : b[j] \in Nat
  OBVIOUS
<1>1. CASE D = {}
  <2>1. \A j \in 1..Len(a) : j <= Len(b) /\ a[j] = b[j]
    BY <1>1, <1>5
  <2>2. Len(a) <= Len(b)
    <3>1. CASE Len(a) = 0
      BY <1>5, <3>1
    <3>2. CASE Len(a) # 0
      BY <1>5, <2>1, <3>2
    <3> QED  BY <3>1, <3>2
  <2>3. CASE Len(a) = Len(b)
    <3>1. DOMAIN a = DOMAIN b
      BY <2>3
    <3> QED  BY <2>1, <2>3
  <2>4. CASE Len(a) < Len(b)
    <3> DEFINE i == Len(a) + 1
    <3>1. i \in 1..Len(b) /\ i <= Len(a) + 1 /\ i = Len(a) + 1
      BY <1>5, <2>4
    <3>2. \A j \in 1..(i - 1) : a[j] = b[j]
      BY <1>5, <2>1
    <3> HIDE DEF i
    <3> QED  BY <3>1, <3>2 DEF Before
  <2> QED  BY <1>5, <2>2, <2>3, <2>4
<1>2. CASE D # {}
  <2>1. PICK x \in D : \A y \in D : x <= y
    <3>1. D \subseteq Nat
      BY <1>5
    <3> HIDE DEF D
    <3> QED  BY <1>2, <3>1, MinNat
  <2>2. x \in 1..Len(a) /\ (x > Len(b) \/ a[x] # b[x])
    OBVIOUS
  <2>3. ASSUME NEW j \in 1..(x - 1) PROVE j <= Len(b) /\ a[j] = b[j]
    <3>1. j \in 1..Len(a) /\ ~(x <= j)
      BY <1>5, <2>2
    <3>2. j \notin D
      BY <2>1, <3>1
    <3> QED  BY <1>5, <3>1, <3>2
  <2>4. x \in Nat /\ 1 <= x /\ x <= Len(a)
    BY <1>5, <2>2
  <2>5. x <= Len(b) + 1
    <3>1. CASE x = 1
      BY <1>5, <3>1
    <3>2. CASE x > 1
      <4>1. x - 1 \in 1..(x - 1)
        BY <2>4, <3>2
      <4> QED  BY <1>5, <2>3, <2>4, <4>1
    <3> QED  BY <2>4, <3>1, <3>2
  <2>6. CASE x = Len(b) + 1 \/ (x <= Len(b) /\ b[x] < a[x])
    <3>1. \A j \in 1..(x - 1) : b[j] = a[j]
      BY <2>3
    <3> QED  BY <2>2, <2>5, <2>6, <3>1 DEF Before
  <2>7. CASE x <= Len(b) /\ a[x] < b[x]
    <3>1. x \in 1..Len(b) /\ x <= Len(a) + 1
      BY <1>5, <2>4, <2>7
    <3> QED  BY <2>3, <2>7, <3>1 DEF Before
  <2>8. x \in 1..Len(b) => a[x] \in Nat /\ b[x] \in Nat /\ a[x] # b[x]
    BY <1>5, <2>2
  <2> QED  BY <1>5, <2>4, <2>5, <2>6, <2>7, <2>8
<1> QED BY <1>1, <1>2

(* The range scan finds the keys of the prefix, if none has the last       *)
(* character after it.                                                     *)
LEMMA InRangeStarts ==
  ASSUME NEW k \in Seq(0..Top), NEW p \in Seq(0..Top), Top \in Nat,
         ~Before(k, p), Before(k, Append(p, Top))
  PROVE StartsWith(k, p)
<1> DEFINE q == Append(p, Top)
<1>5. /\ Len(p) \in Nat /\ Len(k) \in Nat /\ Len(q) = Len(p) + 1 /\ q[Len(p) + 1] = Top
      /\ \A j \in 1..Len(p) : q[j] = p[j]
      /\ \A j \in 1..Len(k) : k[j] \in 0..Top
  OBVIOUS
<1> HIDE DEF q
<1>1. PICK i \in 1..Len(q) : /\ i <= Len(k) + 1
                             /\ \A j \in 1..(i - 1) : k[j] = q[j]
                             /\ i = Len(k) + 1 \/ k[i] < q[i]
  BY DEF Before, q
<1>6. i \in Nat /\ 1 <= i /\ i <= Len(p) + 1
  BY <1>5
<1>2. CASE i <= Len(p)
  <2>1. i \in 1..Len(p) /\ \A j \in 1..(i - 1) : j \in 1..Len(p)
    BY <1>2, <1>5, <1>6
  <2>2. q[i] = p[i] /\ \A j \in 1..(i - 1) : k[j] = p[j]
    BY <1>1, <1>5, <2>1
  <2> QED  BY <1>1, <2>1, <2>2 DEF Before
<1>3. CASE i = Len(p) + 1
  <2>1. \A j \in 1..Len(p) : k[j] = p[j]
    BY <1>1, <1>3, <1>5
  <2> QED  BY <1>1, <1>3, <1>5, <2>1 DEF StartsWith
<1> QED  BY <1>2, <1>3, <1>5, <1>6

LEMMA StartsInRange ==
  ASSUME NEW k \in Seq(0..Top), NEW p \in Seq(0..Top), Top \in Nat,
         StartsWith(k, p), Len(k) = Len(p) \/ k[Len(p) + 1] # Top
  PROVE ~Before(k, p) /\ Before(k, Append(p, Top))
<1>5. /\ Len(p) \in Nat /\ Len(k) \in Nat /\ Len(p) <= Len(k)
      /\ \A j \in 1..Len(p) : k[j] = p[j] /\ p[j] \in Nat
      /\ \A j \in 1..Len(k) : k[j] \in 0..Top
  BY DEF StartsWith
<1>1. ~Before(k, p)
  BY <1>5 DEF Before
<1> DEFINE q == Append(p, Top)
           n == Len(p) + 1
<1>2. /\ Len(q) = n /\ q[n] = Top /\ \A j \in 1..Len(p) : q[j] = p[j]
  OBVIOUS
<1>3. n \in 1..Len(q) /\ n <= Len(k) + 1 /\ \A j \in 1..(n - 1) : k[j] = q[j]
  BY <1>2, <1>5
<1>4. n = Len(k) + 1 \/ k[n] < q[n]
  BY <1>2, <1>5
<1> HIDE DEF q, n
<1>6. Before(k, q)
  BY <1>3, <1>4 DEF Before
<1> QED  BY <1>1, <1>6 DEF q

-----------------------------------------------------------------------------
LEMMA KeysAreStrings ==
  /\ Top \in Nat
  /\ \A k \in Key : k \in Seq(0..Top) /\ k \in Seq(Nat) /\ k # <<>>
  /\ \A k \in Key : \A j \in 1..Len(k) : k[j] # Top
  /\ \A p \in Prefix : p \in Seq(0..Top)
<1> USE KvAssumption, TopAssumption
<1>1. \A k \in Seq(0..(Top - 1)) : /\ k \in Seq(0..Top) /\ k \in Seq(Nat)
                                  /\ \A j \in 1..Len(k) : k[j] # Top
  <2> TAKE k \in Seq(0..(Top - 1))
  <2>1. Len(k) \in Nat /\ k \in [1..Len(k) -> 0..(Top - 1)]
    OBVIOUS
  <2>2. \A j \in 1..Len(k) : k[j] \in 0..Top /\ k[j] \in Nat /\ k[j] # Top
    BY <2>1
  <2> QED  BY <2>1, <2>2
<1> QED  BY <1>1

(* So a list's range holds the keys of its prefix, and no others.          *)
LEMMA RangeIsPrefix ==
  ASSUME NEW k \in Key, NEW p \in Prefix
  PROVE  InRange(k, p) <=> StartsWith(k, p)
<1>1. k \in Seq(0..Top) /\ p \in Seq(0..Top) /\ Top \in Nat
  BY KeysAreStrings
<1>2. ASSUME InRange(k, p) PROVE StartsWith(k, p)
  BY <1>1, <1>2, InRangeStarts DEF InRange
<1>3. ASSUME StartsWith(k, p) PROVE InRange(k, p)
  <2>1. Len(p) \in Nat /\ Len(k) \in Nat /\ Len(p) <= Len(k)
    BY <1>1, <1>3 DEF StartsWith
  <2>2. Len(k) # Len(p) => Len(p) + 1 \in 1..Len(k)
    BY <2>1
  <2>3. Len(k) = Len(p) \/ k[Len(p) + 1] # Top
    BY <2>2, KeysAreStrings
  <2> QED  BY <1>1, <1>3, <2>3, StartsInRange DEF InRange
<1> QED  BY <1>2, <1>3

LEMMA EmptyComesFirst ==
  ASSUME NEW k \in Key
  PROVE  Before(<<>>, k)
<1>1. Len(k) \in Nat /\ Len(k) # 0
  BY KeysAreStrings
<1>2. 1 \in 1..Len(k)
  BY <1>1
<1> QED  BY <1>2 DEF Before

(* The last of some keys is one of them, and none comes after it.          *)
LEMMA LastOfKeys ==
  ASSUME NEW K \in SUBSET Key, K # {}
  PROVE  \E k \in K : \A d \in K : ~Before(k, d)
<1> DEFINE Above(k) == {d \in K : Before(k, d)}
           T == {Cardinality(Above(k)) : k \in K}
<1>1. IsFiniteSet(K)
  BY FS_Subset, KvAssumption
<1>2. \A k \in K : IsFiniteSet(Above(k)) /\ Cardinality(Above(k)) \in Nat
  BY <1>1, FS_Subset, FS_CardinalityType
<1>3. PICK x \in T : \A y \in T : x <= y
  <2>1. T \subseteq Nat /\ T # {}
    BY <1>2
  <2> HIDE DEF T
  <2> QED  BY <2>1, MinNat
<1>4. PICK k \in K : x = Cardinality(Above(k))
  OBVIOUS
<1>5. ASSUME NEW e \in K, Before(k, e)
      PROVE  FALSE
  <2>1. \A d \in K : Before(e, d) => Before(k, d)
    BY <1>5, BeforeTransitive, KeysAreStrings
  <2>2. Above(e) \in SUBSET Above(k)
    BY <2>1
  <2>3. Cardinality(Above(e)) <= Cardinality(Above(k))
    BY <1>2, <2>2, FS_Subset
  <2>4. Cardinality(Above(k)) <= Cardinality(Above(e))
    BY <1>3, <1>4
  <2>5. Above(k) = Above(e)
    BY <1>2, <2>2, <2>3, <2>4, FS_Subset
  <2>6. e \in Above(e)
    BY <1>5, <2>5
  <2> QED  BY <2>6, BeforeIrreflexive, KeysAreStrings
<1> QED  BY <1>5

LEMMA LastKeyIsLast ==
  ASSUME NEW page, page # {}, {r.key : r \in page} \subseteq Key
  PROVE  /\ \E r \in page : r.key = LastKey(page)
         /\ \A r \in page : ~Before(LastKey(page), r.key)
<1> DEFINE K == {r.key : r \in page}
<1>1. K \in SUBSET Key /\ K # {}
  OBVIOUS
<1>2. \E k \in K : \A d \in K : ~Before(k, d)
  <2> HIDE DEF K
  <2> QED  BY <1>1, LastOfKeys
<1>3. \E k \in K : \A r \in page : ~Before(k, r.key)
  BY <1>2
<1>4. LastKey(page) \in K /\ \A r \in page : ~Before(LastKey(page), r.key)
  BY <1>3 DEF LastKey
<1> QED  BY <1>4

-----------------------------------------------------------------------------
(* The inductive invariant: a scan's cursor is its last key, and of the    *)
(* steady keys it has seen those up to there, and the rest is still there. *)
Abides(s, rows, t) ==
  /\ s.phase # "idle" => s.prefix \in Prefix
  /\ ~s.again
  /\ s.phase = "scanning" =>
       /\ s.cursor = <<>> => s.got = {}
       /\ \A k \in s.got : k = s.cursor \/ Before(k, s.cursor)
       /\ \A k \in s.steady : k \in s.got \/ s.cursor = <<>> \/ Before(s.cursor, k)
       /\ \A k \in s.steady : /\ StartsWith(k, s.prefix)
                               /\ \E r \in Unexpired(rows, t) : r.key = k
  /\ s.phase = "complete" => s.steady \subseteq s.got

KvInv ==
  /\ KvTypeOK
  /\ IsFiniteSet(kv_store)
  /\ \A c \in Client : Abides(scan[c], kv_store, now)

LEMMA InitInv == KvInit => KvInv
BY FS_EmptySet DEF KvInit, KvInv, KvTypeOK, Scan, Abides

(* What stays abides: the scans of others' steps.                          *)
LEMMA WatchKeeps ==
  ASSUME KvTypeOK, Watch, \A c \in Client : Abides(scan[c], kv_store, now)
  PROVE  /\ scan' \in [Client -> Scan]
         /\ \A c \in Client : Abides(scan'[c], kv_store', now')
<1> DEFINE K == {r.key : r \in Unexpired(kv_store', now')}
<1>1. \A c \in Client : scan'[c] = [scan[c] EXCEPT !.steady = @ \cap K]
  BY DEF Watch
<1>2. scan' \in [Client -> Scan]
  <2>1. \A c \in Client : scan[c] \in Scan
    BY DEF KvTypeOK
  <2>2. \A c \in Client : [scan[c] EXCEPT !.steady = @ \cap K] \in Scan
    <3> HIDE DEF K
    <3> QED  BY <2>1 DEF Scan
  <2> HIDE DEF K
  <2> QED  BY <1>1, <2>2 DEF Watch
<1>3. ASSUME NEW c \in Client
      PROVE  Abides(scan'[c], kv_store', now')
  <2>1. scan[c] \in Scan
    BY DEF KvTypeOK
  <2>2. /\ scan'[c].phase = scan[c].phase /\ scan'[c].prefix = scan[c].prefix
        /\ scan'[c].got = scan[c].got /\ scan'[c].cursor = scan[c].cursor
        /\ scan'[c].again = scan[c].again
        /\ scan'[c].steady = scan[c].steady \cap K
    <3> HIDE DEF K
    <3> QED  BY <1>1, <2>1 DEF Scan
  <2>3. \A k \in scan'[c].steady : /\ k \in scan[c].steady
                                   /\ \E r \in Unexpired(kv_store', now') : r.key = k
    BY <2>2
  <2> HIDE DEF K
  <2> QED  BY <2>2, <2>3 DEF Abides
<1> QED  BY <1>2, <1>3

(* One step per operation.                                                 *)
LEMMA PutInv ==
  ASSUME KvInv, NEW k \in Key, NEW v \in Value, NEW m \in Meta,
         NEW ttl \in TTL \cup {Never}, Put(k, v, m, ttl)
  PROVE  KvInv'
<1> DEFINE e == [key |-> k, value |-> v, metadata |-> m,
                 expire_at |-> IF ttl = Never THEN Never ELSE now + ttl]
<1>1. kv_store' = {r \in kv_store : r.key # k} \cup {e}
  BY DEF Put
<1>2. e \in Row /\ e.key = k
  BY KvAssumption DEF KvInv, KvTypeOK, Row
<1> HIDE DEF e
<1>3. /\ kv_store' \subseteq Row
      /\ \A r, d \in kv_store' : r.key = d.key => r = d
  BY <1>1, <1>2 DEF KvInv, KvTypeOK
<1>4. IsFiniteSet(kv_store')
  <2>1. IsFiniteSet({r \in kv_store : r.key # k})
    BY FS_Subset DEF KvInv
  <2> QED  BY <1>1, <2>1, FS_AddElement
<1>5. now' \in Nat /\ writes' \in Nat
  BY DEF Put, Write, KvInv, KvTypeOK
<1>6. Watch
  BY DEF Put
<1> QED  BY <1>3, <1>4, <1>5, <1>6, WatchKeeps DEF KvInv, KvTypeOK

LEMMA DeleteInv ==
  ASSUME KvInv, NEW k \in Key, Delete(k)
  PROVE  KvInv'
<1>1. kv_store' \in SUBSET kv_store
  BY DEF Delete
<1>2. IsFiniteSet(kv_store')
  BY <1>1, FS_Subset DEF KvInv
<1>3. /\ kv_store' \subseteq Row /\ now' \in Nat /\ writes' \in Nat
      /\ \A r, d \in kv_store' : r.key = d.key => r = d
  BY <1>1 DEF Delete, Write, KvInv, KvTypeOK
<1>4. Watch
  BY DEF Delete
<1> QED  BY <1>2, <1>3, <1>4, WatchKeeps DEF KvInv, KvTypeOK

LEMMA TickInv ==
  ASSUME KvInv, Tick
  PROVE  KvInv'
<1>1. kv_store' = kv_store /\ now' \in Nat /\ writes' = writes /\ Watch
  BY DEF Tick, KvInv, KvTypeOK
<1> QED  BY <1>1, WatchKeeps DEF KvInv, KvTypeOK

LEMMA StartScanInv ==
  ASSUME KvInv, NEW c \in Client, NEW p \in Prefix, StartScan(c, p)
  PROVE  KvInv'
<1> DEFINE K == {r.key : r \in {d \in Unexpired(kv_store, now) :
                                   StartsWith(d.key, p)}}
           s == [prefix |-> p, cursor |-> <<>>, got |-> {}, again |-> FALSE,
                 steady |-> K, phase |-> "scanning"]
<1>1. scan' = [scan EXCEPT ![c] = s]
  BY DEF StartScan
<1>2. K \subseteq Key
  BY DEF Unexpired, KvInv, KvTypeOK, Row
<1>3. \A k \in K : /\ StartsWith(k, p)
                   /\ \E r \in Unexpired(kv_store, now) : r.key = k
  OBVIOUS
<1> HIDE DEF K
<1>4. s \in Scan /\ Abides(s, kv_store, now)
  BY <1>2, <1>3 DEF Scan, Abides
<1> HIDE DEF s
<1>5. scan' \in [Client -> Scan]
  BY <1>1, <1>4 DEF KvInv, KvTypeOK
<1>6. \A x \in Client : Abides(scan'[x], kv_store, now)
  BY <1>1, <1>4 DEF KvInv, KvTypeOK
<1>7. UNCHANGED <<kv_store, now, writes>>
  BY DEF StartScan
<1> QED  BY <1>5, <1>6, <1>7 DEF KvInv, KvTypeOK

(* A page of a list: what it holds, and what a complete one leaves: none.  *)
LEMMA PageOfList ==
  ASSUME KvInv, NEW p \in Prefix, NEW limit \in Nat, NEW cursor \in Key \cup {<<>>},
         NEW page, List(p, limit, cursor, page)
  PROVE  /\ page \subseteq kv_store' /\ kv_store' \subseteq kv_store
         /\ kv_store' = Unexpired(kv_store, now)
         /\ \A r \in page : StartsWith(r.key, p) /\ Before(cursor, r.key)
         /\ \A r \in page, d \in kv_store' :
              StartsWith(d.key, p) /\ Before(cursor, d.key) /\ Before(d.key, r.key)
                => d \in page
         /\ Cardinality(page) < Clamped(limit) =>
              \A d \in kv_store' : StartsWith(d.key, p) /\ Before(cursor, d.key)
                                    => d \in page
         /\ page = {} => Cardinality(page) < Clamped(limit)
<1> DEFINE rows == Ahead(kv_store', p, cursor)
           n == Clamped(limit)
<1>1. kv_store' = Unexpired(kv_store, now) /\ kv_store' \in SUBSET kv_store
  BY DEF List, Swept, Unexpired
<1>2. \A d \in kv_store' : d.key \in Key
  BY <1>1 DEF KvInv, KvTypeOK, Row
<1>3. \A d \in kv_store' :
        d \in rows <=> StartsWith(d.key, p) /\ Before(cursor, d.key)
  BY <1>2, RangeIsPrefix, EmptyComesFirst DEF Ahead
<1>4. rows \in SUBSET kv_store'
  BY DEF Ahead
<1>5. IsFiniteSet(rows) /\ IsFiniteSet(kv_store')
  BY <1>1, <1>4, FS_Subset DEF KvInv
<1>6. n \in Nat /\ n >= 1
  BY KvAssumption DEF Clamped
<1> HIDE DEF rows, n
<1>7. page \in Pages(rows, n)
  BY DEF List, rows, n
<1>8. /\ page \in SUBSET rows
      /\ \A r \in page, d \in rows : Before(d.key, r.key) => d \in page
      /\ Cardinality(page) = IF Cardinality(rows) < n THEN Cardinality(rows) ELSE n
  BY <1>7 DEF Pages
<1>9. Cardinality(page) < n => page = rows
  <2>1. Cardinality(rows) \in Nat
    BY <1>5, FS_CardinalityType
  <2>2. Cardinality(page) < n => Cardinality(rows) = Cardinality(page)
    BY <1>6, <1>8, <2>1
  <2> QED  BY <1>5, <1>8, <2>2, FS_Subset
<1>10. page = {} => Cardinality(page) < n
  BY <1>6, FS_EmptySet
<1> QED  BY <1>1, <1>3, <1>4, <1>8, <1>9, <1>10 DEF n

LEMMA NextPageInv ==
  ASSUME KvInv, NEW c \in Client, NEW limit \in Limit, NextPage(c, limit)
  PROVE  KvInv'
<1> DEFINE s == scan[c]
<1>1. PICK page \in SUBSET Swept(kv_store) :
        /\ List(s.prefix, limit, s.cursor, page)
        /\ scan' = [scan EXCEPT ![c] =
             [s EXCEPT !.got = @ \cup {r.key : r \in page},
                       !.again = @ \/ {r.key : r \in page} \cap s.got # {},
                       !.cursor = IF Cardinality(page) < Clamped(limit)
                                  THEN @ ELSE LastKey(page),
                       !.phase = IF Cardinality(page) < Clamped(limit)
                                 THEN "complete" ELSE @]]
  BY DEF NextPage
<1>2. /\ s \in Scan /\ s.phase = "scanning" /\ Abides(s, kv_store, now)
      /\ scan \in [Client -> Scan]
  BY DEF NextPage, KvInv, KvTypeOK
<1>3. UNCHANGED <<now, writes>>
  BY DEF NextPage
<1> DEFINE K == {r.key : r \in page}
           complete == Cardinality(page) < Clamped(limit)
           x == scan'[c]
<1>4. /\ x.prefix = s.prefix /\ x.steady = s.steady /\ x.got = s.got \cup K
      /\ x.again = (s.again \/ K \cap s.got # {})
      /\ x.cursor = IF complete THEN s.cursor ELSE LastKey(page)
      /\ x.phase = IF complete THEN "complete" ELSE s.phase
      /\ x = [prefix |-> x.prefix, cursor |-> x.cursor, got |-> x.got,
              steady |-> x.steady, again |-> x.again, phase |-> x.phase]
      /\ \A y \in Client \ {c} : scan'[y] = scan[y]
      /\ scan' = [scan EXCEPT ![c] = x]
  <2> HIDE DEF K, complete
  <2>1. scan' = [scan EXCEPT ![c] =
             [s EXCEPT !.got = @ \cup K, !.again = @ \/ K \cap s.got # {},
                       !.cursor = IF complete THEN @ ELSE LastKey(page),
                       !.phase = IF complete THEN "complete" ELSE @]]
    BY <1>1 DEF K, complete
  <2> QED  BY <1>2, <2>1 DEF Scan
<1>5. s.prefix \in Prefix /\ s.cursor \in Key \cup {<<>>} /\ s.got \subseteq Key
      /\ s.steady \subseteq Key
  BY <1>2 DEF Abides, Scan
<1>6. /\ page \subseteq kv_store' /\ kv_store' \in SUBSET kv_store
      /\ kv_store' = Unexpired(kv_store, now)
      /\ \A r \in page : Before(s.cursor, r.key)
      /\ \A r \in page, d \in kv_store' :
           StartsWith(d.key, s.prefix) /\ Before(s.cursor, d.key) /\ Before(d.key, r.key)
             => d \in page
      /\ complete =>
           \A d \in kv_store' : StartsWith(d.key, s.prefix) /\ Before(s.cursor, d.key)
                                 => d \in page
      /\ page = {} => complete
  <2> HIDE DEF K, x, s
  <2> QED  BY <1>1, <1>5, KvAssumption, PageOfList
<1>7. /\ kv_store' \subseteq Row
      /\ \A r, d \in kv_store' : r.key = d.key => r = d
      /\ IsFiniteSet(kv_store')
  BY <1>6, FS_Subset DEF KvInv, KvTypeOK
<1>8. K \subseteq Key /\ \A r \in kv_store' : r.key \in Key
  BY <1>6, <1>7 DEF Row
<1>9. ~complete => /\ \E r \in page : r.key = LastKey(page)
                   /\ \A r \in page : ~Before(LastKey(page), r.key)
                   /\ LastKey(page) \in Key
  <2>1. ~complete => /\ \E r \in page : r.key = LastKey(page)
                     /\ \A r \in page : ~Before(LastKey(page), r.key)
    <3> HIDE DEF complete
    <3> QED  BY <1>6, <1>8, LastKeyIsLast
  <2> HIDE DEF complete
  <2> QED  BY <1>8, <2>1
<1> HIDE DEF complete
<1>10. x \in Scan
  <2>1. x.got \subseteq Key /\ x.steady \subseteq Key /\ x.again \in BOOLEAN
    BY <1>2, <1>4, <1>5, <1>8 DEF Scan
  <2>2. x.cursor \in Key \cup {<<>>} /\ x.prefix \in Prefix
    BY <1>4, <1>5, <1>9
  <2>3. x.phase \in {"scanning", "complete"}
    BY <1>2, <1>4
  <2> HIDE DEF x
  <2> QED  BY <1>4, <2>1, <2>2, <2>3 DEF Scan
<1>11. ~x.again
  <2>1. ASSUME NEW k \in K, k \in s.got
        PROVE  FALSE
    <3>1. Before(s.cursor, k) /\ k \in Key
      BY <1>6, <1>8, <2>1
    <3>2. s.cursor \in Key /\ (k = s.cursor \/ Before(k, s.cursor))
      BY <1>2, <1>5, <2>1 DEF Abides
    <3> HIDE DEF s
    <3>3. Before(k, k)
      BY <3>1, <3>2, BeforeTransitive, KeysAreStrings
    <3> QED  BY <3>1, <3>3, BeforeIrreflexive, KeysAreStrings
  <2> QED  BY <1>2, <1>4, <2>1 DEF Abides
<1>12. \A k \in s.steady : /\ StartsWith(k, s.prefix) /\ k \in Key
                           /\ \E r \in kv_store' : r.key = k
                           /\ k \in s.got \/ Before(s.cursor, k)
  BY <1>2, <1>5, <1>6, EmptyComesFirst DEF Abides
<1>13. CASE complete
  <2>1. \A k \in x.steady : k \in x.got
    BY <1>4, <1>6, <1>12, <1>13
  <2> QED  BY <1>4, <1>5, <1>7, <1>3, <1>10, <1>11, <1>13, <2>1, <1>6
           DEF KvInv, KvTypeOK, Abides, Unexpired
<1>14. CASE ~complete
  <2>1. PICK r \in page : r.key = LastKey(page)
    BY <1>9, <1>14
  <2>2. /\ x.cursor = r.key /\ r.key \in Key /\ x.phase = "scanning"
        /\ Before(s.cursor, r.key) /\ \A d \in page : ~Before(r.key, d.key)
    BY <1>2, <1>4, <1>6, <1>9, <1>14, <2>1
  <2>3. \A k \in x.got : k = r.key \/ Before(k, r.key)
    <3>1. \A k \in K : k \in Key /\ ~Before(r.key, k)
      BY <1>8, <2>2
    <3>2. \A k \in s.got : k \in Key /\ s.cursor \in Key /\ (k = s.cursor \/ Before(k, s.cursor))
      BY <1>2, <1>5 DEF Abides
    <3> HIDE DEF s, x, K
    <3>3. \A k \in K : k = r.key \/ Before(k, r.key)
      BY <2>2, <3>1, BeforeTotal, KeysAreStrings
    <3>4. \A k \in s.got : Before(k, r.key)
      BY <2>2, <3>2, BeforeTransitive, KeysAreStrings
    <3> QED  BY <1>4, <3>3, <3>4
  <2>4. ASSUME NEW k \in x.steady
        PROVE  k \in x.got \/ Before(r.key, k)
    <3>1. /\ k \in Key /\ StartsWith(k, s.prefix)
          /\ k \in s.got \/ Before(s.cursor, k)
      BY <1>4, <1>12
    <3>2. PICK d \in kv_store' : d.key = k
      BY <1>4, <1>12
    <3>3. CASE k \in s.got
      BY <1>4, <3>3
    <3>4. CASE Before(s.cursor, k) /\ Before(k, r.key)
      <4>1. d \in page
        BY <1>6, <3>1, <3>2, <3>4
      <4> QED  BY <1>4, <3>2, <4>1
    <3>5. k = r.key => k \in K
      OBVIOUS
    <3>6. k = r.key \/ Before(k, r.key) \/ Before(r.key, k)
      <4> HIDE DEF s, x, K
      <4> QED  BY <2>2, <3>1, BeforeTotal, KeysAreStrings
    <3> QED  BY <1>4, <3>1, <3>3, <3>4, <3>5, <3>6
  <2>5. Abides(x, kv_store', now)
    <3>1. /\ x.prefix \in Prefix /\ x.cursor # <<>>
          /\ \A k \in x.steady : StartsWith(k, x.prefix)
          /\ \A k \in x.steady : \E d \in kv_store' : d.key = k
      BY <1>4, <1>5, <1>12, <2>2, KeysAreStrings
    <3>2. Unexpired(kv_store', now) = kv_store'
      BY <1>6 DEF Unexpired
    <3> HIDE DEF x, s
    <3> QED  BY <1>11, <2>2, <2>3, <2>4, <3>1, <3>2 DEF Abides
  <2>6. ASSUME NEW y \in Client
        PROVE  Abides(scan'[y], kv_store', now)
    <3>1. CASE y = c
      BY <2>5, <3>1
    <3>2. CASE y # c
      <4>1. scan'[y] = scan[y] /\ Abides(scan[y], kv_store, now)
        BY <1>4, <3>2 DEF KvInv
      <4>2. Unexpired(kv_store', now) = Unexpired(kv_store, now)
        BY <1>6 DEF Unexpired
      <4> QED  BY <4>1, <4>2 DEF Abides
    <3> QED  BY <3>1, <3>2
  <2>7. scan' \in [Client -> Scan]
    <3> HIDE DEF x
    <3> QED  BY <1>2, <1>4, <1>10
  <2> QED  BY <1>3, <1>7, <2>6, <2>7 DEF KvInv, KvTypeOK
<1> QED  BY <1>13, <1>14

LEMMA NextInv == KvInv /\ [KvNext]_kvVars => KvInv'
<1> SUFFICES ASSUME KvInv, [KvNext]_kvVars
             PROVE  KvInv'
  OBVIOUS
<1>1. ASSUME NEW k \in Key, Get(k) /\ UNCHANGED <<now, writes, scan>>
      PROVE  KvInv'
  BY <1>1 DEF Get, KvInv, KvTypeOK, Abides, Unexpired
<1>2. CASE UNCHANGED kvVars
  BY <1>2 DEF kvVars, KvInv, KvTypeOK, Abides, Unexpired
<1> QED  BY <1>1, <1>2, PutInv, DeleteInv, TickInv, StartScanInv, NextPageInv DEF KvNext

LEMMA Invariance == KvSpec => []KvInv
<1> QED  BY InitInv, NextInv, PTL DEF KvSpec

(* Every variable keeps its shape, and the table has one row per key.      *)
THEOREM KvTypeCorrect == KvSpec => []KvTypeOK
<1>1. KvInv => KvTypeOK
  BY DEF KvInv
<1> QED  BY <1>1, Invariance, PTL

(* A scan by cursor returns every key that stays, once, for any keys,      *)
(* limits, clients and interleaving (kv-sqlite.ts:66-72, 108-143).         *)
THEOREM ScanIsExact == KvSpec => []ScanExact
<1>1. KvInv => ScanExact
  BY DEF KvInv, Abides, ScanExact
<1> QED  BY <1>1, Invariance, PTL

-----------------------------------------------------------------------------
(* The abstract entry of a row.                                            *)
Entry(r) == [key |-> r.key, value |-> r.value, metadata |-> r.metadata,
             until |-> r.expire_at]

Entries(rows, t) == {Entry(r) : r \in Unexpired(rows, t)}

LEMMA EntryKeepsFields ==
  ASSUME NEW r \in Row, NEW d \in Row
  PROVE  /\ Entry(r).key = r.key /\ Entry(r).until = r.expire_at
         /\ Entry(r).value = r.value /\ Entry(r).metadata = r.metadata
         /\ Entry(r) = Entry(d) => r = d
BY DEF Entry, Row

LEMMA PutRefines ==
  ASSUME KvInv, NEW k \in Key, NEW v \in Value, NEW m \in Meta,
         NEW ttl \in TTL \cup {Never}, Put(k, v, m, ttl)
  PROVE  KV!Next
<1> DEFINE r == [key |-> k, value |-> v, metadata |-> m,
                 expire_at |-> IF ttl = Never THEN Never ELSE now + ttl]
           S == Entries(kv_store, now)
           T == Entries(kv_store', now)
<1>1. /\ kv_store' = {d \in kv_store : d.key # k} \cup {r}
      /\ answer' = {} /\ now' = now
  BY DEF Put
<1>2. /\ r \in Row /\ r.key = k
      /\ r.expire_at = Never \/ now < r.expire_at
      /\ kv_store \subseteq Row
  BY KvAssumption DEF KvInv, KvTypeOK, Row, Put
<1> HIDE DEF r
<1>3. Unexpired(kv_store', now) = {d \in Unexpired(kv_store, now) : d.key # k} \cup {r}
  BY <1>1, <1>2 DEF Unexpired
<1>4. T = {e \in S : e.key # Entry(r).key} \cup {Entry(r)}
  <2>1. \A d \in Unexpired(kv_store, now) : Entry(d).key = d.key
    BY <1>2, EntryKeepsFields DEF Unexpired
  <2>2. Entry(r).key = k
    BY <1>2, EntryKeepsFields
  <2> QED  BY <1>3, <2>1, <2>2 DEF Entries
<1>5. Entry(r) \in T /\ (Entry(r).until # Never => now < Entry(r).until)
  BY <1>2, <1>4, EntryKeepsFields
<1> HIDE DEF S, T
<1>6. \E e \in T : /\ e.until # Never => now < e.until
                   /\ T = {d \in S : d.key # e.key} \cup {e}
  BY <1>4, <1>5
<1>7. \E e \in T : KV!Put(e)
  BY <1>1, <1>6 DEF KV!Put, S, T, Entries, Entry
<1> QED  BY <1>1, <1>7 DEF KV!Next, T, Entries, Entry

LEMMA DeleteRefines ==
  ASSUME KvInv, NEW k \in Key, Delete(k)
  PROVE  KV!Next
<1>1. /\ kv_store' = {r \in kv_store : r.key # k}
      /\ answer' = {} /\ now' = now
  BY DEF Delete
<1>2. \A r \in kv_store : Entry(r).key = r.key
  BY EntryKeepsFields DEF KvInv, KvTypeOK
<1>3. Unexpired(kv_store', now) = {r \in Unexpired(kv_store, now) : r.key # k}
  BY <1>1 DEF Unexpired
<1>4. Entries(kv_store', now) = {e \in Entries(kv_store, now) : e.key # k}
  BY <1>2, <1>3 DEF Entries, Unexpired
<1>5. KV!Delete(k)
  BY <1>1, <1>4 DEF KV!Delete, Entries, Entry
<1> QED  BY <1>5 DEF KV!Next

LEMMA GetRefines ==
  ASSUME KvInv, NEW k \in Key, Get(k), UNCHANGED now
  PROVE  KV!Next
<1> DEFINE S == Entries(kv_store, now)
<1>1. /\ answer' = {[get |-> k, values |-> Found(k)]}
      /\ kv_store' = kv_store
  BY DEF Get
<1>2. \A r \in kv_store : Entry(r).key = r.key /\ Entry(r).value = r.value
  BY EntryKeepsFields DEF KvInv, KvTypeOK
<1>3. Found(k) = {e.value : e \in {d \in S : d.key = k}}
  BY <1>2 DEF Found, Entries, Unexpired
<1>4. KV!Get(k)
  BY <1>1, <1>3 DEF KV!Get, Entries, Entry
<1> QED  BY <1>4 DEF KV!Next

LEMMA TickRefines ==
  ASSUME KvInv, Tick
  PROVE  KV!Next
<1>1. kv_store' = kv_store /\ answer' = {} /\ now' = now + 1 /\ now \in Nat
  BY DEF Tick, KvInv, KvTypeOK
<1>2. \A r \in kv_store : /\ Entry(r).until = r.expire_at
                          /\ r.expire_at \in Nat \cup {Never}
  BY EntryKeepsFields DEF KvInv, KvTypeOK, Row
<1>3. Entries(kv_store, now + 1) =
        {e \in Entries(kv_store, now) : e.until = Never \/ now + 1 < e.until}
  BY <1>1, <1>2, KvAssumption DEF Entries, Unexpired
<1>4. KV!Tick
  BY <1>1, <1>3 DEF KV!Tick, Entries, Entry
<1> QED  BY <1>4 DEF KV!Next

(* A page of a list is a page of the entries, the sweep removing none.     *)
LEMMA ListRefines ==
  ASSUME KvInv, NEW p \in Prefix, NEW limit \in Nat, NEW cursor \in Key \cup {<<>>},
         NEW page, List(p, limit, cursor, page), UNCHANGED now
  PROVE  KV!Next
<1> DEFINE S == Entries(kv_store, now)
<1>1. List(p, limit, cursor, page)
  OBVIOUS
<1>2. now' = now /\ p \in Prefix /\ cursor \in Key \cup {<<>>}
  OBVIOUS
<1> DEFINE complete == Cardinality(page) < Clamped(limit)
           P == {Entry(r) : r \in page}
           A == {e \in S : StartsWith(e.key, p) /\ Before(cursor, e.key)}
<1>3. /\ page \subseteq kv_store' /\ kv_store' \subseteq kv_store
      /\ kv_store' = Unexpired(kv_store, now)
      /\ \A r \in page : StartsWith(r.key, p) /\ Before(cursor, r.key)
      /\ \A r \in page, d \in kv_store' :
           StartsWith(d.key, p) /\ Before(cursor, d.key) /\ Before(d.key, r.key)
             => d \in page
      /\ complete =>
           \A d \in kv_store' : StartsWith(d.key, p) /\ Before(cursor, d.key) => d \in page
      /\ page = {} => complete
  BY <1>1, <1>2, KvAssumption, PageOfList
<1>4. answer' = {[list |-> p, after |-> cursor,
                  keys |-> {<<r.key, r.metadata>> : r \in page},
                  complete |-> complete]}
  BY <1>1 DEF List
<1>5. \A r \in kv_store : /\ Entry(r).key = r.key /\ Entry(r).metadata = r.metadata
                          /\ \A d \in kv_store : Entry(d) = Entry(r) => d = r
  BY EntryKeepsFields DEF KvInv, KvTypeOK
<1> HIDE DEF complete
<1>6. S = {Entry(r) : r \in kv_store'}
  BY <1>3 DEF Entries
<1> HIDE DEF S
<1>7. P \in SUBSET A
  BY <1>3, <1>5, <1>6
<1>8. \A e \in P, d \in A : Before(d.key, e.key) => d \in P
  <2> SUFFICES ASSUME NEW e \in P, NEW d \in A, Before(d.key, e.key)
               PROVE  d \in P
    OBVIOUS
  <2>1. PICK r \in page : e = Entry(r)
    OBVIOUS
  <2>2. PICK x \in kv_store' : d = Entry(x)
    BY <1>6
  <2>3. StartsWith(x.key, p) /\ Before(cursor, x.key) /\ Before(x.key, r.key)
    BY <1>3, <1>5, <2>1, <2>2
  <2>4. x \in page
    BY <1>3, <2>3
  <2> QED  BY <2>2, <2>4
<1>9. complete => P = A
  <2> SUFFICES ASSUME complete, NEW d \in A
               PROVE  d \in P
    BY <1>7
  <2>1. PICK x \in kv_store' : d = Entry(x)
    BY <1>6
  <2>2. StartsWith(x.key, p) /\ Before(cursor, x.key)
    BY <1>3, <1>5, <2>1
  <2> QED  BY <1>3, <2>1, <2>2
<1>10. {<<r.key, r.metadata>> : r \in page} = {<<e.key, e.metadata>> : e \in P}
  BY <1>3, <1>5
<1>11. P = {} => complete
  BY <1>3
<1>12. complete \in BOOLEAN
  BY DEF complete
<1>13. Entries(kv_store', now) = S
  BY <1>3 DEF Entries, Unexpired, S
<1> HIDE DEF P
<1>14. KV!Ahead(p, cursor) = A
  <2>1. \A a, b : /\ KV!StartsWith(a, b) <=> StartsWith(a, b)
                  /\ KV!Before(a, b) <=> Before(a, b)
    BY DEF KV!StartsWith, StartsWith, KV!Before, Before
  <2>2. KV!Ahead(p, cursor) = {e \in S : KV!StartsWith(e.key, p) /\ KV!Before(cursor, e.key)}
    BY DEF KV!Ahead, S, Entries, Entry
  <2> QED  BY <2>1, <2>2 DEF A
<1> HIDE DEF A
<1>15. \E X \in SUBSET A, b \in BOOLEAN :
         /\ answer' = {[list |-> p, after |-> cursor,
                        keys |-> {<<e.key, e.metadata>> : e \in X},
                        complete |-> b]}
         /\ \A e \in X, d \in A : Before(d.key, e.key) => d \in X
         /\ (X = {} => b) /\ (b => X = A)
  <2> WITNESS P \in SUBSET A, complete \in BOOLEAN
  <2> QED  BY <1>4, <1>8, <1>9, <1>10, <1>11
<1>16. KV!List(p, cursor)
  <2>1. \A a, b : KV!Before(a, b) <=> Before(a, b)
    BY DEF KV!Before, Before
  <2>2. UNCHANGED <<S, now>>
    BY <1>2, <1>13 DEF S
  <2> QED  BY <1>14, <1>15, <2>1, <2>2 DEF KV!List, S, Entries, Entry
<1> QED  BY <1>2, <1>16 DEF KV!Next

LEMMA NextPageRefines ==
  ASSUME KvInv, NEW c \in Client, NEW limit \in Limit, NextPage(c, limit)
  PROVE  KV!Next
<1>1. PICK page : List(scan[c].prefix, limit, scan[c].cursor, page)
  BY DEF NextPage
<1>2. now' = now /\ scan[c].prefix \in Prefix /\ scan[c].cursor \in Key \cup {<<>>}
  BY DEF NextPage, KvInv, KvTypeOK, Abides, Scan
<1> QED  BY <1>1, <1>2, KvAssumption, ListRefines

LEMMA KvStepRefines ==
  ASSUME KvInv, [KvNext]_kvVars
  PROVE  KV!Next \/ UNCHANGED <<Entries(kv_store, now), answer, now>>
<1>1. ASSUME NEW c \in Client, NEW p \in Prefix, StartScan(c, p)
      PROVE  UNCHANGED <<Entries(kv_store, now), answer, now>>
  BY <1>1 DEF StartScan, Entries, Unexpired
<1>2. CASE UNCHANGED kvVars
  BY <1>2 DEF kvVars, Entries, Unexpired
<1> QED  BY <1>1, <1>2, PutRefines, DeleteRefines, GetRefines, TickRefines,
            NextPageRefines DEF KvNext

(* The table implements the KV store it stands in for, whatever the keys,  *)
(* times to live, limits and clients (kv-sqlite.ts:1-12, 79-142).          *)
THEOREM ImplementsKV == KvSpec => KeepsKV
<1>1. KvInit => KV!Init
  BY DEF KvInit, KV!Init, Unexpired
<1>2. KvInv /\ [KvNext]_kvVars =>
        [KV!Next]_<<Entries(kv_store, now), answer, now>>
  BY KvStepRefines
<1>3. KvInv /\ [KvNext]_kvVars =>
        [KV!Next]_<<{[key |-> r.key, value |-> r.value, metadata |-> r.metadata,
                      until |-> r.expire_at] : r \in Unexpired(kv_store, now)},
                    answer, now>>
  BY <1>2 DEF Entries, Entry
<1> QED  BY <1>1, <1>3, Invariance, PTL DEF KvSpec, KeepsKV, KV!Spec

-----------------------------------------------------------------------------
(* PanelFallback.  A load is younger than a request may be, its steady     *)
(* keys are configured, and of a whole list those not delivered are still  *)
(* to be got.                                                              *)
Young(q, t) == q.start <= q.read /\ q.read <= t /\ t <= q.start + MaxFlight

Names(configs) == {c[1] : c \in configs}

Whole(q, steady) ==
  (q.phase = "gets" /\ ~q.cut) => steady \subseteq Names(q.configs) \cup q.todo

LoadsInv ==
  /\ loads \subseteq Loading
  /\ \A q \in loads : /\ Young(q, now) /\ Whole(q, q.steady)
                      /\ q.steady \subseteq Configured(kv_store, now)

CacheInv ==
  /\ kvConfigsCache \in [Isolate -> SUBSET Cached]
  /\ \A i \in Isolate : \A c, d \in kvConfigsCache[i] : c = d
  /\ \A i \in Isolate : \A c \in kvConfigsCache[i] :
       c.at <= now /\ c.at <= c.read + MaxFlight

PanelInv ==
  /\ KvInv /\ LoadsInv /\ CacheInv
  /\ served \subseteq Served /\ FallbackRecent /\ FallbackComplete

LEMMA PanelInit == Init => PanelInv
BY InitInv, PanelAssumption
DEF Init, PanelInv, LoadsInv, CacheInv, FallbackRecent, FallbackComplete, KvInit

(* Steps that leave the table and the clock alone.                         *)
LEMMA SameKv ==
  ASSUME KvInv, UNCHANGED <<kv_store, now, writes, scan>>
  PROVE  KvInv'
BY DEF KvInv, KvTypeOK, Abides, Unexpired

LEMMA SweepKv ==
  ASSUME KvInv, kv_store' = Unexpired(kv_store, now), UNCHANGED <<now, writes, scan>>
  PROVE  KvInv'
<1>1. kv_store' \in SUBSET kv_store
  BY DEF Unexpired
<1>2. IsFiniteSet(kv_store')
  BY <1>1, FS_Subset DEF KvInv
<1>3. Unexpired(kv_store', now') = Unexpired(kv_store, now)
  BY DEF Unexpired
<1>4. KvTypeOK'
  BY <1>1 DEF KvInv, KvTypeOK
<1>5. ASSUME NEW c \in Client PROVE Abides(scan'[c], kv_store', now')
  BY <1>3 DEF KvInv, Abides
<1> QED  BY <1>2, <1>4, <1>5 DEF KvInv

(* The loads after a step that follows them.                               *)
LEMMA FollowKeeps ==
  ASSUME NEW qs, Follow(qs), qs \subseteq Loading,
         \A q \in qs : /\ Young(q, now')
                       /\ Whole(q, q.steady \cap Configured(kv_store', now'))
  PROVE  LoadsInv'
<1> DEFINE K == Configured(kv_store', now')
<1>1. loads' = {[q EXCEPT !.steady = @ \cap K] : q \in qs}
  BY DEF Follow
<1> HIDE DEF K
<1>2. ASSUME NEW r \in loads'
      PROVE  /\ r \in Loading /\ Young(r, now')
             /\ Whole(r, r.steady) /\ r.steady \subseteq K
  <2>1. PICK q \in qs : r = [q EXCEPT !.steady = @ \cap K]
    BY <1>1, <1>2
  <2>2. q \in Loading
    BY <2>1
  <2>3. /\ r \in Loading /\ r.steady = q.steady \cap K
        /\ r.start = q.start /\ r.read = q.read /\ r.phase = q.phase
        /\ r.cut = q.cut /\ r.configs = q.configs /\ r.todo = q.todo
    BY <2>1, <2>2 DEF Loading
  <2>4. Young(q, now') /\ Whole(q, q.steady \cap K)
    BY <2>1 DEF K
  <2> QED  BY <2>3, <2>4 DEF Young, Whole
<1> QED  BY <1>2 DEF LoadsInv, K

(* A delivery without a load.                                              *)
LEMMA DeliverServes ==
  ASSUME NEW kind \in {"cache", "stale", "unavailable"},
         NEW c, c.configs \in SUBSET Config, c.read \in Nat, Deliver(kind, c),
         now' = now, kind = "cache" => now < c.read + ConfigsTTL + MaxFlight
  PROVE  /\ (served \subseteq Served)'
         /\ FallbackRecent' /\ FallbackComplete'
BY DEF Deliver, Served, FallbackRecent, FallbackComplete

LEMMA SilentServes ==
  ASSUME Silent
  PROVE  (served \subseteq Served)' /\ FallbackRecent' /\ FallbackComplete'
BY DEF Silent, FallbackRecent, FallbackComplete

LEMMA SameCache ==
  ASSUME CacheInv, UNCHANGED kvConfigsCache, now' >= now, now \in Nat, now' \in Nat
  PROVE  CacheInv'
<1>1. ASSUME NEW i \in Isolate, NEW c \in kvConfigsCache[i]
      PROVE  c.at <= now'
  <2>1. c.at \in Nat /\ c.at <= now
    BY <1>1 DEF CacheInv, Cached
  <2> QED  BY <2>1
<1> QED  BY <1>1 DEF CacheInv

LEMMA ConfiguredKeys ==
  ASSUME KvTypeOK
  PROVE  Configured(kv_store, now) \subseteq Key
BY DEF Configured, Unexpired, KvTypeOK, Row

LEMMA PollKeeps ==
  ASSUME PanelInv, NEW id \in Req, NEW i \in Isolate, Poll(id, i)
  PROVE  PanelInv'
<1>1. UNCHANGED <<kv_store, now, writes, scan, kvConfigsCache>> /\ now \in Nat
  BY DEF Poll, PanelInv, KvInv, KvTypeOK
<1>2. KvInv' /\ CacheInv'
  BY <1>1, SameKv, SameCache DEF PanelInv
<1>3. ASSUME NEW c \in Fresh(i), Deliver("cache", c), UNCHANGED loads
      PROVE  PanelInv'
  <2>1. c \in Cached /\ now - c.at < ConfigsTTL /\ c.at <= c.read + MaxFlight
    BY DEF Fresh, PanelInv, CacheInv
  <2>2. now < c.read + ConfigsTTL + MaxFlight
    BY <1>1, <2>1, PanelAssumption DEF Cached
  <2>3. (served \subseteq Served)' /\ FallbackRecent' /\ FallbackComplete'
    BY <1>1, <1>3, <2>1, <2>2, DeliverServes DEF Cached
  <2>4. LoadsInv'
    BY <1>1, <1>3 DEF PanelInv, LoadsInv, Configured, Unexpired
  <2> QED  BY <1>2, <2>3, <2>4 DEF PanelInv
<1>4. CASE /\ loads' = loads \cup
                {[id |-> id, iso |-> i, phase |-> "list", start |-> now, read |-> now,
                  todo |-> {}, configs |-> {}, steady |-> Configured(kv_store, now),
                  cut |-> FALSE]}
           /\ Silent
  <2> DEFINE q == [id |-> id, iso |-> i, phase |-> "list", start |-> now, read |-> now,
                   todo |-> {}, configs |-> {}, steady |-> Configured(kv_store, now),
                   cut |-> FALSE]
  <2>1. Configured(kv_store, now) \subseteq Key
    BY ConfiguredKeys DEF PanelInv, KvInv
  <2>2. q \in Loading
    BY <1>1, <2>1 DEF Loading
  <2>3. Young(q, now) /\ Whole(q, q.steady)
    BY <1>1, PanelAssumption DEF Young, Whole
  <2>4. Configured(kv_store, now)' = Configured(kv_store, now)
    BY <1>1 DEF Configured, Unexpired
  <2>5. q.steady = Configured(kv_store, now) /\ loads' = loads \cup {q}
    BY <1>4
  <2> HIDE DEF q
  <2>6. LoadsInv'
    BY <1>1, <2>2, <2>3, <2>4, <2>5 DEF PanelInv, LoadsInv
  <2> QED  BY <1>2, <1>4, <2>6, SilentServes DEF PanelInv
<1> QED  BY <1>3, <1>4 DEF Poll

(* A whole list: what is configured after the sweep is on the page, and    *)
(* visible.                                                                *)
LEMMA AllVisible ==
  ASSUME KvInv, NEW page, List(ClientPrefix, DefaultListLimit, <<>>, page), now' = now,
         Cardinality(Eligible(page)) <= MaxVisible,
         Cardinality(page) < DefaultListLimit
  PROVE  Configured(kv_store', now') \subseteq {r.key : r \in Visible(page)}
<1>1. Clamped(DefaultListLimit) = DefaultListLimit /\ DefaultListLimit \in Nat
  BY KvAssumption DEF Clamped
<1>2. /\ page \subseteq kv_store' /\ kv_store' \subseteq kv_store
      /\ \A d \in kv_store' : StartsWith(d.key, ClientPrefix) /\ Before(<<>>, d.key)
                                => d \in page
  BY <1>1, PageOfList, PanelAssumption
<1>3. IsFiniteSet(Eligible(page)) /\ Eligible(page) \in SUBSET page
  BY <1>2, FS_Subset DEF KvInv, Eligible
<1>4. ASSUME NEW d \in Eligible(page)
      PROVE  d \in Visible(page)
  <2> DEFINE T == {e \in Eligible(page) : Before(e.key, d.key)}
  <2>1. d.key \in Key
    BY <1>2, <1>3 DEF KvInv, KvTypeOK, Row
  <2>2. d \notin T
    BY <2>1, BeforeIrreflexive, KeysAreStrings
  <2>3. T \in SUBSET Eligible(page)
    OBVIOUS
  <2> HIDE DEF T
  <2>4. /\ IsFiniteSet(T) /\ Cardinality(T) <= Cardinality(Eligible(page))
        /\ Cardinality(T) = Cardinality(Eligible(page)) => T = Eligible(page)
    BY <1>3, <2>3, FS_Subset
  <2>5. Cardinality(T) \in Nat /\ Cardinality(Eligible(page)) \in Nat
    BY <1>3, <2>4, FS_CardinalityType
  <2>6. Cardinality(T) < MaxVisible
    BY <2>2, <2>4, <2>5, PanelAssumption
  <2> QED  BY <2>6 DEF T, Visible, First
<1>5. ASSUME NEW k \in Configured(kv_store', now')
      PROVE  \E r \in Visible(page) : k = r.key
  <2>1. PICK d \in kv_store' : /\ d.key = k /\ d.key \in Scoped
                               /\ StartsWith(d.key, ClientPrefix)
                               /\ d.metadata \in Shown
    BY DEF Configured, Unexpired
  <2>2. Before(<<>>, d.key)
    BY <1>2, EmptyComesFirst DEF KvInv, KvTypeOK, Row
  <2>3. d \in Eligible(page)
    BY <1>2, <2>1, <2>2 DEF Eligible
  <2> QED  BY <1>4, <2>1, <2>3
<1> QED  BY <1>5

LEMMA ListKeysKeeps ==
  ASSUME PanelInv, NEW q \in loads, ListKeys(q)
  PROVE  PanelInv'
<1>1. PICK page \in SUBSET Swept(kv_store) :
        /\ List(ClientPrefix, DefaultListLimit, <<>>, page)
        /\ UNCHANGED <<now, writes, scan, kvConfigsCache>>
        /\ Follow((loads \ {q}) \cup
             {[q EXCEPT !.phase = "gets", !.read = now,
                 !.todo = {r.key : r \in Visible(page)},
                 !.cut = \/ Cardinality(Eligible(page)) > MaxVisible
                         \/ Cardinality(page) >= DefaultListLimit]})
  BY DEF ListKeys
<1> DEFINE keys == {r.key : r \in Visible(page)}
           cut == \/ Cardinality(Eligible(page)) > MaxVisible
                  \/ Cardinality(page) >= DefaultListLimit
           n == [q EXCEPT !.phase = "gets", !.read = now, !.todo = keys, !.cut = cut]
<1>2. now \in Nat /\ KvInv /\ kv_store' = Unexpired(kv_store, now)
  BY <1>1 DEF PanelInv, KvInv, KvTypeOK, List, Swept
<1>3. KvInv' /\ CacheInv'
  <2>1. UNCHANGED <<now, writes, scan>> /\ UNCHANGED kvConfigsCache
    BY <1>1
  <2>2. KvInv'
    BY <1>2, <2>1, SweepKv
  <2>3. now' >= now /\ now' \in Nat
    BY <1>2, <2>1
  <2> QED  BY <1>2, <2>1, <2>2, <2>3, SameCache DEF PanelInv
<1>4. keys \subseteq Key
  BY <1>2 DEF Swept, Unexpired, Visible, First, Eligible, KvInv, KvTypeOK, Row
<1>5. IsFiniteSet(page) /\ IsFiniteSet(Eligible(page))
  <2>1. page \in SUBSET kv_store /\ Eligible(page) \in SUBSET kv_store
    BY DEF Swept, Unexpired, Eligible
  <2> QED  BY <1>2, <2>1, FS_Subset DEF KvInv
<1>6. /\ Cardinality(page) \in Nat /\ Cardinality(Eligible(page)) \in Nat
      /\ MaxVisible \in Nat /\ DefaultListLimit \in Nat
  BY <1>5, FS_CardinalityType, PanelAssumption, KvAssumption
<1>7. ~cut => Configured(kv_store', now') \subseteq keys
  <2>1. List(ClientPrefix, DefaultListLimit, <<>>, page) /\ now' = now
    BY <1>1
  <2>2. ~cut => /\ Cardinality(Eligible(page)) <= MaxVisible
                /\ Cardinality(page) < DefaultListLimit
    BY <1>6
  <2> HIDE DEF cut
  <2>3. ~cut => Configured(kv_store', now') \subseteq {r.key : r \in Visible(page)}
    BY <1>2, <2>1, <2>2, AllVisible
  <2> QED  BY <2>3
<1>8. q \in Loading /\ Young(q, now) /\ now' = now
  BY <1>1 DEF PanelInv, LoadsInv
<1>9. cut \in BOOLEAN
  OBVIOUS
<1> HIDE DEF keys, cut
<1>10. /\ n \in Loading /\ n.start = q.start /\ n.read = now /\ n.cut = cut
       /\ n.todo = keys /\ n.phase = "gets"
  BY <1>2, <1>4, <1>8, <1>9 DEF Loading
<1>11. Follow((loads \ {q}) \cup {n})
  BY <1>1 DEF keys, cut
<1> HIDE DEF n
<1>12. Young(n, now') /\ Whole(n, n.steady \cap Configured(kv_store', now'))
  <2>1. q.start \in Nat /\ q.read \in Nat
    BY <1>8 DEF Loading
  <2> QED  BY <1>2, <1>7, <1>8, <1>10, <2>1 DEF Young, Whole
<1>13. \A d \in loads : /\ d \in Loading /\ Young(d, now')
                        /\ Whole(d, d.steady \cap Configured(kv_store', now'))
  BY <1>8 DEF PanelInv, LoadsInv, Whole
<1>14. LoadsInv'
  <2> DEFINE qs == (loads \ {q}) \cup {n}
  <2>1. qs \subseteq Loading /\ Follow(qs)
    BY <1>10, <1>11, <1>13
  <2>2. \A d \in qs : /\ Young(d, now')
                      /\ Whole(d, d.steady \cap Configured(kv_store', now'))
    BY <1>12, <1>13
  <2> HIDE DEF qs
  <2> QED  BY <2>1, <2>2, FollowKeeps
<1> QED  BY <1>3, <1>14, SilentServes DEF PanelInv, ListKeys

LEMMA GetConfigKeeps ==
  ASSUME PanelInv, NEW q \in loads, NEW k \in Key, GetConfig(q, k)
  PROVE  PanelInv'
<1> DEFINE V == Found(k) \ {Bare}
           got == {<<k, v>> : v \in V}
           n == [q EXCEPT !.todo = @ \ {k}, !.configs = @ \cup got]
<1>1. /\ UNCHANGED <<kv_store, now, writes, scan>> /\ UNCHANGED kvConfigsCache
      /\ q.phase = "gets" /\ k \in q.todo
      /\ Follow((loads \ {q}) \cup {n})
  BY DEF GetConfig, Get
<1> HIDE DEF V, got, n
<1>2. KvInv /\ now \in Nat /\ now' = now
  BY <1>1 DEF PanelInv, KvInv, KvTypeOK
<1>3. KvInv' /\ CacheInv'
  <2>1. now' >= now /\ now' \in Nat
    BY <1>2
  <2>2. KvInv' /\ CacheInv
    BY <1>1, <1>2, SameKv DEF PanelInv
  <2> QED  BY <1>1, <1>2, <2>1, <2>2, SameCache
<1>4. V \subseteq Value \ {Bare}
  BY <1>2 DEF V, Found, Unexpired, KvInv, KvTypeOK, Row
<1>5. k \in Configured(kv_store, now) => V # {}
  BY DEF V, Configured, Found
<1>6. got \subseteq Config /\ (V # {} => k \in Names(got))
  <2>1. ASSUME NEW v \in V
        PROVE  <<k, v>> \in Config /\ <<k, v>> \in got
    BY <1>4 DEF got, Config
  <2>2. got \subseteq Config
    BY <2>1 DEF got
  <2>3. ASSUME V # {}
        PROVE  k \in Names(got)
    <3>1. PICK v \in V : TRUE
      BY <2>3
    <3>2. <<k, v>> \in got /\ <<k, v>>[1] = k
      BY <2>1, <3>1
    <3> QED  BY <3>2 DEF Names
  <2> QED  BY <2>2, <2>3
<1>7. q \in Loading /\ Young(q, now) /\ Whole(q, q.steady) /\ now' = now
  BY <1>1, <1>2 DEF PanelInv, LoadsInv
<1>8. /\ n \in Loading /\ n.start = q.start /\ n.read = q.read /\ n.cut = q.cut
      /\ n.todo = q.todo \ {k} /\ n.configs = q.configs \cup got
      /\ n.phase = q.phase /\ n.steady = q.steady
  BY <1>6, <1>7 DEF n, Loading
<1>9. Names(n.configs) = Names(q.configs) \cup Names(got)
  BY <1>8 DEF Names
<1>10. Configured(kv_store', now') = Configured(kv_store, now)
  BY <1>1 DEF Configured, Unexpired
<1>11. Young(n, now') /\ Whole(n, n.steady \cap Configured(kv_store', now'))
  <2>1. ~q.cut => q.steady \subseteq Names(q.configs) \cup q.todo
    BY <1>1, <1>7 DEF Whole
  <2> QED  BY <1>5, <1>6, <1>7, <1>8, <1>9, <1>10, <2>1 DEF Young, Whole
<1>12. \A d \in loads : /\ d \in Loading /\ Young(d, now')
                        /\ Whole(d, d.steady \cap Configured(kv_store', now'))
  BY <1>7 DEF PanelInv, LoadsInv, Whole
<1>13. LoadsInv'
  <2> DEFINE qs == (loads \ {q}) \cup {n}
  <2>1. qs \subseteq Loading /\ Follow(qs)
    BY <1>1, <1>8, <1>12
  <2>2. \A d \in qs : /\ Young(d, now')
                      /\ Whole(d, d.steady \cap Configured(kv_store', now'))
    BY <1>11, <1>12
  <2> HIDE DEF qs
  <2> QED  BY <2>1, <2>2, FollowKeeps
<1> QED  BY <1>3, <1>13, SilentServes DEF PanelInv, GetConfig

(* Loads that end leave the others as they are.                            *)
LEMMA EndedLoads ==
  ASSUME LoadsInv, loads' \subseteq loads, UNCHANGED <<kv_store, now>>
  PROVE  LoadsInv'
BY DEF LoadsInv, Configured, Unexpired

LEMMA FillConfigsKeeps ==
  ASSUME PanelInv, NEW q \in loads, FillConfigs(q)
  PROVE  PanelInv'
<1> DEFINE c == [at |-> now, read |-> q.read, configs |-> q.configs]
           r == [kind |-> "fresh", configs |-> q.configs, read |-> q.read,
                 steady |-> q.steady, cut |-> q.cut]
<1>1. /\ UNCHANGED <<kv_store, now, writes, scan>> /\ loads' = loads \ {q}
      /\ q.phase = "gets" /\ q.todo = {}
      /\ kvConfigsCache' = [kvConfigsCache EXCEPT ![q.iso] = {c}]
      /\ served' = {r}
  BY DEF FillConfigs
<1>2. KvInv' /\ LoadsInv' /\ now \in Nat
  BY <1>1, SameKv, EndedLoads DEF PanelInv, KvInv, KvTypeOK
<1>3. q \in Loading /\ Young(q, now) /\ Whole(q, q.steady)
  BY DEF PanelInv, LoadsInv
<1>4. q.iso \in Isolate /\ q.start \in Nat /\ q.read \in Nat /\ q.configs \subseteq Config
      /\ q.steady \subseteq Key /\ q.cut \in BOOLEAN
  BY <1>3 DEF Loading
<1>5. c \in Cached /\ c.at = now /\ c.read = q.read
  BY <1>2, <1>4 DEF Cached
<1>6. now <= q.read + MaxFlight
  BY <1>2, <1>3, <1>4, PanelAssumption DEF Young
<1>7. r \in Served
  BY <1>4 DEF Served
<1>8. CacheInv'
  <2> HIDE DEF c
  <2>1. ASSUME NEW i \in Isolate
        PROVE  kvConfigsCache'[i] = kvConfigsCache[i] \/ kvConfigsCache'[i] = {c}
    BY <1>1 DEF PanelInv, CacheInv
  <2>2. kvConfigsCache' \in [Isolate -> SUBSET Cached]
    BY <1>1, <1>4, <1>5 DEF PanelInv, CacheInv
  <2>3. \A i \in Isolate : \A d, e \in kvConfigsCache'[i] : d = e
    BY <2>1 DEF PanelInv, CacheInv
  <2>4. c.at <= now' /\ c.at <= c.read + MaxFlight
    BY <1>1, <1>2, <1>5, <1>6
  <2>5. ASSUME NEW i \in Isolate, NEW d \in kvConfigsCache'[i]
        PROVE  d.at <= now' /\ d.at <= d.read + MaxFlight
    <3>1. CASE d = c
      BY <2>4, <3>1
    <3>2. CASE d \in kvConfigsCache[i]
      BY <1>1, <3>2 DEF PanelInv, CacheInv
    <3> QED  BY <2>1, <2>5, <3>1, <3>2
  <2> QED  BY <2>2, <2>3, <2>5 DEF CacheInv
<1>9. FallbackRecent'
  <2>1. now' < q.read + ConfigsTTL + MaxFlight
    BY <1>1, <1>2, <1>4, <1>6, PanelAssumption
  <2> QED  BY <1>1, <2>1 DEF FallbackRecent
<1>10. FallbackComplete'
  <2>1. ~q.cut => q.steady \subseteq Names(q.configs)
    BY <1>1, <1>3 DEF Whole
  <2> QED  BY <1>1, <2>1 DEF FallbackComplete, Names
<1> QED  BY <1>1, <1>2, <1>7, <1>8, <1>9, <1>10 DEF PanelInv

LEMMA LoadFailsKeeps ==
  ASSUME PanelInv, NEW q \in loads, LoadFails(q)
  PROVE  PanelInv'
<1>1. /\ UNCHANGED <<kv_store, now, writes, scan>> /\ UNCHANGED kvConfigsCache
      /\ loads' = loads \ {q}
  BY DEF LoadFails
<1>2. KvInv' /\ LoadsInv' /\ now \in Nat
  BY <1>1, SameKv, EndedLoads DEF PanelInv, KvInv, KvTypeOK
<1>3. CacheInv'
  BY <1>1, <1>2, SameCache DEF PanelInv
<1>4. q \in Loading /\ q.iso \in Isolate /\ q.read \in Nat
  BY DEF PanelInv, LoadsInv, Loading
<1>5. (served \subseteq Served)' /\ FallbackRecent' /\ FallbackComplete'
  <2>1. ASSUME NEW c \in kvConfigsCache[q.iso], Deliver("stale", c)
        PROVE  (served \subseteq Served)' /\ FallbackRecent' /\ FallbackComplete'
    <3>1. c.configs \in SUBSET Config /\ c.read \in Nat
      BY <1>4 DEF PanelInv, CacheInv, Cached
    <3> QED  BY <1>1, <2>1, <3>1, DeliverServes
  <2>2. ASSUME Deliver("unavailable", [configs |-> {}, read |-> q.read])
        PROVE  (served \subseteq Served)' /\ FallbackRecent' /\ FallbackComplete'
    BY <1>1, <1>4, <2>2, DeliverServes
  <2> QED  BY <2>1, <2>2 DEF LoadFails
<1> QED  BY <1>2, <1>3, <1>5 DEF PanelInv

LEMMA OthersKeep ==
  ASSUME PanelInv, Others
  PROVE  PanelInv'
<1>1. KvInv /\ now \in Nat /\ KvNext /\ UNCHANGED kvConfigsCache /\ Follow(loads)
  BY DEF PanelInv, KvInv, KvTypeOK, Others
<1>2. KvInv'
  BY <1>1, NextInv
<1>3. now' = now \/ now' = now + 1
  BY <1>1 DEF KvNext, Put, Delete, StartScan, NextPage, Tick
<1>4. CacheInv'
  BY <1>1, <1>3, SameCache DEF PanelInv
<1>5. ASSUME NEW d \in loads
      PROVE  /\ d \in Loading /\ Young(d, now')
             /\ Whole(d, d.steady \cap Configured(kv_store', now'))
  <2>1. d \in Loading /\ Young(d, now) /\ Whole(d, d.steady)
    BY DEF PanelInv, LoadsInv
  <2>2. d.start \in Nat /\ d.read \in Nat
    BY <2>1 DEF Loading
  <2>3. now' # now => now < d.start + MaxFlight
    BY DEF Others
  <2>4. Young(d, now')
    BY <1>1, <1>3, <2>1, <2>2, <2>3, PanelAssumption DEF Young
  <2> QED  BY <2>1, <2>4 DEF Whole
<1>6. LoadsInv'
  BY <1>1, <1>5, FollowKeeps
<1> QED  BY <1>2, <1>4, <1>6, SilentServes DEF PanelInv, Others

LEMMA RestartKeeps ==
  ASSUME PanelInv, NEW i \in Isolate, Restart(i)
  PROVE  PanelInv'
<1>1. /\ UNCHANGED <<kv_store, now, writes, scan>> /\ loads' \subseteq loads
      /\ kvConfigsCache' = [kvConfigsCache EXCEPT ![i] = {}]
  BY DEF Restart
<1>2. KvInv' /\ LoadsInv'
  BY <1>1, SameKv, EndedLoads DEF PanelInv
<1>3. CacheInv'
  BY <1>1 DEF PanelInv, CacheInv
<1> QED  BY <1>2, <1>3, SilentServes DEF PanelInv, Restart

LEMMA PanelNext == PanelInv /\ [Next]_panelVars => PanelInv'
<1> SUFFICES ASSUME PanelInv, [Next]_panelVars
             PROVE  PanelInv'
  OBVIOUS
<1>1. CASE UNCHANGED panelVars
  <2>1. KvInv' /\ LoadsInv' /\ CacheInv'
    BY <1>1, SameKv, EndedLoads DEF panelVars, PanelInv, CacheInv
  <2> QED  BY <1>1, <2>1 DEF panelVars, PanelInv, FallbackRecent, FallbackComplete
<1> QED
  BY <1>1, PollKeeps, ListKeysKeeps, GetConfigKeeps, FillConfigsKeeps, LoadFailsKeeps,
     OthersKeep, RestartKeeps
  DEF Next

LEMMA PanelInvariance == Spec => []PanelInv
<1> QED  BY PanelInit, PanelNext, PTL DEF Spec

(* Every variable of the fallback keeps its shape; a cache is one load.    *)
THEOREM PanelTypeCorrect == Spec => []TypeOK
<1>1. ASSUME PanelInv, NEW i \in Isolate
      PROVE  Cardinality(kvConfigsCache[i]) <= 1
  <2>1. \A c, d \in kvConfigsCache[i] : c = d
    BY <1>1 DEF PanelInv, CacheInv
  <2>2. CASE kvConfigsCache[i] = {}
    BY <2>2, FS_EmptySet
  <2>3. CASE kvConfigsCache[i] # {}
    <3>1. PICK c : kvConfigsCache[i] = {c}
      BY <2>1, <2>3
    <3>2. Cardinality({c}) = 1
      BY FS_Singleton
    <3> QED  BY <3>1, <3>2
  <2> QED  BY <2>2, <2>3
<1>2. PanelInv => TypeOK
  BY <1>1 DEF PanelInv, KvInv, LoadsInv, CacheInv, TypeOK
<1> QED  BY <1>2, PanelInvariance, PTL

(* What is delivered while KV answers was listed less than a TTL and one   *)
(* request's life ago, for any number of overlapping loads                 *)
(* (subscriptions.ts:12-22, 102-131).                                      *)
THEOREM FallbackIsRecent == Spec => []FallbackRecent
<1>1. PanelInv => FallbackRecent
  BY DEF PanelInv
<1> QED  BY <1>1, PanelInvariance, PTL

(* A load delivers every config that was deployed and enabled all along,   *)
(* unless more are listed than it reads (subscriptions.ts:107-130).        *)
THEOREM FallbackIsComplete == Spec => []FallbackComplete
<1>1. PanelInv => FallbackComplete
  BY DEF PanelInv
<1> QED  BY <1>1, PanelInvariance, PTL

(* The fallback's own list and gets, among everybody else's calls, leave   *)
(* the table a KV store: its loads could be served by any KV binding that  *)
(* keeps the promise of KVStore (subscriptions.ts:107-126).                *)
THEOREM FallbackKeepsKV == Spec => KeepsKV
<1>1. Init => KV!Init
  BY DEF Init, KvInit, KV!Init, Unexpired
<1>2. PanelInv /\ [Next]_panelVars =>
        [KV!Next]_<<Entries(kv_store, now), answer, now>>
  <2> SUFFICES ASSUME PanelInv, [Next]_panelVars
               PROVE  KV!Next \/ UNCHANGED <<Entries(kv_store, now), answer, now>>
    OBVIOUS
  <2>1. KvInv
    BY DEF PanelInv
  <2>2. ASSUME UNCHANGED <<kv_store, now, answer>>
        PROVE  UNCHANGED <<Entries(kv_store, now), answer, now>>
    BY <2>2 DEF Entries, Unexpired
  <2>3. ASSUME NEW q \in loads, ListKeys(q)
        PROVE  KV!Next
    <3>1. PICK page : List(ClientPrefix, DefaultListLimit, <<>>, page)
      BY <2>3 DEF ListKeys
    <3>2. UNCHANGED now
      BY <2>3 DEF ListKeys
    <3> QED  BY <2>1, <3>1, <3>2, KvAssumption, PanelAssumption, ListRefines
  <2>4. ASSUME NEW q \in loads, NEW k \in Key, GetConfig(q, k)
        PROVE  KV!Next
    BY <2>1, <2>4, GetRefines DEF GetConfig
  <2>5. CASE Others
    BY <2>1, <2>5, KvStepRefines DEF Others
  <2>6. ASSUME NEW q \in loads, FillConfigs(q) \/ LoadFails(q)
        PROVE  UNCHANGED <<kv_store, now, answer>>
    BY <2>6 DEF FillConfigs, LoadFails
  <2>7. ASSUME NEW id \in Req, NEW i \in Isolate, Poll(id, i)
        PROVE  UNCHANGED <<kv_store, now, answer>>
    BY <2>7 DEF Poll
  <2>8. ASSUME NEW i \in Isolate, Restart(i)
        PROVE  UNCHANGED <<kv_store, now, answer>>
    BY <2>8 DEF Restart
  <2>9. CASE UNCHANGED panelVars
    BY <2>2, <2>9 DEF panelVars
  <2> QED  BY <2>2, <2>3, <2>4, <2>5, <2>6, <2>7, <2>8, <2>9 DEF Next
<1>3. PanelInv /\ [Next]_panelVars =>
        [KV!Next]_<<{[key |-> r.key, value |-> r.value, metadata |-> r.metadata,
                      until |-> r.expire_at] : r \in Unexpired(kv_store, now)},
                    answer, now>>
  BY <1>2 DEF Entries, Entry
<1> QED  BY <1>1, <1>3, PanelInvariance, PTL DEF Spec, KeepsKV, KV!Spec
=============================================================================
