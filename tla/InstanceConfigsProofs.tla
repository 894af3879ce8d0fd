----------------------- MODULE InstanceConfigsProofs -----------------------
(***************************************************************************)
(* What the instance tables promise, for any number of nodes, instances,   *)
(* tags and overlapping requests, with foreign keys enforced or not.       *)
(***************************************************************************)
EXTENDS InstanceConfigs, TLAPS

(* A row after one of its statements is a row.                             *)
LEMMA RowFields ==
  ASSUME NEW r \in Row, NEW p \in RawTag, NEW t \in RawTag, NEW b \in BOOLEAN
  PROVE  /\ [r EXCEPT !.conf = p, !.staleConf = b] \in Row
         /\ [r EXCEPT !.tag = t, !.legacy = FALSE, !.staleTag = b] \in Row
         /\ [r EXCEPT !.params = p, !.conf = p, !.tag = Trim[p],
                      !.staleConf = FALSE, !.staleTag = FALSE,
                      !.legacy = FALSE] \in Row
<1>1. Trim[p] \in RawTag
  BY InstanceAssumption
<1> QED  BY <1>1 DEF Row

(* The observers keep requests what they are.                              *)
LEMMA DirtyType ==
  ASSUME TypeOK, NEW S \in SUBSET Inst, DirtyRows(S)
  PROVE  /\ rerenders' \subseteq RerenderRequest
         /\ checks' \subseteq CheckRequest
<1>1. \A q \in RerenderRequest :
        [q EXCEPT !.dirty = @ \cup S] \in RerenderRequest
  BY DEF RerenderRequest
<1>2. \A q \in CheckRequest : [q EXCEPT !.dirty = @ \cup S] \in CheckRequest
  BY DEF CheckRequest
<1> QED  BY <1>1, <1>2 DEF TypeOK, DirtyRows

LEMMA GoneType ==
  ASSUME TypeOK, NEW n \in Node, NodeGone(n)
  PROVE  /\ creates' \subseteq CreateRequest
         /\ registers' \subseteq RegisterRequest
<1>1. \A q \in CreateRequest :
        [q EXCEPT !.gone = @ \/ q.node = n] \in CreateRequest
  BY DEF CreateRequest
<1>2. \A q \in RegisterRequest :
        [q EXCEPT !.gone = @ \/ q.fp = fingerprint[n]] \in RegisterRequest
  BY DEF RegisterRequest
<1> QED  BY <1>1, <1>2 DEF TypeOK, NodeGone

LEMMA AddNodeType ==
  ASSUME TypeOK, NEW n \in Node, NEW f \in Fingerprint \cup {NoFingerprint},
         AddNode(n, f)
  PROVE  /\ nodes' \in [Node -> {"unused", "present", "deleted"}]
         /\ fingerprint' \in [Node -> Fingerprint \cup {NoFingerprint}]
BY DEF TypeOK, AddNode

LEMMA WithoutType ==
  ASSUME TypeOK, NEW S, instances' = Without(S)
  PROVE  /\ Stored' = Stored \ S
         /\ Stored' \subseteq used
         /\ instances' \in [Stored' -> Row]
BY DEF TypeOK, Without, Stored

LEMMA AnswerTypes ==
  ASSUME TypeOK, NEW q \in checks, PassInstances(q)
  PROVE  /\ checks' \subseteq CheckRequest
         /\ answer' \subseteq CheckAnswer \cup RegisterAnswer
<1>1. q.tag \in Tag
  BY DEF TypeOK, CheckRequest
<1>2. Carrying(q.tag) \subseteq Inst
  BY DEF TypeOK, Carrying
<1> QED  BY <1>1, <1>2 DEF TypeOK, PassInstances, CheckAnswer

LEMMA AdvanceType ==
  ASSUME TypeOK, NEW q \in checks, NEW S \in SUBSET Inst,
         NEW D \in SUBSET Inst, NEW ph \in {"probe", "scan", "heal"},
         Advance(q, ph, S, D)
  PROVE  checks' \subseteq CheckRequest
<1>1. q \in CheckRequest
  BY DEF TypeOK
<1>2. [q EXCEPT !.phase = ph, !.found = S, !.dirty = D] \in CheckRequest
  BY <1>1 DEF CheckRequest
<1> QED  BY <1>2 DEF TypeOK, Advance

-----------------------------------------------------------------------------
LEMMA TypeInit == Init => TypeOK
<1> SUFFICES ASSUME Init PROVE TypeOK
  OBVIOUS
<1>1. PICK home \in [used -> Node], params \in [used -> RawTag] :
        /\ nodes = [n \in Node |-> IF \E i \in used : home[i] = n
                                   THEN "present" ELSE "unused"]
        /\ instances = [i \in used |->
             [node |-> home[i], params |-> params[i], conf |-> params[i],
              tag |-> NoTag, orphaned |-> FALSE, staleConf |-> FALSE,
              staleTag |-> FALSE, legacy |-> TRUE]]
  BY DEF Init
<1>2. Stored = used
  BY <1>1 DEF Stored
<1>3. \A i \in used :
        [node |-> home[i], params |-> params[i], conf |-> params[i],
         tag |-> NoTag, orphaned |-> FALSE, staleConf |-> FALSE,
         staleTag |-> FALSE, legacy |-> TRUE] \in Row
  BY DEF Row, RawTag
<1>4. instances \in [Stored -> Row]
  BY <1>1, <1>2, <1>3
<1> QED  BY <1>1, <1>2, <1>4 DEF Init, TypeOK

LEMMA TypeStep == TypeOK /\ [Next]_vars => TypeOK'
<1> SUFFICES ASSUME TypeOK, [Next]_vars PROVE TypeOK'
  OBVIOUS
<1> USE DEF nodeVars, tableVars, requestVars
<1>1. ASSUME NEW n \in Node, CreateNode(n) PROVE TypeOK'
  BY <1>1, AddNodeType DEF CreateNode, TypeOK, Silent, Stored
<1>2. ASSUME NEW n \in Node, DeleteNode(n) PROVE TypeOK'
  <2>1. OnNode(n) \subseteq Inst
    BY DEF TypeOK, OnNode
  <2>2. /\ rerenders' \subseteq RerenderRequest
        /\ checks' \subseteq CheckRequest
    BY <1>2, <2>1, DirtyType DEF DeleteNode
  <2>3. /\ creates' \subseteq CreateRequest
        /\ registers' \subseteq RegisterRequest
    BY <1>2, GoneType DEF DeleteNode
  <2>4. /\ Stored' \subseteq used
        /\ instances' \in [Stored' -> Row]
    BY <1>2, WithoutType DEF DeleteNode
  <2> QED  BY <1>2, <2>2, <2>3, <2>4 DEF DeleteNode, TypeOK, Silent
<1>3. ASSUME NEW i \in Stored, NEW p \in RawTag, UpdateParams(i, p)
      PROVE TypeOK'
  <2>1. i \in Inst
    BY DEF TypeOK
  <2>2. /\ rerenders' \subseteq RerenderRequest
        /\ checks' \subseteq CheckRequest
    BY <1>3, <2>1, DirtyType DEF UpdateParams
  <2>3. instances[i] \in Row
    BY DEF TypeOK
  <2>4. [instances[i] EXCEPT !.params = p, !.conf = p, !.tag = Trim[p],
                             !.staleConf = FALSE, !.staleTag = FALSE,
                             !.legacy = FALSE] \in Row
    BY <2>3, RowFields
  <2>5. instances' = [instances EXCEPT ![i] =
          [instances[i] EXCEPT !.params = p, !.conf = p, !.tag = Trim[p],
                               !.staleConf = FALSE, !.staleTag = FALSE,
                               !.legacy = FALSE]]
    BY <1>3, <2>3 DEF UpdateParams, TypeOK, Row
  <2>6. Stored' = Stored /\ instances' \in [Stored -> Row]
    BY <2>4, <2>5 DEF TypeOK, Stored
  <2> QED  BY <1>3, <2>2, <2>6 DEF UpdateParams, TypeOK, Silent
<1>4. ASSUME NEW i \in Stored, DeleteInstance(i) PROVE TypeOK'
  <2>1. i \in Inst
    BY DEF TypeOK
  <2>2. /\ rerenders' \subseteq RerenderRequest
        /\ checks' \subseteq CheckRequest
    BY <1>4, <2>1, DirtyType DEF DeleteInstance
  <2>3. /\ Stored' \subseteq used
        /\ instances' \in [Stored' -> Row]
    BY <1>4, WithoutType DEF DeleteInstance
  <2> QED  BY <1>4, <2>2, <2>3 DEF DeleteInstance, TypeOK, Silent
<1>5. ASSUME NEW id \in Req, NEW f \in Fingerprint, NEW n \in Node,
             RegisterNode(id, f, n)
      PROVE TypeOK'
  <2>1. [id |-> id, fp |-> f, gone |-> FALSE] \in RegisterRequest
    BY DEF RegisterRequest
  <2> QED  BY <1>5, <2>1, AddNodeType DEF RegisterNode, TypeOK, Silent, Stored
<1>6. ASSUME NEW id \in Req, NEW n \in Node, NEW p \in RawTag,
             FindNode(id, n, p)
      PROVE TypeOK'
  <2>1. [id |-> id, node |-> n, params |-> p, gone |-> FALSE]
          \in CreateRequest
    BY DEF CreateRequest
  <2>2. creates' \subseteq CreateRequest
    BY <1>6, <2>1 DEF FindNode, TypeOK
  <2> QED  BY <1>6, <2>2 DEF FindNode, TypeOK, Silent, Stored
<1>7. ASSUME NEW id \in Req, SelectInstances(id) PROVE TypeOK'
  <2>1. {<<i, instances[i].params>> : i \in Stored} \subseteq Inst \X RawTag
    BY DEF TypeOK, Row
  <2>2. [id |-> id, rows |-> {<<i, instances[i].params>> : i \in Stored},
         dirty |-> {}] \in RerenderRequest
    BY <2>1 DEF RerenderRequest
  <2> QED  BY <1>7, <2>2 DEF SelectInstances, TypeOK, Silent, Stored
<1>8. ASSUME NEW id \in Req, NEW t \in Tag, LookupTag(id, t) PROVE TypeOK'
  BY <1>8 DEF LookupTag, TypeOK, CheckRequest, Silent, Stored
<1>9. ASSUME NEW id \in Req, Abort(id) PROVE TypeOK'
  BY <1>9 DEF Abort, TypeOK, Silent, Stored
<1>10. ASSUME NEW q \in registers, RefreshNode(q) PROVE TypeOK'
  <2>1. q.gone \in BOOLEAN
    BY DEF TypeOK, RegisterRequest
  <2>2. answer' \subseteq RegisterAnswer
    BY <1>10, <2>1 DEF RefreshNode, RegisterAnswer
  <2> QED  BY <1>10, <2>2 DEF RefreshNode, TypeOK, Stored
<1>11. ASSUME NEW q \in creates, NEW i \in Inst, InsertInstance(q, i)
       PROVE TypeOK'
  <2>1. /\ rerenders' \subseteq RerenderRequest
        /\ checks' \subseteq CheckRequest
    BY <1>11, DirtyType DEF InsertInstance
  <2>2. q \in CreateRequest
    BY DEF TypeOK
  <2> DEFINE r == [node |-> q.node, params |-> q.params, conf |-> q.params,
                   tag |-> Trim[q.params], orphaned |-> q.gone,
                   staleConf |-> FALSE, staleTag |-> FALSE, legacy |-> FALSE]
  <2>3. r \in Row
    BY <2>2, InstanceAssumption DEF CreateRequest, Row
  <2>4. instances' = [j \in Stored \cup {i} |->
                        IF j = i THEN r ELSE instances[j]]
    BY <1>11 DEF InsertInstance
  <2> HIDE DEF r
  <2>5. Stored' = Stored \cup {i} /\ instances' \in [Stored' -> Row]
    BY <2>3, <2>4 DEF TypeOK, Stored
  <2> QED  BY <1>11, <2>1, <2>5 DEF InsertInstance, TypeOK, Silent
<1>12. ASSUME NEW q \in rerenders, NEW row \in q.rows, RerenderRow(q, row)
       PROVE TypeOK'
  <2>1. q \in RerenderRequest
    BY DEF TypeOK
  <2>2. row[1] \in Inst /\ row[2] \in RawTag
    BY <2>1 DEF RerenderRequest
  <2>3. [q EXCEPT !.rows = q.rows \ {row}] \in RerenderRequest
    BY <2>1 DEF RerenderRequest
  <2>4. rerenders' \subseteq RerenderRequest
    BY <1>12, <2>3 DEF RerenderRow, TypeOK
  <2>5. Stored' = Stored /\ instances' \in [Stored -> Row]
    <3>1. CASE UNCHANGED instances
      BY <3>1 DEF TypeOK, Stored
    <3>2. CASE /\ row[1] \in Stored
               /\ instances' = [instances EXCEPT ![row[1]].conf = row[2],
                                  ![row[1]].staleConf = row[1] \in q.dirty]
      <4>1. instances[row[1]] \in Row
        BY <3>2 DEF TypeOK
      <4>2. (row[1] \in q.dirty) \in BOOLEAN
        OBVIOUS
      <4>3. [instances[row[1]] EXCEPT !.conf = row[2],
                             !.staleConf = row[1] \in q.dirty] \in Row
        BY <2>2, <4>1, <4>2, RowFields
      <4>4. instances' = [instances EXCEPT ![row[1]] =
              [instances[row[1]] EXCEPT !.conf = row[2],
                             !.staleConf = row[1] \in q.dirty]]
        BY <3>2, <4>1 DEF TypeOK, Row
      <4> QED  BY <4>3, <4>4 DEF TypeOK, Stored
    <3> QED  BY <1>12, <3>1, <3>2 DEF RerenderRow
  <2> QED  BY <1>12, <2>4, <2>5 DEF RerenderRow, TypeOK, Silent
<1>13. ASSUME NEW q \in checks, ProbeLegacy(q) PROVE TypeOK'
  <2>1. q.dirty \in SUBSET Inst /\ {} \in SUBSET Inst
    BY DEF TypeOK, CheckRequest
  <2> QED
    BY <1>13, <2>1, AdvanceType, AnswerTypes
       DEF ProbeLegacy, TypeOK, Silent, Stored
<1>14. ASSUME NEW q \in checks, ScanParams(q) PROVE TypeOK'
  <2>1. Carrying(q.tag) \subseteq Inst
    BY DEF TypeOK, Carrying
  <2> QED
    BY <1>14, <2>1, AdvanceType, AnswerTypes
       DEF ScanParams, TypeOK, Silent, Stored
<1>15. ASSUME NEW q \in checks, HealTag(q) PROVE TypeOK'
  <2>1. q \in CheckRequest
    BY DEF TypeOK
  <2>2. \A r \in CheckRequest :
          [r EXCEPT !.retagged = @ \cup q.found] \in CheckRequest
    BY <2>1 DEF CheckRequest
  <2>3. checks' \subseteq CheckRequest
    <3>1. CASE checks' = {[r EXCEPT !.retagged = @ \cup q.found] :
                            r \in checks \ {q}}
      BY <2>2, <3>1 DEF TypeOK
    <3>2. CASE checks' = checks \ {q}
      BY <3>2 DEF TypeOK
    <3> QED  BY <1>15, <3>1, <3>2, Zenon DEF HealTag
  <2>4. Stored' = Stored /\ instances' \in [Stored -> Row]
    <3>1. \A i \in Stored :
            [instances[i] EXCEPT !.tag = q.tag, !.legacy = FALSE,
                                 !.staleTag = i \in q.dirty] \in Row
      <4>1. q.tag \in RawTag
        BY <2>1 DEF CheckRequest, RawTag
      <4>2. \A i : (i \in q.dirty) \in BOOLEAN
        OBVIOUS
      <4>3. \A i \in Stored : instances[i] \in Row
        BY DEF TypeOK
      <4> QED  BY <4>1, <4>2, <4>3, RowFields, Zenon
    <3> QED  BY <1>15, <3>1 DEF HealTag, TypeOK, Stored
  <2> QED  BY <1>15, <2>3, <2>4 DEF HealTag, TypeOK, Silent
<1>16. CASE UNCHANGED vars
  BY <1>16 DEF vars, TypeOK, Stored
<1> QED
  BY <1>1, <1>2, <1>3, <1>4, <1>5, <1>6, <1>7, <1>8, <1>9, <1>10, <1>11,
     <1>12, <1>13, <1>14, <1>15, <1>16 DEF Next, Begin, Continue

(* Every table and request keeps its type (the row shape of schema.ts).    *)
THEOREM TypeCorrect == Spec => []TypeOK
BY TypeInit, TypeStep, PTL DEF Spec

-----------------------------------------------------------------------------
(* Healing writes the tag of one row, and its observers.                   *)
LEMMA HealedRows ==
  ASSUME TypeOK, NEW q \in checks, HealTag(q)
  PROVE  /\ Stored' = Stored
         /\ \A j \in Stored :
              /\ instances'[j].node = instances[j].node
              /\ instances'[j].orphaned = instances[j].orphaned
              /\ instances'[j].params = instances[j].params
              /\ instances'[j].conf = instances[j].conf
              /\ instances'[j].staleConf = instances[j].staleConf
              /\ j \notin q.found => instances'[j] = instances[j]
              /\ \/ instances'[j] = instances[j]
                 \/ /\ instances'[j].tag = q.tag
                    /\ instances'[j].staleTag = (j \in q.dirty)
<1>1. \A r \in Row, b \in BOOLEAN :
        LET s == [r EXCEPT !.tag = q.tag, !.legacy = FALSE, !.staleTag = b] IN
        /\ s.node = r.node /\ s.orphaned = r.orphaned /\ s.params = r.params
        /\ s.conf = r.conf /\ s.staleConf = r.staleConf
        /\ s.tag = q.tag /\ s.staleTag = b
  BY DEF Row
<1>2. \A j : (j \in q.dirty) \in BOOLEAN
  OBVIOUS
<1>3. \A j \in Stored : instances[j] \in Row
  BY DEF TypeOK
<1>4. CASE UNCHANGED instances
  BY <1>4 DEF Stored
<1>5. CASE instances' = [i \in Stored |->
             IF i \in q.found
             THEN [instances[i] EXCEPT !.tag = q.tag, !.legacy = FALSE,
                                       !.staleTag = i \in q.dirty]
             ELSE instances[i]]
  <2>1. Stored' = Stored
    BY <1>5 DEF Stored
  <2>2. \A j \in Stored : j \notin q.found => instances'[j] = instances[j]
    BY <1>5
  <2>3. \A j \in Stored : j \in q.found =>
          instances'[j] = [instances[j] EXCEPT !.tag = q.tag, !.legacy = FALSE,
                                               !.staleTag = j \in q.dirty]
    BY <1>5, Zenon
  <2>4. ASSUME NEW j \in Stored, j \in q.found
        PROVE  /\ instances'[j].node = instances[j].node
               /\ instances'[j].orphaned = instances[j].orphaned
               /\ instances'[j].params = instances[j].params
               /\ instances'[j].conf = instances[j].conf
               /\ instances'[j].staleConf = instances[j].staleConf
               /\ instances'[j].tag = q.tag
               /\ instances'[j].staleTag = (j \in q.dirty)
    <3> DEFINE b == j \in q.dirty
    <3>1. b \in BOOLEAN /\ instances[j] \in Row
      BY <1>2, <1>3, <2>4
    <3>2. instances'[j] = [instances[j] EXCEPT !.tag = q.tag,
                                    !.legacy = FALSE, !.staleTag = b]
      BY <2>3, <2>4, Zenon
    <3> HIDE DEF b
    <3>3. /\ instances'[j].node = instances[j].node
          /\ instances'[j].orphaned = instances[j].orphaned
          /\ instances'[j].params = instances[j].params
          /\ instances'[j].conf = instances[j].conf
          /\ instances'[j].staleConf = instances[j].staleConf
          /\ instances'[j].tag = q.tag
          /\ instances'[j].staleTag = b
      BY <1>1, <3>1, <3>2
    <3> QED  BY <3>3, Zenon DEF b
  <2> QED  BY <2>1, <2>2, <2>4, Zenon
<1> QED  BY <1>4, <1>5, Zenon DEF HealTag

(* A re-render writes the configs of one row, and their observer.          *)
LEMMA RerenderedRows ==
  ASSUME TypeOK, NEW q \in rerenders, NEW row \in q.rows, RerenderRow(q, row)
  PROVE  /\ Stored' = Stored
         /\ \A j \in Stored :
              /\ instances'[j].node = instances[j].node
              /\ instances'[j].orphaned = instances[j].orphaned
              /\ instances'[j].params = instances[j].params
              /\ instances'[j].tag = instances[j].tag
              /\ instances'[j].staleTag = instances[j].staleTag
              /\ instances'[j].legacy = instances[j].legacy
              /\ \/ instances'[j] = instances[j]
                 \/ /\ j = row[1] /\ instances'[j].conf = row[2]
                    /\ instances'[j].staleConf = (j \in q.dirty)
<1>1. CASE UNCHANGED instances
  BY <1>1 DEF Stored
<1>2. CASE /\ row[1] \in Stored
           /\ instances' = [instances EXCEPT ![row[1]].conf = row[2],
                              ![row[1]].staleConf = row[1] \in q.dirty]
  BY <1>2 DEF TypeOK, Row, Stored
<1> QED  BY <1>1, <1>2, Zenon DEF RerenderRow

(* A request that found its node knows when it is deleted.                 *)
NodesWatched ==
  \A q \in creates : nodes[q.node] = "present" \/ q.gone

NodeInv == TypeOK /\ NoDangling /\ NodesWatched

LEMMA NodeInvStep == NodeInv /\ [Next]_vars => NodeInv'
<1> SUFFICES ASSUME NodeInv, [Next]_vars PROVE NodeInv'
  OBVIOUS
<1> USE DEF nodeVars, tableVars, requestVars
<1>0. TypeOK /\ TypeOK'
  BY TypeStep DEF NodeInv
<1>1. ASSUME NEW n \in Node, NEW f, AddNode(n, f), UNCHANGED instances,
             UNCHANGED creates
      PROVE NodeInv'
  <2>1. \A m \in Node : nodes[m] = "present" => nodes'[m] = "present"
    BY <1>0, <1>1 DEF AddNode, TypeOK
  <2>2. NoDangling'
    BY <1>0, <1>1, <2>1 DEF NodeInv, NoDangling, Stored, TypeOK, Row
  <2>3. NodesWatched'
    BY <1>0, <1>1, <2>1 DEF NodeInv, NodesWatched, TypeOK, CreateRequest
  <2> QED  BY <1>0, <2>2, <2>3 DEF NodeInv
<1>2. ASSUME NEW n \in Node, DeleteNode(n) PROVE NodeInv'
  <2>1. \A m \in Node : m # n => nodes'[m] = nodes[m]
    BY <1>0, <1>2 DEF DeleteNode, TypeOK
  <2>2. NoDangling'
    <3> SUFFICES ASSUME NEW i \in Stored'
                 PROVE  nodes'[instances'[i].node] = "present"
                        \/ (instances'[i].orphaned /\ ~Enforced)
      BY DEF NoDangling
    <3>1. i \in Stored /\ i \notin OnNode(n) /\ instances'[i] = instances[i]
      BY <1>2 DEF DeleteNode, Without, Stored
    <3>2. instances[i].node # n /\ instances[i].node \in Node
      BY <1>0, <3>1 DEF OnNode, TypeOK, Row
    <3> QED  BY <2>1, <3>1, <3>2 DEF NodeInv, NoDangling
  <2>3. NodesWatched'
    <3> SUFFICES ASSUME NEW q \in creates'
                 PROVE  nodes'[q.node] = "present" \/ q.gone
      BY DEF NodesWatched
    <3>1. PICK r \in creates : q = [r EXCEPT !.gone = @ \/ r.node = n]
      BY <1>2 DEF DeleteNode, NodeGone
    <3>2. r \in CreateRequest
      BY <1>0 DEF TypeOK
    <3>3. q.node = r.node /\ r.node \in Node /\ q.gone = (r.gone \/ r.node = n)
      BY <3>1, <3>2 DEF CreateRequest
    <3> QED  BY <2>1, <3>3 DEF NodeInv, NodesWatched
  <2> QED  BY <1>0, <2>2, <2>3 DEF NodeInv
<1>3. ASSUME NEW q \in creates, NEW i \in Inst, InsertInstance(q, i)
      PROVE NodeInv'
  <2>1. /\ instances'[i].node = q.node /\ instances'[i].orphaned = q.gone
        /\ \A j \in Stored : j # i => instances'[j] = instances[j]
        /\ Stored' = Stored \cup {i}
    BY <1>3 DEF InsertInstance, Stored
  <2>2. nodes[q.node] = "present" \/ (q.gone /\ ~Enforced)
    BY <1>3 DEF InsertInstance, NodeInv, NodesWatched
  <2>3. NoDangling'
    BY <1>3, <2>1, <2>2 DEF InsertInstance, NodeInv, NoDangling
  <2>4. NodesWatched'
    BY <1>3 DEF InsertInstance, NodeInv, NodesWatched
  <2> QED  BY <1>0, <2>3, <2>4 DEF NodeInv
<1>4. ASSUME UNCHANGED nodes, Stored' \subseteq Stored,
             \A i \in Stored' : /\ instances'[i].node = instances[i].node
                                /\ instances'[i].orphaned
                                     = instances[i].orphaned,
             creates' \subseteq creates
      PROVE NodeInv'
  BY <1>0, <1>4 DEF NodeInv, NoDangling, NodesWatched
<1>5. ASSUME NEW id \in Req, NEW n \in Node, NEW p \in RawTag,
             FindNode(id, n, p)
      PROVE NodeInv'
  <2>1. NodesWatched'
    BY <1>5 DEF FindNode, NodeInv, NodesWatched
  <2> QED  BY <1>0, <1>5, <2>1 DEF FindNode, NodeInv, NoDangling, Stored
<1>6. ASSUME NEW i \in Stored, NEW p \in RawTag, UpdateParams(i, p)
      PROVE NodeInv'
  <2>1. /\ Stored' = Stored
        /\ \A j \in Stored : /\ instances'[j].node = instances[j].node
                              /\ instances'[j].orphaned
                                   = instances[j].orphaned
    BY <1>0, <1>6 DEF UpdateParams, TypeOK, Row, Stored
  <2> QED  BY <1>4, <1>6, <2>1 DEF UpdateParams
<1>7. ASSUME NEW i \in Stored, DeleteInstance(i) PROVE NodeInv'
  <2>1. /\ Stored' \subseteq Stored
        /\ \A j \in Stored' : instances'[j] = instances[j]
    BY <1>7 DEF DeleteInstance, Without, Stored
  <2> QED  BY <1>4, <1>7, <2>1 DEF DeleteInstance
<1>8. ASSUME NEW q \in rerenders, NEW row \in q.rows, RerenderRow(q, row)
      PROVE NodeInv'
  <2>1. /\ Stored' = Stored
        /\ \A j \in Stored : /\ instances'[j].node = instances[j].node
                              /\ instances'[j].orphaned
                                   = instances[j].orphaned
    BY <1>0, <1>8, RerenderedRows
  <2> QED  BY <1>4, <1>8, <2>1 DEF RerenderRow
<1>9. ASSUME NEW q \in checks, HealTag(q) PROVE NodeInv'
  <2>1. /\ Stored' = Stored
        /\ \A j \in Stored : /\ instances'[j].node = instances[j].node
                              /\ instances'[j].orphaned
                                   = instances[j].orphaned
    BY <1>0, <1>9, HealedRows
  <2> QED  BY <1>4, <1>9, <2>1 DEF HealTag
<1>10. ASSUME UNCHANGED <<nodes, instances>>, creates' \subseteq creates
       PROVE NodeInv'
  BY <1>4, <1>10 DEF Stored
<1>11. ASSUME NEW id \in Req, NEW f \in Fingerprint, NEW n \in Node,
              RegisterNode(id, f, n)
       PROVE NodeInv'
  BY <1>1, <1>10, <1>11 DEF RegisterNode
<1>12. ASSUME NEW n \in Node, CreateNode(n) PROVE NodeInv'
  BY <1>1, <1>12 DEF CreateNode
<1>13. ASSUME NEW id \in Req, Abort(id) PROVE NodeInv'
  <2>1. creates' \subseteq creates
    BY <1>13 DEF Abort
  <2> QED  BY <1>10, <1>13, <2>1 DEF Abort
<1>14. CASE UNCHANGED <<nodes, instances, creates>>
  BY <1>10, <1>14
<1> QED
  BY <1>2, <1>3, <1>5, <1>6, <1>7, <1>8, <1>9, <1>11, <1>12, <1>13, <1>14
     DEF Next, Begin, Continue, SelectInstances, LookupTag, RefreshNode,
         ProbeLegacy, ScanParams, vars

(* A missing node is always the one race the code leaves open, and with    *)
(* foreign keys enforced no instance is ever without its node              *)
(* (nodes.ts:131-137, protocol-instances.ts:51-81).                        *)
THEOREM NeverDangling == Spec => []NoDangling
<1>1. Init => NodeInv
  <2> SUFFICES ASSUME Init PROVE NodeInv
    OBVIOUS
  <2>1. NoDangling
    BY DEF Init, NoDangling, Stored
  <2> QED  BY <2>1, TypeInit DEF Init, NodeInv, NodesWatched
<1>2. NodeInv => NoDangling
  BY DEF NodeInv
<1> QED  BY <1>1, <1>2, NodeInvStep, PTL DEF Spec

-----------------------------------------------------------------------------
(* Steps that change no row and start or change no registration keep what  *)
(* is known of registrations.                                              *)
RegistrationsWatched ==
  \A q \in registers : Registered(q.fp) # {} \/ q.gone

HeartInv == TypeOK /\ HeartbeatKept /\ RegistrationsWatched

LEMMA HeartInvStep == HeartInv /\ [Next]_vars => HeartInv'
<1> SUFFICES ASSUME HeartInv, [Next]_vars PROVE HeartInv'
  OBVIOUS
<1> USE DEF nodeVars, tableVars, requestVars
<1>0. TypeOK /\ TypeOK'
  BY TypeStep DEF HeartInv
<1>1. ASSUME NEW n \in Node, NEW f, AddNode(n, f), UNCHANGED registers,
             Silent
      PROVE HeartInv'
  <2>1. \A m \in Node : nodes[m] = "present" =>
          nodes'[m] = "present" /\ fingerprint'[m] = fingerprint[m]
    BY <1>0, <1>1 DEF AddNode, TypeOK
  <2>2. \A g : Registered(g) \subseteq Registered(g)'
    BY <2>1 DEF Registered
  <2>3. RegistrationsWatched'
    BY <1>1, <2>2 DEF HeartInv, RegistrationsWatched
  <2> QED  BY <1>0, <1>1, <2>3 DEF HeartInv, HeartbeatKept, Silent
<1>2. ASSUME NEW n \in Node, DeleteNode(n) PROVE HeartInv'
  <2>1. \A m \in Node : m # n => nodes'[m] = nodes[m]
    BY <1>0, <1>2 DEF DeleteNode, TypeOK
  <2>2. RegistrationsWatched'
    <3> SUFFICES ASSUME NEW q \in registers'
                 PROVE  Registered(q.fp)' # {} \/ q.gone
      BY DEF RegistrationsWatched
    <3>1. PICK r \in registers :
            q = [r EXCEPT !.gone = @ \/ r.fp = fingerprint[n]]
      BY <1>2 DEF DeleteNode, NodeGone
    <3>2. r \in RegisterRequest
      BY <1>0 DEF TypeOK
    <3>3. q.fp = r.fp /\ q.gone = (r.gone \/ r.fp = fingerprint[n])
      BY <3>1, <3>2 DEF RegisterRequest
    <3>4. CASE r.fp # fingerprint[n]
      <4>1. n \notin Registered(r.fp)
        BY <3>4 DEF Registered
      <4>2. Registered(r.fp) \subseteq Registered(r.fp)'
        BY <1>2, <2>1, <4>1 DEF Registered, DeleteNode
      <4> QED  BY <3>3, <4>2 DEF HeartInv, RegistrationsWatched
    <3> QED  BY <3>3, <3>4
  <2> QED  BY <1>0, <1>2, <2>2 DEF HeartInv, HeartbeatKept, Silent, DeleteNode
<1>3. ASSUME UNCHANGED nodeVars, registers' \subseteq registers
      PROVE RegistrationsWatched'
  BY <1>3 DEF HeartInv, RegistrationsWatched, Registered
<1>4. ASSUME NEW q \in registers, RefreshNode(q) PROVE HeartInv'
  <2>1. registers' \subseteq registers
    BY <1>4 DEF RefreshNode
  <2>2. RegistrationsWatched'
    BY <1>3, <1>4, <2>1 DEF RefreshNode
  <2>3. HeartbeatKept'
    <3>1. q.gone \in BOOLEAN
      BY <1>0 DEF TypeOK, RegisterRequest
    <3>2. Registered(q.fp) # {} \/ q.gone
      BY DEF HeartInv, RegistrationsWatched
    <3>3. \A a \in answer' : /\ a.found = (Registered(q.fp) # {})
                             /\ a.gone = q.gone
      BY <1>4 DEF RefreshNode
    <3> QED  BY <3>1, <3>2, <3>3, Zenon DEF HeartbeatKept
  <2> QED  BY <1>0, <2>2, <2>3 DEF HeartInv
<1>5. ASSUME NEW id \in Req, NEW f \in Fingerprint, NEW n \in Node,
             RegisterNode(id, f, n)
      PROVE HeartInv'
  <2>1. CASE AddNode(n, f) /\ UNCHANGED registers
    BY <1>1, <1>5, <2>1 DEF RegisterNode
  <2>2. CASE /\ Registered(f) # {}
             /\ registers' = registers \cup
                  {[id |-> id, fp |-> f, gone |-> FALSE]}
             /\ UNCHANGED nodeVars
    <3>1. RegistrationsWatched'
      BY <2>2 DEF HeartInv, RegistrationsWatched, Registered
    <3> QED  BY <1>0, <1>5, <3>1 DEF HeartInv, HeartbeatKept, Silent, RegisterNode
  <2> QED  BY <1>5, <2>1, <2>2 DEF RegisterNode
<1>6. ASSUME NEW n \in Node, CreateNode(n) PROVE HeartInv'
  BY <1>1, <1>6 DEF CreateNode
<1>7. ASSUME NEW id \in Req, Abort(id) PROVE HeartInv'
  <2>1. registers' \subseteq registers
    BY <1>7 DEF Abort
  <2> QED  BY <1>0, <1>3, <1>7, <2>1 DEF Abort, HeartInv, HeartbeatKept, Silent
<1>8. ASSUME NEW q \in checks, PassInstances(q) PROVE HeartbeatKept'
  BY <1>8 DEF PassInstances, HeartbeatKept
<1>9. ASSUME UNCHANGED <<nodes, fingerprint, registers>>, HeartbeatKept'
      PROVE HeartInv'
  BY <1>0, <1>3, <1>9 DEF HeartInv
<1>10. ASSUME UNCHANGED <<nodes, fingerprint, registers>>, Silent
       PROVE HeartInv'
  BY <1>9, <1>10 DEF HeartbeatKept, Silent
<1>11. ASSUME NEW q \in checks,
              ProbeLegacy(q) \/ ScanParams(q) \/ HealTag(q)
       PROVE HeartInv'
  BY <1>8, <1>9, <1>10, <1>11 DEF ProbeLegacy, ScanParams, HealTag
<1>12. CASE UNCHANGED vars
  BY <1>9, <1>12 DEF vars, HeartInv, HeartbeatKept
<1> QED
  BY <1>2, <1>4, <1>5, <1>6, <1>7, <1>10, <1>11, <1>12
     DEF Next, Begin, Continue, FindNode, SelectInstances, LookupTag,
         InsertInstance, RerenderRow, UpdateParams, DeleteInstance

(* However many panels register and admins delete, a registration without  *)
(* a node is answered only if its node was deleted meanwhile               *)
(* (nodes.ts:43-58).                                                       *)
THEOREM HeartbeatHolds == Spec => []HeartbeatKept
<1>1. Init => HeartInv
  BY TypeInit DEF Init, HeartInv, HeartbeatKept, RegistrationsWatched
<1>2. HeartInv => HeartbeatKept
  BY DEF HeartInv
<1> QED  BY <1>1, <1>2, HeartInvStep, PTL DEF Spec

-----------------------------------------------------------------------------
(* A re-render knows which of the parameters it read were rewritten.       *)
SnapshotsWatched ==
  \A q \in rerenders : \A row \in q.rows :
    row[1] \in Stored => \/ row[2] = instances[row[1]].params
                         \/ row[1] \in q.dirty

ConfInv == TypeOK /\ ConfigsExplained /\ SnapshotsWatched

(* Changing the rows S and telling the requests keeps them informed.       *)
LEMMA DirtySnapshots ==
  ASSUME TypeOK, SnapshotsWatched, NEW S \in SUBSET Inst, DirtyRows(S),
         \A i \in Stored' \ S : i \in Stored /\ instances'[i] = instances[i]
  PROVE  SnapshotsWatched'
<1> SUFFICES ASSUME NEW q \in rerenders', NEW row \in q.rows,
                    row[1] \in Stored'
             PROVE  \/ row[2] = instances'[row[1]].params
                    \/ row[1] \in q.dirty
  BY DEF SnapshotsWatched
<1>1. PICK r \in rerenders : q = [r EXCEPT !.dirty = @ \cup S]
  BY DEF DirtyRows
<1>2. r \in RerenderRequest
  BY DEF TypeOK
<1>3. q.rows = r.rows /\ q.dirty = r.dirty \cup S
  BY <1>1, <1>2 DEF RerenderRequest
<1>4. row \in r.rows
  BY <1>3
<1>5. CASE row[1] \in S
  BY <1>3, <1>5
<1>6. CASE row[1] \notin S
  BY <1>3, <1>4, <1>6 DEF SnapshotsWatched
<1> QED  BY <1>5, <1>6

LEMMA ConfInvStep == ConfInv /\ [Next]_vars => ConfInv'
<1> SUFFICES ASSUME ConfInv, [Next]_vars PROVE ConfInv'
  OBVIOUS
<1> USE DEF nodeVars, tableVars, requestVars
<1>0. TypeOK /\ TypeOK'
  BY TypeStep DEF ConfInv
<1>1. ASSUME NEW S \in SUBSET Inst, DirtyRows(S),
             \A i \in Stored' \ S :
               i \in Stored /\ instances'[i] = instances[i],
             \A i \in Stored' \cap S : instances'[i].conf = instances'[i].params
      PROVE ConfInv'
  <2>1. SnapshotsWatched'
    BY <1>0, <1>1, DirtySnapshots DEF ConfInv
  <2>2. ConfigsExplained'
    BY <1>1 DEF ConfInv, ConfigsExplained
  <2> QED  BY <1>0, <2>1, <2>2 DEF ConfInv
<1>2. ASSUME NEW S \in SUBSET Inst, instances' = Without(S), DirtyRows(S)
      PROVE ConfInv'
  <2>1. \A i \in Stored' : i \in Stored \ S /\ instances'[i] = instances[i]
    BY <1>2 DEF Without, Stored
  <2> QED  BY <1>1, <1>2, <2>1
<1>3. ASSUME NEW n \in Node, DeleteNode(n) PROVE ConfInv'
  <2>1. OnNode(n) \in SUBSET Inst
    BY <1>0 DEF TypeOK, OnNode
  <2> QED  BY <1>2, <1>3, <2>1 DEF DeleteNode
<1>4. ASSUME NEW i \in Stored, DeleteInstance(i) PROVE ConfInv'
  <2>1. {i} \in SUBSET Inst
    BY <1>0 DEF TypeOK
  <2> QED  BY <1>2, <1>4, <2>1 DEF DeleteInstance
<1>5. ASSUME NEW i \in Stored, NEW p \in RawTag, UpdateParams(i, p)
      PROVE ConfInv'
  <2>1. {i} \in SUBSET Inst
    BY <1>0 DEF TypeOK
  <2>2. /\ Stored' = Stored
        /\ \A j \in Stored \ {i} : instances'[j] = instances[j]
        /\ instances'[i].conf = instances'[i].params
    BY <1>0, <1>5 DEF UpdateParams, TypeOK, Row, Stored
  <2> QED  BY <1>1, <1>5, <2>1, <2>2 DEF UpdateParams
<1>6. ASSUME NEW q \in creates, NEW i \in Inst, InsertInstance(q, i)
      PROVE ConfInv'
  <2>1. /\ Stored' = Stored \cup {i}
        /\ \A j \in Stored \ {i} : instances'[j] = instances[j]
        /\ instances'[i].conf = instances'[i].params
    BY <1>6 DEF InsertInstance, Stored
  <2> QED  BY <1>1, <1>6, <2>1 DEF InsertInstance
<1>7. ASSUME NEW q \in rerenders, NEW row \in q.rows, RerenderRow(q, row)
      PROVE ConfInv'
  <2>1. q \in RerenderRequest
    BY <1>0 DEF TypeOK
  <2>2. /\ Stored' = Stored
        /\ \A j \in Stored :
             /\ instances'[j].params = instances[j].params
             /\ \/ instances'[j] = instances[j]
                \/ /\ j = row[1] /\ instances'[j].conf = row[2]
                   /\ instances'[j].staleConf = (j \in q.dirty)
    BY <1>0, <1>7, RerenderedRows
  <2>3. \A r \in rerenders' : \E s \in rerenders :
          r.rows \subseteq s.rows /\ r.dirty = s.dirty
    <3> DEFINE t == [q EXCEPT !.rows = q.rows \ {row}]
    <3>1. t.rows \subseteq q.rows /\ t.dirty = q.dirty
      BY <2>1 DEF RerenderRequest
    <3>2. rerenders' \subseteq rerenders \cup {t}
      BY <1>7 DEF RerenderRow
    <3> HIDE DEF t
    <3> QED  BY <3>1, <3>2
  <2>4. SnapshotsWatched'
    <3> SUFFICES ASSUME NEW r \in rerenders', NEW w \in r.rows, w[1] \in Stored
                 PROVE  w[2] = instances'[w[1]].params \/ w[1] \in r.dirty
      BY <2>2 DEF SnapshotsWatched
    <3>1. PICK s \in rerenders : r.rows \subseteq s.rows /\ r.dirty = s.dirty
      BY <2>3
    <3>2. w[2] = instances[w[1]].params \/ w[1] \in s.dirty
      BY <3>1 DEF ConfInv, SnapshotsWatched
    <3> QED  BY <2>2, <3>1, <3>2
  <2>5. ConfigsExplained'
    <3> SUFFICES ASSUME NEW j \in Stored
                 PROVE  instances'[j].conf = instances'[j].params
                        \/ instances'[j].staleConf
      BY <2>2 DEF ConfigsExplained
    <3>1. CASE instances'[j] = instances[j]
      BY <3>1 DEF ConfInv, ConfigsExplained
    <3>2. CASE /\ j = row[1] /\ instances'[j].conf = row[2]
               /\ instances'[j].staleConf = (j \in q.dirty)
      <4>1. row[2] = instances[j].params \/ j \in q.dirty
        BY <3>2 DEF ConfInv, SnapshotsWatched
      <4> QED  BY <2>2, <3>2, <4>1
    <3> QED  BY <2>2, <3>1, <3>2
  <2> QED  BY <1>0, <2>4, <2>5 DEF ConfInv
<1>8. ASSUME NEW q \in checks, HealTag(q) PROVE ConfInv'
  <2>1. /\ Stored' = Stored
        /\ \A j \in Stored : /\ instances'[j].params = instances[j].params
                              /\ instances'[j].conf = instances[j].conf
                              /\ instances'[j].staleConf
                                   = instances[j].staleConf
    BY <1>0, <1>8, HealedRows
  <2>2. rerenders' = rerenders
    BY <1>8 DEF HealTag
  <2>3. ConfigsExplained'
    BY <2>1 DEF ConfInv, ConfigsExplained
  <2>4. SnapshotsWatched'
    BY <2>1, <2>2 DEF ConfInv, SnapshotsWatched
  <2> QED  BY <1>0, <2>3, <2>4 DEF ConfInv
<1>9. ASSUME UNCHANGED instances, rerenders' \subseteq rerenders
      PROVE ConfInv'
  BY <1>0, <1>9 DEF ConfInv, ConfigsExplained, SnapshotsWatched, Stored
<1>10. ASSUME NEW id \in Req, SelectInstances(id) PROVE ConfInv'
  <2> DEFINE r == [id |-> id, dirty |-> {},
                   rows |-> {<<i, instances[i].params>> : i \in Stored}]
  <2>1. \A row \in r.rows : row[2] = instances[row[1]].params
    OBVIOUS
  <2>2. rerenders' = rerenders \cup {r} /\ UNCHANGED instances
    BY <1>10 DEF SelectInstances
  <2> HIDE DEF r
  <2>3. SnapshotsWatched'
    BY <2>1, <2>2 DEF ConfInv, SnapshotsWatched, Stored
  <2> QED  BY <1>0, <2>2, <2>3 DEF ConfInv, ConfigsExplained, Stored
<1>11. ASSUME NEW id \in Req, Abort(id) PROVE ConfInv'
  <2>1. rerenders' \subseteq rerenders
    BY <1>11 DEF Abort
  <2> QED  BY <1>9, <1>11, <2>1 DEF Abort
<1>12. CASE UNCHANGED <<instances, rerenders>>
  BY <1>9, <1>12
<1> QED
  BY <1>3, <1>4, <1>5, <1>6, <1>7, <1>8, <1>10, <1>11, <1>12
     DEF Next, Begin, Continue, CreateNode, RegisterNode, FindNode,
         LookupTag, RefreshNode, ProbeLegacy, ScanParams, vars

(* Configs that are not those of their parameters have one cause: a        *)
(* re-render that read the parameters before the PUT that rewrote them     *)
(* (protocol-instances.ts:105-113, 177-191).                               *)
THEOREM ConfigsHold == Spec => []ConfigsExplained
<1>1. Init => ConfInv
  <2> SUFFICES ASSUME Init PROVE ConfInv
    OBVIOUS
  <2>1. ConfigsExplained
    BY DEF Init, ConfigsExplained, Stored
  <2> QED  BY <2>1, TypeInit DEF Init, ConfInv, SnapshotsWatched
<1>2. ConfInv => ConfigsExplained
  BY DEF ConfInv
<1> QED  BY <1>1, <1>2, ConfInvStep, PTL DEF Spec

-----------------------------------------------------------------------------
(* A check knows of the row it is about to heal whether its parameters     *)
(* were rewritten, and which rows may have got its tag since its lookup.   *)
FoundWatched ==
  \A q \in checks : \A i \in q.found \cap Stored :
    instances[i].params = q.tag \/ i \in q.dirty

MissesWatched ==
  \A q \in checks : q.phase # "heal" =>
    \A i \in Stored : \/ i \in q.dirty \cup q.retagged
                      \/ instances[i].tag # q.tag

TagInv == /\ TypeOK /\ TagsExplained /\ FoundWatched /\ MissesWatched
          /\ CheckSeesInstances

Watched == FoundWatched /\ MissesWatched

LEMMA DirtyChecks ==
  ASSUME TypeOK, Watched, NEW S \in SUBSET Inst, DirtyRows(S),
         \A i \in Stored' \ S : i \in Stored /\ instances'[i] = instances[i]
  PROVE  Watched'
<1>1. ASSUME NEW q \in checks'
      PROVE  \E r \in checks :
               /\ q.found = r.found /\ q.phase = r.phase /\ q.tag = r.tag
               /\ q.dirty = r.dirty \cup S /\ q.retagged = r.retagged
  <2>1. PICK r \in checks : q = [r EXCEPT !.dirty = @ \cup S]
    BY <1>1 DEF DirtyRows
  <2>2. r \in CheckRequest
    BY DEF TypeOK
  <2> QED  BY <2>1, <2>2 DEF CheckRequest
<1>2. FoundWatched'
  BY <1>1 DEF Watched, FoundWatched
<1>3. MissesWatched'
  BY <1>1 DEF Watched, MissesWatched
<1> QED  BY <1>2, <1>3 DEF Watched

(* What a check that goes on to KV may have missed.                        *)
LEMMA PassIsSound ==
  ASSUME TagInv, NEW q \in checks, PassInstances(q), q.phase # "heal",
         UNCHANGED instances,
         \/ \A i \in Stored : instances[i].tag # NoTag
         \/ Carrying(q.tag) = {}
  PROVE  CheckSeesInstances'
<1> SUFFICES ASSUME NEW i \in Carrying(q.tag) \ (q.dirty \cup q.retagged)
             PROVE  instances[i].staleTag \/ Trim[q.tag] # q.tag
  BY DEF PassInstances, CheckSeesInstances
<1>1. i \in Stored /\ instances[i].params = q.tag
  BY DEF Carrying
<1>2. instances[i].tag # q.tag
  BY <1>1 DEF TagInv, MissesWatched
<1>3. instances[i].tag # NoTag
  BY <1>1 DEF Carrying
<1> QED  BY <1>1, <1>2, <1>3 DEF TagInv, TagsExplained

LEMMA TagInvStep == TagInv /\ [Next]_vars => TagInv'
<1> SUFFICES ASSUME TagInv, [Next]_vars PROVE TagInv'
  OBVIOUS
<1> USE DEF nodeVars, tableVars, requestVars
<1>0. TypeOK /\ TypeOK' /\ Watched
  BY TypeStep DEF TagInv, Watched
<1>1. ASSUME NEW S \in SUBSET Inst, DirtyRows(S), Silent,
             \A i \in Stored' \ S :
               i \in Stored /\ instances'[i] = instances[i],
             \A i \in Stored' \cap S :
               instances'[i].tag = Trim[instances'[i].params]
      PROVE TagInv'
  <2>1. Watched'
    BY <1>0, <1>1, DirtyChecks
  <2>2. TagsExplained'
    BY <1>1 DEF TagInv, TagsExplained
  <2>3. CheckSeesInstances'
    BY <1>1 DEF CheckSeesInstances, Silent
  <2> QED  BY <1>0, <2>1, <2>2, <2>3 DEF TagInv, Watched
<1>2. ASSUME NEW S \in SUBSET Inst, instances' = Without(S), DirtyRows(S),
             Silent
      PROVE TagInv'
  <2>1. \A i \in Stored' : i \in Stored \ S /\ instances'[i] = instances[i]
    BY <1>2 DEF Without, Stored
  <2> QED  BY <1>1, <1>2, <2>1
<1>3. ASSUME NEW n \in Node, DeleteNode(n) PROVE TagInv'
  <2>1. OnNode(n) \in SUBSET Inst
    BY <1>0 DEF TypeOK, OnNode
  <2> QED  BY <1>2, <1>3, <2>1 DEF DeleteNode
<1>4. ASSUME NEW i \in Stored, DeleteInstance(i) PROVE TagInv'
  <2>1. {i} \in SUBSET Inst
    BY <1>0 DEF TypeOK
  <2> QED  BY <1>2, <1>4, <2>1 DEF DeleteInstance
<1>5. ASSUME NEW i \in Stored, NEW p \in RawTag, UpdateParams(i, p)
      PROVE TagInv'
  <2>1. {i} \in SUBSET Inst
    BY <1>0 DEF TypeOK
  <2>2. /\ Stored' = Stored
        /\ \A j \in Stored \ {i} : instances'[j] = instances[j]
        /\ instances'[i].tag = Trim[instances'[i].params]
    BY <1>0, <1>5 DEF UpdateParams, TypeOK, Row, Stored
  <2> QED  BY <1>1, <1>5, <2>1, <2>2 DEF UpdateParams
<1>6. ASSUME NEW q \in creates, NEW i \in Inst, InsertInstance(q, i)
      PROVE TagInv'
  <2>1. /\ Stored' = Stored \cup {i}
        /\ \A j \in Stored \ {i} : instances'[j] = instances[j]
        /\ instances'[i].tag = Trim[instances'[i].params]
    BY <1>6 DEF InsertInstance, Stored
  <2> QED  BY <1>1, <1>6, <2>1 DEF InsertInstance
<1>7. ASSUME NEW q \in rerenders, NEW row \in q.rows, RerenderRow(q, row)
      PROVE TagInv'
  <2>1. /\ Stored' = Stored
        /\ \A j \in Stored : /\ instances'[j].params = instances[j].params
                              /\ instances'[j].tag = instances[j].tag
                              /\ instances'[j].staleTag
                                   = instances[j].staleTag
                              /\ instances'[j].legacy = instances[j].legacy
    BY <1>0, <1>7, RerenderedRows
  <2>2. checks' = checks /\ answer' = {}
    BY <1>7 DEF RerenderRow, Silent
  <2>3. TagsExplained'
    BY <2>1 DEF TagInv, TagsExplained
  <2>4. FoundWatched' /\ MissesWatched'
    BY <2>1, <2>2 DEF TagInv, FoundWatched, MissesWatched
  <2> QED  BY <1>0, <2>2, <2>3, <2>4 DEF TagInv, CheckSeesInstances
<1>8. ASSUME NEW q \in checks, HealTag(q) PROVE TagInv'
  <2>1. /\ Stored' = Stored
        /\ \A j \in Stored :
             /\ instances'[j].params = instances[j].params
             /\ j \notin q.found => instances'[j] = instances[j]
             /\ \/ instances'[j] = instances[j]
                \/ /\ instances'[j].tag = q.tag
                   /\ instances'[j].staleTag = (j \in q.dirty)
    BY <1>0, <1>8, HealedRows
  <2>2. TagsExplained'
    <3> SUFFICES ASSUME NEW j \in Stored
                 PROVE  \/ instances'[j].tag \in {Trim[instances'[j].params],
                                                  instances'[j].params}
                        \/ instances'[j].staleTag
                        \/ instances'[j].legacy /\ instances'[j].tag = NoTag
      BY <2>1 DEF TagsExplained
    <3>1. CASE instances'[j] = instances[j]
      BY <3>1 DEF TagInv, TagsExplained
    <3>2. CASE /\ instances'[j].tag = q.tag
               /\ instances'[j].staleTag = (j \in q.dirty)
               /\ j \in q.found
      BY <2>1, <3>2 DEF TagInv, FoundWatched
    <3> QED  BY <2>1, <3>1, <3>2
  <2>3. ASSUME NEW r \in checks'
        PROVE  \E s \in checks :
                 /\ r.found = s.found /\ r.phase = s.phase /\ r.tag = s.tag
                 /\ r.dirty = s.dirty
                 /\ \/ r.retagged = s.retagged /\ UNCHANGED instances
                    \/ r.retagged = s.retagged \cup q.found
    <3>1. CASE checks' = checks \ {q} /\ UNCHANGED instances
      BY <2>3, <3>1
    <3>2. CASE checks' = {[s EXCEPT !.retagged = @ \cup q.found] :
                            s \in checks \ {q}}
      <4>1. PICK s \in checks : r = [s EXCEPT !.retagged = @ \cup q.found]
        BY <2>3, <3>2
      <4>2. s \in CheckRequest
        BY <1>0 DEF TypeOK
      <4>3. /\ r.found = s.found /\ r.phase = s.phase /\ r.tag = s.tag
            /\ r.dirty = s.dirty /\ r.retagged = s.retagged \cup q.found
        BY <4>1, <4>2 DEF CheckRequest
      <4> QED  BY <4>3
    <3> QED  BY <1>8, <3>1, <3>2, Zenon DEF HealTag
  <2>4. FoundWatched'
    BY <2>1, <2>3 DEF TagInv, FoundWatched
  <2>5. MissesWatched'
    <3> SUFFICES ASSUME NEW r \in checks', r.phase # "heal", NEW i \in Stored
                 PROVE  \/ i \in r.dirty \cup r.retagged
                        \/ instances'[i].tag # r.tag
      BY <2>1 DEF MissesWatched
    <3>1. PICK s \in checks :
            /\ r.phase = s.phase /\ r.tag = s.tag /\ r.dirty = s.dirty
            /\ \/ r.retagged = s.retagged /\ UNCHANGED instances
               \/ r.retagged = s.retagged \cup q.found
      BY <2>3
    <3>2. i \in s.dirty \cup s.retagged \/ instances[i].tag # s.tag
      BY <3>1 DEF TagInv, MissesWatched
    <3> QED  BY <2>1, <3>1, <3>2
  <2>6. answer' = {}
    BY <1>8 DEF HealTag, Silent
  <2> QED
    BY <1>0, <2>2, <2>4, <2>5, <2>6 DEF TagInv, CheckSeesInstances
<1>9. ASSUME UNCHANGED instances, checks' \subseteq checks
      PROVE TagsExplained' /\ FoundWatched' /\ MissesWatched'
  BY <1>9 DEF TagInv, TagsExplained, FoundWatched, MissesWatched, Stored
<1>10. ASSUME NEW q \in checks, PassInstances(q), q.phase # "heal",
              UNCHANGED instances,
              \/ \A i \in Stored : instances[i].tag # NoTag
              \/ Carrying(q.tag) = {}
       PROVE TagInv'
  <2>1. checks' \subseteq checks
    BY <1>10 DEF PassInstances
  <2>2. CheckSeesInstances'
    BY <1>10, PassIsSound
  <2> QED  BY <1>0, <1>9, <1>10, <2>1, <2>2 DEF TagInv
<1>11. ASSUME NEW q \in checks, NEW ph \in {"scan", "heal"},
              NEW S \in SUBSET Carrying(q.tag), NEW D \in SUBSET Inst,
              Advance(q, ph, S, D), ph = "heal" \/ D = q.dirty,
              q.phase # "heal", UNCHANGED instances, Silent
       PROVE TagInv'
  <2> DEFINE r == [q EXCEPT !.phase = ph, !.found = S, !.dirty = D]
  <2>1. q \in CheckRequest
    BY <1>0 DEF TypeOK
  <2>2. /\ r.found = S /\ r.phase = ph /\ r.tag = q.tag
        /\ r.dirty = D /\ r.retagged = q.retagged
    BY <2>1 DEF CheckRequest
  <2>3. checks' = (checks \ {q}) \cup {r}
    BY <1>11 DEF Advance
  <2> HIDE DEF r
  <2>4. FoundWatched'
    BY <1>11, <2>2, <2>3 DEF TagInv, FoundWatched, Carrying, Stored
  <2>5. MissesWatched'
    BY <1>11, <2>2, <2>3 DEF TagInv, MissesWatched, Stored
  <2>6. TagsExplained'
    BY <1>11 DEF TagInv, TagsExplained, Stored
  <2> QED
    BY <1>0, <1>11, <2>4, <2>5, <2>6 DEF TagInv, CheckSeesInstances, Silent
<1>12. ASSUME NEW q \in checks, ProbeLegacy(q) PROVE TagInv'
  <2>1. q.dirty \in SUBSET Inst
    BY <1>0 DEF TypeOK, CheckRequest
  <2>2. {} \in SUBSET Carrying(q.tag)
    OBVIOUS
  <2> QED  BY <1>10, <1>11, <1>12, <2>1, <2>2 DEF ProbeLegacy
<1>13. ASSUME NEW q \in checks, ScanParams(q) PROVE TagInv'
  <2>1. CASE Carrying(q.tag) = {} /\ PassInstances(q)
    BY <1>10, <1>13, <2>1 DEF ScanParams
  <2>2. ASSUME NEW i \in Carrying(q.tag), Advance(q, "heal", {i}, Inst \ {i})
        PROVE TagInv'
    <3>1. {i} \in SUBSET Carrying(q.tag) /\ Inst \ {i} \in SUBSET Inst
      OBVIOUS
    <3>2. q.phase # "heal" /\ UNCHANGED instances
      BY <1>13 DEF ScanParams
    <3>3. CASE Silent
      BY <1>11, <2>2, <3>1, <3>2, <3>3
    <3>4. Carrying(q.tag) # {}
      OBVIOUS
    <3> QED  BY <1>13, <3>3, <3>4 DEF ScanParams
  <2> QED  BY <1>13, <2>1, <2>2 DEF ScanParams
<1>14. ASSUME NEW id \in Req, NEW t \in Tag, LookupTag(id, t) PROVE TagInv'
  <2> DEFINE r == [id |-> id, tag |-> t, phase |-> "probe", found |-> {},
                   dirty |-> {}, retagged |-> {}]
  <2>1. /\ checks' = checks \cup {r}
        /\ \A i \in Stored : instances[i].tag # t
        /\ UNCHANGED instances /\ answer' = {}
    BY <1>14 DEF LookupTag, Silent
  <2>2. r.found = {} /\ r.tag = t
    OBVIOUS
  <2> HIDE DEF r
  <2>3. FoundWatched'
    BY <2>1, <2>2 DEF TagInv, FoundWatched, Stored
  <2>4. MissesWatched'
    BY <2>1, <2>2 DEF TagInv, MissesWatched, Stored
  <2> QED
    BY <1>0, <2>1, <2>3, <2>4
       DEF TagInv, TagsExplained, CheckSeesInstances, Stored
<1>15. ASSUME UNCHANGED instances, checks' \subseteq checks,
              \/ Silent \/ UNCHANGED answer
              \/ \A a \in answer' : a.op = "register"
       PROVE TagInv'
  <2>1. CheckSeesInstances'
    BY <1>15 DEF TagInv, CheckSeesInstances, Silent
  <2> QED  BY <1>0, <1>9, <1>15, <2>1 DEF TagInv
<1>16. ASSUME NEW id \in Req, Abort(id) PROVE TagInv'
  <2>1. checks' \subseteq checks
    BY <1>16 DEF Abort
  <2> QED  BY <1>15, <1>16, <2>1 DEF Abort
<1>17. ASSUME NEW q \in registers, RefreshNode(q) PROVE TagInv'
  <2>1. \A a \in answer' : a.op = "register"
    BY <1>17 DEF RefreshNode
  <2> QED  BY <1>15, <1>17, <2>1 DEF RefreshNode
<1>18. CASE UNCHANGED <<instances, checks>> /\ (Silent \/ UNCHANGED answer)
  BY <1>15, <1>18
<1> QED
  BY <1>3, <1>4, <1>5, <1>6, <1>7, <1>8, <1>12, <1>13, <1>14, <1>16, <1>17,
     <1>18
     DEF Next, Begin, Continue, CreateNode, RegisterNode, FindNode,
         SelectInstances, vars

LEMMA TagInvInit == Init => TagInv
<1> SUFFICES ASSUME Init PROVE TagInv
  OBVIOUS
<1>1. TagsExplained
  BY DEF Init, TagsExplained, Stored
<1> QED
  BY <1>1, TypeInit DEF Init, TagInv, FoundWatched, MissesWatched,
                        CheckSeesInstances

(* Whatever checks heal while instances are rewritten, a tag column that   *)
(* differs from its parameters has one of three causes                     *)
(* (protocol-instances.ts:14-19, tags.ts:48-60).                           *)
THEOREM TagsHold == Spec => []TagsExplained
<1>1. TagInv => TagsExplained
  BY DEF TagInv
<1> QED  BY <1>1, TagInvInit, TagInvStep, PTL DEF Spec

(* A check that finds no instance overlooked none that carried the tag     *)
(* throughout, but for those three causes and concurrent healing           *)
(* (tags.ts:31-64).                                                        *)
THEOREM CheckHolds == Spec => []CheckSeesInstances
<1>1. TagInv => CheckSeesInstances
  BY DEF TagInv
<1> QED  BY <1>1, TagInvInit, TagInvStep, PTL DEF Spec
=============================================================================
