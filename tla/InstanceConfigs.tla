-------------------------- MODULE InstanceConfigs --------------------------
(***************************************************************************)
(* Nodes (src/routes/nodes.ts), the protocol instances on them             *)
(* (src/routes/protocol-instances.ts), and what the tag check reads and    *)
(* writes of the instances (src/routes/tags.ts, before it turns to KV; the *)
(* rest of the check is in ClientSync).  A row keeps its parameters, the   *)
(* configs rendered from them and a copy of their tag; several requests    *)
(* write these from what they read some awaits earlier.                    *)
(*                                                                         *)
(* Parameters stand for the tag in them, configs for the parameters they   *)
(* were rendered from (by which version of the template: TemplateCache).   *)
(* A statement of D1, and a batch, is one step.  Requests that a SELECT    *)
(* only turns away, and that then write by one statement from their body   *)
(* alone, are that one step.  Ids are random UUIDs and never reused.       *)
(***************************************************************************)
EXTENDS Naturals

CONSTANTS
  Node, Inst,                  \* ids of nodes and instances
  Fingerprint, NoFingerprint,
  Tag, NoTag,                  \* tags in parameters; NoTag: none, or ''
  Trim,                        \* what extractTag makes of each
  Enforced,                    \* whether D1 enforces foreign keys
  Req                          \* identities of concurrently served requests

RawTag == Tag \cup {NoTag}

ASSUME InstanceAssumption ==
  /\ NoTag \notin Tag /\ NoFingerprint \notin Fingerprint
  /\ Enforced \in BOOLEAN
  /\ Trim \in [RawTag -> RawTag] /\ Trim[NoTag] = NoTag

VARIABLES
  nodes,        \* the table nodes, and which ids were in it
  fingerprint,  \* its column of that name, kept for deleted rows
  instances,    \* the table protocol_instances: from ids to rows
  used,         \* the ids that ever had a row
  creates,      \* POST requests that have found their node
  rerenders,    \* rerender requests that have read the rows
  checks,       \* tag checks that have not found the tag in its column
  registers,    \* registrations whose fingerprint was there already
  answer        \* what the last step answered, if a property is about it

nodeVars == <<nodes, fingerprint>>
tableVars == <<instances, used>>
requestVars == <<creates, rerenders, checks, registers>>
vars == <<nodeVars, tableVars, requestVars, answer>>

-----------------------------------------------------------------------------
(* The flags are observers.  orphaned: the node was deleted after POST had *)
(* found it; staleConf, staleTag: the parameters were rewritten after they *)
(* were read for this config or tag; legacy: not written since migration.  *)
Row == [node : Node, params : RawTag, conf : RawTag, tag : RawTag,
        orphaned : BOOLEAN, staleConf : BOOLEAN, staleTag : BOOLEAN,
        legacy : BOOLEAN]

(* gone, dirty, retagged: observers, since the request began: its node was *)
(* deleted; parameters were written, deleted or inserted; tags were healed.*)
CreateRequest == [id : Req, node : Node, params : RawTag, gone : BOOLEAN]

RerenderRequest == [id : Req, rows : SUBSET (Inst \X RawTag),
                    dirty : SUBSET Inst]

CheckRequest == [id : Req, tag : Tag, phase : {"probe", "scan", "heal"},
                 found : SUBSET Inst, dirty : SUBSET Inst,
                 retagged : SUBSET Inst]

RegisterRequest == [id : Req, fp : Fingerprint, gone : BOOLEAN]

(* missed: observer, the instances that carried the tag since the check    *)
(* began and whose column no other check wrote since.                      *)
CheckAnswer == [op : {"check"}, tag : Tag, missed : SUBSET Inst]
RegisterAnswer == [op : {"register"}, found : BOOLEAN, gone : BOOLEAN]

Stored == DOMAIN instances
OnNode(n) == {i \in Stored : instances[i].node = n}
Registered(f) == {n \in Node : nodes[n] = "present" /\ fingerprint[n] = f}
Free(id) == \A q \in creates \cup rerenders \cup checks \cup registers : q.id # id
Silent == answer' = {}

Without(S) == [i \in Stored \ S |-> instances[i]]

(* The observers of the requests that read the rows S before they changed. *)
DirtyRows(S) ==
  /\ rerenders' = {[q EXCEPT !.dirty = @ \cup S] : q \in rerenders}
  /\ checks' = {[q EXCEPT !.dirty = @ \cup S] : q \in checks}

(* The database may hold rows older than the tag column (migration 0010).  *)
Init ==
  /\ used \in SUBSET Inst
  /\ \E home \in [used -> Node], params \in [used -> RawTag] :
       /\ nodes = [n \in Node |-> IF \E i \in used : home[i] = n
                                  THEN "present" ELSE "unused"]
       /\ instances = [i \in used |->
            [node |-> home[i], params |-> params[i], conf |-> params[i],
             tag |-> NoTag, orphaned |-> FALSE, staleConf |-> FALSE,
             staleTag |-> FALSE, legacy |-> TRUE]]
  /\ fingerprint = [n \in Node |-> NoFingerprint]
  /\ creates = {} /\ rerenders = {} /\ checks = {} /\ registers = {}
  /\ answer = {}

-----------------------------------------------------------------------------
(* Nodes.                                                                  *)

AddNode(n, f) ==
  /\ nodes[n] = "unused"
  /\ nodes' = [nodes EXCEPT ![n] = "present"]
  /\ fingerprint' = [fingerprint EXCEPT ![n] = f]

CreateNode(n) ==
  /\ AddNode(n, NoFingerprint)
  /\ Silent
  /\ UNCHANGED <<tableVars, requestVars>>

(* Mutation of RegisterNode: any row is a conflict, whatever fingerprint.  *)
RegisterNodeAnyConflict(id, f, n) ==
  /\ Free(id)
  /\ \/ /\ \A m \in Node : nodes[m] # "present"
        /\ AddNode(n, f)
        /\ UNCHANGED registers
     \/ /\ \E m \in Node : nodes[m] = "present"
        /\ registers' = registers \cup {[id |-> id, fp |-> f, gone |-> FALSE]}
        /\ UNCHANGED nodeVars
  /\ Silent
  /\ UNCHANGED <<tableVars, creates, rerenders, checks>>

(* POST /register: INSERT .. ON CONFLICT DO NOTHING RETURNING.             *)
RegisterNode(id, f, n) ==
  /\ Free(id)
  /\ \/ /\ Registered(f) = {}
        /\ AddNode(n, f)
        /\ UNCHANGED registers
     \/ /\ Registered(f) # {}
        /\ registers' = registers \cup {[id |-> id, fp |-> f, gone |-> FALSE]}
        /\ UNCHANGED nodeVars
  /\ Silent
  /\ UNCHANGED <<tableVars, creates, rerenders, checks>>

(* .. and the UPDATE of the row that was in the way.                       *)
RefreshNode(q) ==
  /\ registers' = registers \ {q}
  /\ answer' = {[op |-> "register", found |-> Registered(q.fp) # {},
                 gone |-> q.gone]}
  /\ UNCHANGED <<nodeVars, tableVars, creates, rerenders, checks>>

(* Observers of a deletion: requests that found the node before.           *)
NodeGone(n) ==
  /\ creates' = {[q EXCEPT !.gone = @ \/ q.node = n] : q \in creates}
  /\ registers' = {[q EXCEPT !.gone = @ \/ q.fp = fingerprint[n]] :
                     q \in registers}

(* Mutation of DeleteNode: the instances stay.                             *)
DeleteNodeOnly(n) ==
  /\ nodes[n] = "present"
  /\ Enforced => OnNode(n) = {}
  /\ nodes' = [nodes EXCEPT ![n] = "deleted"]
  /\ NodeGone(n)
  /\ Silent
  /\ UNCHANGED <<fingerprint, tableVars, rerenders, checks>>

(* DELETE /:id: one batch deletes the node and the instances on it.        *)
DeleteNode(n) ==
  /\ nodes[n] = "present"
  /\ nodes' = [nodes EXCEPT ![n] = "deleted"]
  /\ instances' = Without(OnNode(n))
  /\ NodeGone(n)
  /\ DirtyRows(OnNode(n))
  /\ Silent
  /\ UNCHANGED <<fingerprint, used>>

-----------------------------------------------------------------------------
(* Protocol instances.                                                     *)

(* POST /: the node is there.                                              *)
FindNode(id, n, p) ==
  /\ Free(id)
  /\ nodes[n] = "present"
  /\ creates' = creates \cup
       {[id |-> id, node |-> n, params |-> p, gone |-> FALSE]}
  /\ Silent
  /\ UNCHANGED <<nodeVars, tableVars, rerenders, checks, registers>>

(* Mutation of InsertInstance: the row is not linked to its node.          *)
InsertWithoutNode(q, i) ==
  /\ i \notin used
  /\ Enforced => nodes[q.node] = "present"
  /\ used' = used \cup {i}
  /\ instances' = [j \in Stored \cup {i} |->
       IF j = i
       THEN [params |-> q.params, conf |-> q.params, tag |-> Trim[q.params],
             orphaned |-> q.gone, staleConf |-> FALSE, staleTag |-> FALSE,
             legacy |-> FALSE]
       ELSE instances[j]]
  /\ creates' = creates \ {q}
  /\ DirtyRows({i})
  /\ Silent
  /\ UNCHANGED <<nodeVars, registers>>

(* .. and after three more awaits the INSERT.                              *)
InsertInstance(q, i) ==
  /\ i \notin used
  /\ Enforced => nodes[q.node] = "present"
  /\ used' = used \cup {i}
  /\ instances' = [j \in Stored \cup {i} |->
       IF j = i
       THEN [node |-> q.node, params |-> q.params, conf |-> q.params,
             tag |-> Trim[q.params], orphaned |-> q.gone,
             staleConf |-> FALSE, staleTag |-> FALSE, legacy |-> FALSE]
       ELSE instances[j]]
  /\ creates' = creates \ {q}
  /\ DirtyRows({i})
  /\ Silent
  /\ UNCHANGED <<nodeVars, registers>>

(* Mutation of UpdateParams: the configs are left to the next re-render.   *)
UpdateParamsOnly(i, p) ==
  /\ instances' = [instances EXCEPT ![i].params = p, ![i].tag = Trim[p],
       ![i].staleConf = FALSE, ![i].staleTag = FALSE, ![i].legacy = FALSE]
  /\ DirtyRows({i})
  /\ Silent
  /\ UNCHANGED <<nodeVars, used, creates, registers>>

(* Mutation of UpdateParams: the tag column is forgotten.                  *)
UpdateParamsNotTag(i, p) ==
  /\ instances' = [instances EXCEPT ![i].params = p, ![i].conf = p,
       ![i].staleConf = FALSE, ![i].staleTag = FALSE, ![i].legacy = FALSE]
  /\ DirtyRows({i})
  /\ Silent
  /\ UNCHANGED <<nodeVars, used, creates, registers>>

(* PUT /:id with params: one UPDATE of parameters, configs and tag.        *)
UpdateParams(i, p) ==
  /\ instances' = [instances EXCEPT ![i].params = p, ![i].conf = p,
       ![i].tag = Trim[p], ![i].staleConf = FALSE, ![i].staleTag = FALSE,
       ![i].legacy = FALSE]
  /\ DirtyRows({i})
  /\ Silent
  /\ UNCHANGED <<nodeVars, used, creates, registers>>

DeleteInstance(i) ==
  /\ instances' = Without({i})
  /\ DirtyRows({i})
  /\ Silent
  /\ UNCHANGED <<nodeVars, used, creates, registers>>

(* POST /rerender: one SELECT of all rows, with the parameters of each.    *)
SelectInstances(id) ==
  /\ Free(id)
  /\ Stored # {}
  /\ rerenders' = rerenders \cup
       {[id |-> id, rows |-> {<<i, instances[i].params>> : i \in Stored},
         dirty |-> {}]}
  /\ Silent
  /\ UNCHANGED <<nodeVars, tableVars, creates, checks, registers>>

(* .. then row by row the UPDATE of its configs, none if it is gone; a row *)
(* that cannot be rendered or written is reported and passed over.         *)
RerenderRow(q, row) ==
  /\ \/ /\ row[1] \in Stored
        /\ instances' = [instances EXCEPT ![row[1]].conf = row[2],
                           ![row[1]].staleConf = row[1] \in q.dirty]
     \/ UNCHANGED instances
  /\ LET rest == q.rows \ {row} IN
     rerenders' = (rerenders \ {q}) \cup
       IF rest = {} THEN {} ELSE {[q EXCEPT !.rows = rest]}
  /\ Silent
  /\ UNCHANGED <<nodeVars, used, creates, checks, registers>>

-----------------------------------------------------------------------------
(* GET /check: the tag among the instances.                                *)

Advance(q, ph, found, dirty) ==
  checks' = (checks \ {q}) \cup
    {[q EXCEPT !.phase = ph, !.found = found, !.dirty = dirty]}

(* The lookup in the column; a hit is answered at once.                    *)
LookupTag(id, t) ==
  /\ Free(id)
  /\ \A i \in Stored : instances[i].tag # t
  /\ checks' = checks \cup
       {[id |-> id, tag |-> t, phase |-> "probe", found |-> {},
         dirty |-> {}, retagged |-> {}]}
  /\ Silent
  /\ UNCHANGED <<nodeVars, tableVars, creates, rerenders, registers>>

Carrying(t) == {i \in Stored : instances[i].params = t}

(* No instance has the tag: the check goes on to the claims in KV.         *)
PassInstances(q) ==
  /\ checks' = checks \ {q}
  /\ answer' = {[op |-> "check", tag |-> q.tag,
                 missed |-> Carrying(q.tag) \ (q.dirty \cup q.retagged)]}

(* Mutation of ProbeLegacy: rows from before the column are forgotten.     *)
ProbeNothing(q) ==
  /\ q.phase = "probe"
  /\ PassInstances(q)
  /\ UNCHANGED <<nodeVars, tableVars, creates, rerenders, registers>>

(* Is there any row with an empty column?                                  *)
ProbeLegacy(q) ==
  /\ q.phase = "probe"
  /\ \/ /\ \E i \in Stored : instances[i].tag = NoTag
        /\ Advance(q, "scan", {}, q.dirty)
        /\ Silent
     \/ /\ \A i \in Stored : instances[i].tag # NoTag
        /\ PassInstances(q)
  /\ UNCHANGED <<nodeVars, tableVars, creates, rerenders, registers>>

(* The scan of the parameters of all rows, up to the first with the tag.   *)
(* From here on the check depends on that row only, as it was just read:   *)
(* it alone is not dirty.                                                  *)
ScanParams(q) ==
  /\ q.phase = "scan"
  /\ \/ /\ Carrying(q.tag) = {}
        /\ PassInstances(q)
     \/ /\ \E i \in Carrying(q.tag) : Advance(q, "heal", {i}, Inst \ {i})
        /\ Silent
  /\ UNCHANGED <<nodeVars, tableVars, creates, rerenders, registers>>

(* The column is backfilled with the tag as asked for, best-effort.        *)
HealTag(q) ==
  /\ q.phase = "heal"
  /\ \/ /\ q.found \subseteq Stored
        /\ instances' = [i \in Stored |->
             IF i \in q.found
             THEN [instances[i] EXCEPT !.tag = q.tag, !.legacy = FALSE,
                                       !.staleTag = i \in q.dirty]
             ELSE instances[i]]
        /\ checks' = {[r EXCEPT !.retagged = @ \cup q.found] :
                        r \in checks \ {q}}
     \/ /\ checks' = checks \ {q}
        /\ UNCHANGED instances
  /\ Silent
  /\ UNCHANGED <<nodeVars, used, creates, rerenders, registers>>

-----------------------------------------------------------------------------
(* A call of D1 throws, a foreign key refuses the INSERT, a template does  *)
(* not render, or the process stops: what was written stays.               *)
Abort(id) ==
  /\ ~Free(id)
  /\ creates' = {q \in creates : q.id # id}
  /\ rerenders' = {q \in rerenders : q.id # id}
  /\ checks' = {q \in checks : q.id # id}
  /\ registers' = {q \in registers : q.id # id}
  /\ Silent
  /\ UNCHANGED <<nodeVars, tableVars>>

Begin(id) ==
  \/ \E f \in Fingerprint, n \in Node : RegisterNode(id, f, n)
  \/ \E n \in Node, p \in RawTag : FindNode(id, n, p)
  \/ SelectInstances(id)
  \/ \E t \in Tag : LookupTag(id, t)

Continue ==
  \/ \E q \in registers : RefreshNode(q)
  \/ \E q \in creates, i \in Inst : InsertInstance(q, i)
  \/ \E q \in rerenders : \E row \in q.rows : RerenderRow(q, row)
  \/ \E q \in checks : ProbeLegacy(q) \/ ScanParams(q) \/ HealTag(q)

Next ==
  \/ \E n \in Node : CreateNode(n) \/ DeleteNode(n)
  \/ \E i \in Stored, p \in RawTag : UpdateParams(i, p)
  \/ \E i \in Stored : DeleteInstance(i)
  \/ \E id \in Req : Begin(id) \/ Abort(id)
  \/ Continue

Spec == Init /\ [][Next]_vars

-----------------------------------------------------------------------------
TypeOK ==
  /\ nodes \in [Node -> {"unused", "present", "deleted"}]
  /\ fingerprint \in [Node -> Fingerprint \cup {NoFingerprint}]
  /\ used \subseteq Inst
  /\ Stored \subseteq used
  /\ instances \in [Stored -> Row]
  /\ creates \subseteq CreateRequest
  /\ rerenders \subseteq RerenderRequest
  /\ checks \subseteq CheckRequest
  /\ registers \subseteq RegisterRequest
  /\ answer \subseteq CheckAnswer \cup RegisterAnswer

(* An instance whose node is missing was inserted by a request that found  *)
(* the node before it was deleted, in a database that does not enforce its *)
(* foreign keys: no other order of requests leaves one behind              *)
(* ("dangling protocol_instances rows would keep being delivered",         *)
(* nodes.ts:131-133).                                                      *)
NoDangling ==
  \A i \in Stored : nodes[instances[i].node] = "present"
                    \/ (instances[i].orphaned /\ ~Enforced)

(* The configs of an instance are those of its parameters, unless a        *)
(* re-render that had read the parameters before they were rewritten wrote *)
(* the configs after (protocol-instances.ts:105-113, 177-191).             *)
ConfigsExplained ==
  \A i \in Stored : instances[i].conf = instances[i].params
                    \/ instances[i].staleConf

(* The tag column mirrors the parameters, trimmed by POST and PUT, exact   *)
(* if a check healed it, empty in rows from before the column; anything    *)
(* else was written by a check that had read the parameters before they    *)
(* were rewritten (protocol-instances.ts:14-19, tags.ts:53-59).            *)
TagsExplained ==
  \A i \in Stored :
    LET row == instances[i] IN
    \/ row.tag \in {Trim[row.params], row.params}
    \/ row.staleTag
    \/ row.legacy /\ row.tag = NoTag

(* A check that goes on to KV missed no instance that carried the tag all  *)
(* the while, except: one whose column another check wrote meanwhile, or   *)
(* had left with an old tag, or a tag with white space around it.          *)
CheckSeesInstances ==
  \A a \in answer : a.op = "check" =>
    \A i \in a.missed : instances[i].staleTag \/ Trim[a.tag] # a.tag

(* A registration is never answered without a node, unless the node was    *)
(* deleted between its two statements: panels call it on every sync        *)
(* (nodes.ts:31-58).                                                       *)
HeartbeatKept ==
  \A a \in answer : a.op = "register" => a.found \/ a.gone
=============================================================================
