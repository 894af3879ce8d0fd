--------------------------- MODULE DatabaseSetup ---------------------------
(***************************************************************************)
(* How an isolate prepares the shared database before it serves its first  *)
(* request (src/db/schema.ts, src/db/seed.ts and the middleware of         *)
(* src/index.ts): tables, built-in templates, clean-up of legacy ids.      *)
(* Every statement is awaited and may fail, every isolate does it all once *)
(* in its life, several may be at it, and an isolate may end at any step,  *)
(* while the panel of one that is ready edits the same rows, POST          *)
(* /api/admin/seed included.  A statement that fails has had no effect.    *)
(***************************************************************************)
EXTENDS Naturals, Sequences

CONSTANTS
  Isolate,
  Id,          \* template ids
  Seeds,       \* templateSeeds: the built-in ids, in order
  Pairs,       \* LEGACY_TO_CURRENT, in order
  Row,         \* identities of subscriptions and of nodes
  NoTemplate,
  Enforced,    \* does the database enforce the key of subscriptions?
  MaxChanges,  \* bound on what the panel does
  MaxFaults    \* bound on failed statements and ended isolates

Columns == {"subscription", "server", "docker"}
Tables == {"nodes", "templates", "subscriptions"}

ASSUME SetupAssumption ==
  /\ Seeds \in Seq(Id) /\ Len(Seeds) > 0
  /\ \A m, n \in DOMAIN Seeds : Seeds[m] = Seeds[n] => m = n
  /\ Pairs \in Seq([legacy : Id, current : Id]) /\ Len(Pairs) > 0
  /\ \A m, n \in DOMAIN Pairs : Pairs[m].legacy # Pairs[n].current
  /\ \A m \in DOMAIN Pairs, n \in DOMAIN Seeds : Pairs[m].legacy # Seeds[n]
  /\ NoTemplate \notin Id /\ Enforced \in BOOLEAN
  /\ MaxChanges \in Nat /\ MaxFaults \in Nat

VARIABLES
  tables,     \* those that exist
  templates,  \* the ids with a row
  old,        \* those of them that do not hold what the code says
  bound,      \* the template each column of each row names
  setup,      \* per isolate: how far ensureDatabaseInitialized has come
  repair,     \* per isolate: how far a POST /api/admin/seed has come
  edited,     \* ids the panel created or edited
  removed,    \* ids the panel removed
  cut,        \* ids a seeding did not reach for a failure, an end, the panel
  loose,      \* columns bound to a missing row, or too late to be re-pointed
  changes, faults

database == <<tables, templates, old, bound>>
ghosts == <<edited, removed, cut, loose>>
vars == <<database, setup, repair, ghosts, changes, faults>>

-----------------------------------------------------------------------------
Seed == {Seeds[n] : n \in DOMAIN Seeds}

Creating == Tables
Seeding == {"count", "refresh", "insert"}
Cleaning == {"find", "drop"} \cup Columns
Phase == {"none", "ready"} \cup Creating \cup Seeding \cup Cleaning
RepairPhase == {"idle", "select", "update", "write"}

(* CREATE_TABLES in order, then the statements about a pair in order.      *)
Then == [nodes |-> "templates", templates |-> "subscriptions",
         subscriptions |-> "count", find |-> "subscription",
         subscription |-> "server", server |-> "docker", docker |-> "drop"]

TableOf(c) == IF c = "subscription" THEN "subscriptions" ELSE "nodes"

To(phase, n) == [phase |-> phase, at |-> n]
Go(i, phase, n) == setup' = [setup EXCEPT ![i] = To(phase, n)]
GoRepair(i, phase, n) == repair' = [repair EXCEPT ![i] = To(phase, n)]

NextSeed(i) == IF setup[i].at = Len(Seeds) THEN Go(i, "find", 1)
               ELSE Go(i, setup[i].phase, setup[i].at + 1)
NextPair(i) == IF setup[i].at = Len(Pairs) THEN Go(i, "ready", 1)
               ELSE Go(i, "find", setup[i].at + 1)
NextRepair(i) == IF repair[i].at = Len(Seeds) THEN GoRepair(i, "idle", 1)
                 ELSE GoRepair(i, "select", repair[i].at + 1)

From(n) == {Seeds[m] : m \in n..Len(Seeds)}

(* What an isolate has still to write.                                     *)
Todo(i) == (IF setup[i].phase = "insert" THEN From(setup[i].at) ELSE {})
             \cup (IF repair[i].phase = "idle" THEN {} ELSE From(repair[i].at))

Touched == edited \cup removed

Fault == faults < MaxFaults /\ faults' = faults + 1
Broken(excused) == IF excused THEN UNCHANGED faults ELSE Fault

-----------------------------------------------------------------------------
(* The first request of an isolate starts the set-up; the others wait for  *)
(* the same promise.                                                       *)
Begin(i) ==
  /\ setup[i].phase = "none"
  /\ Go(i, "nodes", 1)
  /\ UNCHANGED <<database, repair, ghosts, changes, faults>>

(* CREATE TABLE IF NOT EXISTS, its failures swallowed.                     *)
Create(i) ==
  /\ setup[i].phase \in Creating
  /\ \/ tables' = tables \cup {setup[i].phase} /\ UNCHANGED faults
     \/ Fault /\ UNCHANGED tables
  /\ Go(i, Then[setup[i].phase], 1)
  /\ UNCHANGED <<templates, old, bound, repair, ghosts, changes>>

(* Mutation of Count: a database of one template counts as empty.          *)
CountOffByOne(i) ==
  /\ setup[i].phase = "count" /\ "templates" \in tables
  /\ IF \A t, u \in templates : t = u THEN Go(i, "insert", 1) ELSE Go(i, "refresh", 1)
  /\ UNCHANGED <<database, repair, ghosts, changes, faults>>

(* seedIfEmpty asks how many templates there are.                          *)
Count(i) ==
  /\ setup[i].phase = "count" /\ "templates" \in tables
  /\ IF templates = {} THEN Go(i, "insert", 1) ELSE Go(i, "refresh", 1)
  /\ UNCHANGED <<database, repair, ghosts, changes, faults>>

(* refreshSeedTemplates updates the next row, if there is one.             *)
Refresh(i) ==
  /\ setup[i].phase = "refresh"
  /\ old' = old \ {Seeds[setup[i].at]}
  /\ NextSeed(i)
  /\ UNCHANGED <<tables, templates, bound, repair, ghosts, changes, faults>>

(* A built-in row, as the code has it.                                     *)
AddSeed(s) ==
  /\ s \notin templates
  /\ templates' = templates \cup {s}
  /\ cut' = cut \ {s}
  /\ UNCHANGED <<tables, old, bound, edited, removed, loose, changes>>

(* A seeding gives up at number n: through another's row of that id or a   *)
(* failure.                                                                *)
GiveUp(n) ==
  /\ \/ Seeds[n] \in templates /\ UNCHANGED faults
        /\ cut' = IF Seeds[n] \in Touched THEN cut \cup From(n) ELSE cut
     \/ Broken("templates" \notin tables) /\ cut' = cut \cup From(n)
  /\ UNCHANGED <<database, edited, removed, loose, changes>>

Insert(i) ==
  /\ setup[i].phase = "insert"
  /\ \/ AddSeed(Seeds[setup[i].at]) /\ NextSeed(i) /\ UNCHANGED faults
     \/ GiveUp(setup[i].at) /\ Go(i, "find", 1)
  /\ UNCHANGED repair

(* COUNT or an UPDATE fails: the rest is not seeded.                       *)
SeedFails(i) ==
  /\ setup[i].phase \in {"count", "refresh"}
  /\ Broken("templates" \notin tables)
  /\ cut' = cut \cup From(setup[i].at)
  /\ Go(i, "find", 1)
  /\ UNCHANGED <<database, repair, edited, removed, loose, changes>>

-----------------------------------------------------------------------------
Pair(i) == Pairs[setup[i].at]

Find(i) ==
  /\ setup[i].phase = "find" /\ "templates" \in tables
  /\ IF Pair(i).current \in templates THEN Go(i, Then["find"], setup[i].at)
     ELSE NextPair(i)
  /\ UNCHANGED <<database, repair, ghosts, changes, faults>>

(* The database refuses a subscription whose template has no row.          *)
Refuses(c, id) == Enforced /\ c = "subscription" /\ id \notin templates

Names(c, id) == {r \in Row : bound[c][r] = id}

(* Mutation of Repoint: the docker column of the nodes is passed over.     *)
RepointNoDocker(i) ==
  LET c == setup[i].phase  p == Pair(i) IN
  /\ c \in Columns /\ TableOf(c) \in tables
  /\ ~(Refuses(c, p.current) /\ Names(c, p.legacy) # {})
  /\ bound' = [bound EXCEPT ![c] =
       [r \in Row |-> IF c # "docker" /\ r \in Names(c, p.legacy) THEN p.current
                      ELSE bound[c][r]]]
  /\ loose' = loose \ ({c} \X Names(c, p.legacy))
  /\ Go(i, Then[c], setup[i].at)
  /\ UNCHANGED <<tables, templates, old, repair, edited, removed, cut, changes, faults>>

(* One column's references to the legacy id now name the current one.      *)
Repoint(i) ==
  LET c == setup[i].phase  p == Pair(i) IN
  /\ c \in Columns /\ TableOf(c) \in tables
  /\ ~(Refuses(c, p.current) /\ Names(c, p.legacy) # {})
  /\ bound' = [bound EXCEPT ![c] =
       [r \in Row |-> IF r \in Names(c, p.legacy) THEN p.current ELSE bound[c][r]]]
  /\ loose' = loose \ ({c} \X Names(c, p.legacy))
  /\ Go(i, Then[c], setup[i].at)
  /\ UNCHANGED <<tables, templates, old, repair, edited, removed, cut, changes, faults>>

(* A row that a subscription names cannot be deleted.                      *)
Held(id) == Enforced /\ Names("subscription", id) # {}

DropLegacy(i) ==
  /\ setup[i].phase = "drop" /\ ~Held(Pair(i).legacy)
  /\ templates' = templates \ {Pair(i).legacy}
  /\ old' = old \ {Pair(i).legacy}
  /\ NextPair(i)
  /\ UNCHANGED <<tables, bound, repair, ghosts, changes, faults>>

(* A statement of the clean-up is refused or fails: it is over.            *)
CleanupFails(i) ==
  /\ setup[i].phase \in Cleaning
  /\ Broken(LET c == setup[i].phase IN
       \/ c \in {"find", "drop"} /\ "templates" \notin tables
       \/ c = "drop" /\ Held(Pair(i).legacy)
       \/ c \in Columns /\ ( \/ TableOf(c) \notin tables
                             \/ /\ Refuses(c, Pair(i).current)
                                /\ Names(c, Pair(i).legacy) # {} ))
  /\ Go(i, "ready", 1)
  /\ UNCHANGED <<database, repair, ghosts, changes>>

-----------------------------------------------------------------------------
(* The middleware lets a request through; what it may do follows.          *)
Served == \E i \in Isolate : setup[i].phase = "ready"

Serve == Served /\ UNCHANGED vars

Change ==
  /\ Served /\ "templates" \in tables
  /\ changes < MaxChanges /\ changes' = changes + 1
  /\ UNCHANGED <<tables, setup, faults, cut>>

(* POST of a template: one of the id must not exist.                       *)
AddTemplate(id) ==
  /\ Change /\ id \notin templates
  /\ templates' = templates \cup {id}
  /\ old' = old \cup {id} /\ edited' = edited \cup {id}
  /\ UNCHANGED <<bound, repair, removed, loose>>

EditTemplate(id) ==
  /\ Change /\ id \in templates
  /\ old' = old \cup {id} /\ edited' = edited \cup {id}
  /\ UNCHANGED <<templates, bound, repair, removed, loose>>

RemoveTemplate(id) ==
  /\ Change /\ id \in templates /\ ~Held(id)
  /\ templates' = templates \ {id} /\ old' = old \ {id}
  /\ removed' = removed \cup {id}
  /\ UNCHANGED <<bound, repair, edited, loose>>

(* The clean-up of some isolate has passed column c of a legacy id.        *)
Past(c) == CASE c = "subscription" -> {"server", "docker", "drop"}
             [] c = "server" -> {"docker", "drop"}
             [] OTHER -> {"drop"}
Overtaken(c, id) == \E i \in Isolate : setup[i].phase \in Past(c) /\ Pair(i).legacy = id

(* A subscription or a node is given a template: nobody but the database   *)
(* asks whether there is one.                                              *)
Bind(c, r, id) ==
  /\ Change /\ TableOf(c) \in tables
  /\ ~(id # NoTemplate /\ Refuses(c, id))
  /\ bound' = [bound EXCEPT ![c][r] = id]
  /\ loose' = IF id # NoTemplate /\ (id \notin templates \/ Overtaken(c, id))
              THEN loose \cup {<<c, r>>} ELSE loose \ {<<c, r>>}
  /\ UNCHANGED <<templates, old, repair, edited, removed>>

(* POST /api/admin/seed: for each built-in template a SELECT, then an      *)
(* UPDATE or an INSERT.                                                    *)
StartRepair(i) ==
  /\ Change /\ setup[i].phase = "ready" /\ repair[i].phase = "idle"
  /\ GoRepair(i, "select", 1)
  /\ UNCHANGED <<templates, old, bound, edited, removed, loose>>

Select(i) ==
  /\ repair[i].phase = "select"
  /\ IF Seeds[repair[i].at] \in templates THEN GoRepair(i, "update", repair[i].at)
     ELSE GoRepair(i, "write", repair[i].at)
  /\ UNCHANGED <<database, setup, ghosts, changes, faults>>

Update(i) ==
  /\ repair[i].phase = "update"
  /\ old' = old \ {Seeds[repair[i].at]}
  /\ NextRepair(i)
  /\ UNCHANGED <<tables, templates, bound, setup, ghosts, changes, faults>>

Write(i) ==
  /\ repair[i].phase = "write"
  /\ \/ AddSeed(Seeds[repair[i].at]) /\ NextRepair(i) /\ UNCHANGED faults
     \/ GiveUp(repair[i].at) /\ GoRepair(i, "idle", 1)
  /\ UNCHANGED setup

RepairFails(i) ==
  /\ repair[i].phase \in {"select", "update"}
  /\ Fault
  /\ cut' = cut \cup From(repair[i].at)
  /\ GoRepair(i, "idle", 1)
  /\ UNCHANGED <<database, setup, edited, removed, loose, changes>>

Restart(i) ==
  /\ Fault
  /\ cut' = cut \cup Todo(i)
  /\ Go(i, "none", 1) /\ GoRepair(i, "idle", 1)
  /\ UNCHANGED <<database, edited, removed, loose, changes>>

-----------------------------------------------------------------------------
(* A new database, or one that an earlier release has used.                *)
Init ==
  /\ \/ tables = {} /\ templates = {}
     \/ tables = Tables /\ templates \in SUBSET Id \ {{}}
  /\ old = templates
  /\ cut = IF templates = {} THEN {} ELSE Seed \ templates
  /\ bound \in [Columns -> [Row -> templates \cup {NoTemplate}]]
  /\ setup = [i \in Isolate |-> To("none", 1)]
  /\ repair = [i \in Isolate |-> To("idle", 1)]
  /\ edited = {} /\ removed = {} /\ loose = {}
  /\ changes = 0 /\ faults = 0

Step(i) ==
  \/ Begin(i) \/ Create(i) \/ Count(i) \/ Refresh(i) \/ Insert(i) \/ SeedFails(i)
  \/ Find(i) \/ Repoint(i) \/ DropLegacy(i) \/ CleanupFails(i)
  \/ StartRepair(i) \/ Select(i) \/ Update(i) \/ Write(i) \/ RepairFails(i)
  \/ Restart(i)

Panel(id) ==
  \/ AddTemplate(id) \/ EditTemplate(id) \/ RemoveTemplate(id)

Next ==
  \/ \E i \in Isolate : Step(i)
  \/ \E id \in Id : Panel(id)
  \/ \E c \in Columns, r \in Row, id \in Id \cup {NoTemplate} : Bind(c, r, id)
  \/ Serve

Spec == Init /\ [][Next]_vars

-----------------------------------------------------------------------------
Seated(i) == setup[i].phase \in Cleaning \cup {"ready"}

(* Every variable keeps its shape.                                         *)
TypeOK ==
  /\ tables \subseteq Tables
  /\ templates \subseteq Id /\ old \subseteq templates
  /\ bound \in [Columns -> [Row -> Id \cup {NoTemplate}]]
  /\ setup \in [Isolate -> [phase : Phase, at : Nat]]
  /\ repair \in [Isolate -> [phase : RepairPhase, at : Nat]]
  /\ edited \subseteq Id /\ removed \subseteq Id /\ cut \subseteq Seed
  /\ loose \subseteq Columns \X Row
  /\ changes \in 0..MaxChanges /\ faults \in 0..MaxFaults

(* Once some isolate serves requests, every built-in template is there as  *)
(* the code has it or is about to be written by someone else, unless the   *)
(* panel touched it, or a seeding was cut short: two isolates that seed    *)
(* the same empty database, one giving up at the other's row, leave no gap *)
(* (seed.ts:160-192).                                                      *)
SeedsInPlace ==
  \A i \in Isolate, s \in Seed : setup[i].phase = "ready" =>
    \/ s \in templates \ old
    \/ s \in Touched \cup cut
    \/ \E j \in Isolate : s \in Todo(j)

(* Whatever the clean-up has done and wherever it was stopped, a reference *)
(* names a template that exists, unless the panel removed that template,   *)
(* or bound the reference to none, or to a legacy id already passed by     *)
(* (seed.ts:127-143).                                                      *)
BindingsKept ==
  \A c \in Columns, r \in Row :
    \/ bound[c][r] \in templates \cup removed \cup {NoTemplate}
    \/ <<c, r>> \in loose
=============================================================================
