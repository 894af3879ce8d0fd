---------------------------- MODULE TemplateCache ----------------------------
(***************************************************************************)
(* The template cache that every PluginRegistry of an isolate shares       *)
(* (src/engine/registry.ts), the renders that read it and the admin writes *)
(* of the templates table that invalidate it (src/routes/templates.ts,     *)
(* protocols.ts) or do not (src/routes/admin.ts).                          *)
(*                                                                         *)
(* loadAll clears the maps, awaits SELECT * FROM templates and fills them; *)
(* the maps are module state, so loads, renders and invalidations of       *)
(* different requests of one isolate interleave at each await.  A template *)
(* is abstracted to the number of the edit that wrote it, 0 for none.      *)
(***************************************************************************)
EXTENDS Integers

CONSTANTS
  Tmpl,       \* template ids
  Isolate,
  Req,        \* identities of concurrently served requests
  CacheTTL,   \* CACHE_TTL_MS, in clock ticks
  MaxFlight,  \* longest life of a request, in clock ticks
  MaxTime,    \* bound: the clock stops here
  MaxEdits    \* bound: number of edits of the table

ASSUME TemplateAssumption ==
  /\ CacheTTL \in Nat \ {0}
  /\ MaxFlight \in Nat /\ MaxTime \in Nat /\ MaxEdits \in Nat

VARIABLES
  templates,        \* the D1 table: the edit that wrote each template
  sharedTemplates,  \* per isolate: the rows cached
  sharedParsed,     \* per isolate: the edit whose JSON was parsed and cached
  sharedLoadedAt,   \* per isolate: when the cache was filled, 0 for invalid
  inflight,         \* requests being served
  rendered,         \* what the last step rendered, if it rendered
  now,
  edits,
  lastCurrent,      \* observer: when an edit last was what D1 held
  settled,          \* observer: the last edit invalidated on an isolate
  passed,           \* observer: loads under way that another fill overtook,
                    \* or an invalidation after they had queried
  marred            \* observer: what overtook the loads in the cache

vars == <<templates, sharedTemplates, sharedParsed, sharedLoadedAt, inflight,
          rendered, now, edits, lastCurrent, settled, passed, marred>>

-----------------------------------------------------------------------------
Version == 0 .. MaxEdits
NoTemplate == [t \in Tmpl |-> 0]

Request == [id : Req, iso : Isolate, tmpl : Tmpl,
            phase : {"loading", "filling", "ready", "invalidate"},
            snap : [Tmpl -> Version], start : Nat, version : Version]

(* defs: the parameter definitions used, from sharedTemplates; body: the   *)
(* template body used, from sharedParsed; settled: the last edit of this   *)
(* template whose invalidation preceded the request; marred: what overtook *)
(* a load that the cache was filled by.                                    *)
Rendering == [tmpl : Tmpl, defs : Version, body : Version, settled : Version,
              marred : SUBSET {"edit", "fill"}]

Free(id) == \A q \in inflight : q.id # id
Finish(q) == inflight' = inflight \ {q}
Silent == rendered' = {}
Table == <<templates, edits, lastCurrent>>

(* Observers of a load: it is no longer under way; others are overtaken.   *)
Drop(ids) == {x \in passed : x[1] \notin ids}

Overtaken(i, phases) ==
  {q.id : q \in {d \in inflight : d.iso = i /\ d.phase \in phases}}

(* Mutation of Fresh: an expired cache is taken for fresh.                 *)
FreshForever(i) == sharedLoadedAt[i] # 0

Fresh(i) ==
  sharedLoadedAt[i] # 0 /\ now - sharedLoadedAt[i] < CacheTTL

(* Mutation of Clear: the parsed JSON is forgotten about.                  *)
ClearRowsOnly(i) ==
  /\ sharedTemplates' = [sharedTemplates EXCEPT ![i] = NoTemplate]
  /\ marred' = [marred EXCEPT ![i] = {}]
  /\ UNCHANGED sharedParsed

Clear(i) ==
  /\ sharedTemplates' = [sharedTemplates EXCEPT ![i] = NoTemplate]
  /\ sharedParsed' = [sharedParsed EXCEPT ![i] = NoTemplate]
  /\ marred' = [marred EXCEPT ![i] = {}]

-----------------------------------------------------------------------------
(* A request that renders.                                                 *)

(* Mutation of StartRender: the time stamp is taken before the query.      *)
StartRenderStamped(id, i, t) ==
  /\ Free(id)
  /\ \E ph \in {"ready", "loading"} :
       /\ inflight' = inflight \cup
            {[id |-> id, iso |-> i, tmpl |-> t, phase |-> ph,
              snap |-> NoTemplate, start |-> now, version |-> settled[i][t]]}
       /\ \/ ph = "ready" /\ Fresh(i)
             /\ UNCHANGED <<sharedTemplates, sharedParsed, sharedLoadedAt, marred>>
          \/ ph = "loading" /\ ~Fresh(i) /\ Clear(i)
             /\ sharedLoadedAt' = [sharedLoadedAt EXCEPT ![i] = now]
  /\ Silent
  /\ UNCHANGED <<Table, now, settled, passed>>

(* The head of loadAll: return at once, or clear the maps and query.       *)
StartRender(id, i, t) ==
  /\ Free(id)
  /\ \E ph \in {"ready", "loading"} :
       /\ inflight' = inflight \cup
            {[id |-> id, iso |-> i, tmpl |-> t, phase |-> ph,
              snap |-> NoTemplate, start |-> now, version |-> settled[i][t]]}
       /\ \/ ph = "ready" /\ Fresh(i)
             /\ UNCHANGED <<sharedTemplates, sharedParsed, marred>>
          \/ ph = "loading" /\ ~Fresh(i) /\ Clear(i)
  /\ Silent
  /\ UNCHANGED <<Table, sharedLoadedAt, now, settled, passed>>

(* D1 evaluates the SELECT.                                                *)
Read(q) ==
  /\ q.phase = "loading"
  /\ inflight' = (inflight \ {q}) \cup
       {[q EXCEPT !.phase = "filling", !.snap = templates]}
  /\ Silent
  /\ UNCHANGED <<Table, sharedTemplates, sharedParsed, sharedLoadedAt, now,
                 settled, passed, marred>>

(* The query fails: loadAll throws, the maps stay cleared.                 *)
ReadFails(q) ==
  /\ q.phase = "loading"
  /\ Finish(q)
  /\ passed' = Drop({q.id})
  /\ Silent
  /\ UNCHANGED <<Table, sharedTemplates, sharedParsed, sharedLoadedAt, now,
                 settled, marred>>

(* The rows are set one by one; what another load left stays.  sharedParsed*)
(* is not touched here.                                                    *)
Fill(q) ==
  /\ q.phase = "filling"
  /\ sharedTemplates' = [sharedTemplates EXCEPT ![q.iso] =
       [t \in Tmpl |-> IF q.snap[t] # 0 THEN q.snap[t] ELSE @[t]]]
  /\ sharedLoadedAt' = [sharedLoadedAt EXCEPT ![q.iso] = now]
  /\ inflight' = (inflight \ {q}) \cup {[q EXCEPT !.phase = "ready"]}
  /\ passed' = Drop({q.id}) \cup
       ((Overtaken(q.iso, {"loading", "filling"}) \ {q.id}) \X {"fill"})
  /\ marred' = [marred EXCEPT ![q.iso] =
       @ \cup {k \in {"edit", "fill"} : <<q.id, k>> \in passed}]
  /\ Silent
  /\ UNCHANGED <<Table, sharedParsed, now, settled>>

(* The render proper, one step: it finds the row, or throws                *)
(* PLG_UNKNOWN_TYPE; parsed() returns the cached JSON, or parses the row.  *)
Render(q) ==
  LET row  == sharedTemplates[q.iso][q.tmpl]
      body == IF sharedParsed[q.iso][q.tmpl] # 0
              THEN sharedParsed[q.iso][q.tmpl] ELSE row
  IN  /\ q.phase = "ready"
      /\ \/ /\ row = 0
            /\ Silent
            /\ UNCHANGED sharedParsed
         \/ /\ row # 0
            /\ sharedParsed' = [sharedParsed EXCEPT ![q.iso][q.tmpl] = body]
            /\ rendered' = {[tmpl |-> q.tmpl, defs |-> row, body |-> body,
                             settled |-> q.version, marred |-> marred[q.iso]]}
      /\ Finish(q)
      /\ UNCHANGED <<Table, sharedTemplates, sharedLoadedAt, now, settled,
                     passed, marred>>

-----------------------------------------------------------------------------
(* Writes of the templates table.                                          *)

Write(t, v) ==
  /\ edits < MaxEdits
  /\ edits' = edits + 1
  /\ templates' = [templates EXCEPT ![t] = v]
  /\ lastCurrent' = [lastCurrent EXCEPT ![t] =
       [w \in Version |-> IF w = templates'[t] THEN now ELSE @[w]]]
  /\ Silent

(* POST, PUT and DELETE write, then invalidate after the await; POST even  *)
(* awaits another SELECT in between.                                       *)
EditTemplate(id, i, t, v) ==
  /\ Free(id)
  /\ \/ v = edits + 1               \* POST of an absent, PUT of a present one
     \/ v = 0 /\ templates[t] # 0   \* DELETE
  /\ Write(t, v)
  /\ inflight' = inflight \cup
       {[id |-> id, iso |-> i, tmpl |-> t, phase |-> "invalidate",
         snap |-> NoTemplate, start |-> now, version |-> edits + 1]}
  /\ UNCHANGED <<sharedTemplates, sharedParsed, sharedLoadedAt, now, settled,
                 passed, marred>>

(* POST /api/admin/seed upserts without invalidating.                      *)
SeedTemplate(t) ==
  /\ Write(t, edits + 1)
  /\ UNCHANGED <<sharedTemplates, sharedParsed, sharedLoadedAt, inflight, now,
                 settled, passed, marred>>

Settle(q) ==
  /\ settled' = [settled EXCEPT ![q.iso][q.tmpl] =
                   IF q.version > @ THEN q.version ELSE @]
  /\ passed' = passed \cup (Overtaken(q.iso, {"filling"}) \X {"edit"})

(* Mutation of InvalidateTemplateCache: it returns without doing anything. *)
InvalidateNothing(q) ==
  /\ q.phase = "invalidate"
  /\ Settle(q)
  /\ Finish(q)
  /\ Silent
  /\ UNCHANGED <<Table, sharedTemplates, sharedParsed, sharedLoadedAt, now, marred>>

(* Mutation of InvalidateTemplateCache: it back-dates the time stamp.      *)
InvalidateByBackdating(q) ==
  /\ q.phase = "invalidate"
  /\ sharedLoadedAt' = [sharedLoadedAt EXCEPT ![q.iso] = now - CacheTTL]
  /\ Settle(q)
  /\ Finish(q)
  /\ Silent
  /\ UNCHANGED <<Table, sharedTemplates, sharedParsed, now, marred>>

InvalidateTemplateCache(q) ==
  /\ q.phase = "invalidate"
  /\ Clear(q.iso)
  /\ sharedLoadedAt' = [sharedLoadedAt EXCEPT ![q.iso] = 0]
  /\ Settle(q)
  /\ Finish(q)
  /\ Silent
  /\ UNCHANGED <<Table, now>>

-----------------------------------------------------------------------------
Tick ==
  /\ now < MaxTime
  /\ \A q \in inflight : now < q.start + MaxFlight
  /\ now' = now + 1
  /\ lastCurrent' = [t \in Tmpl |-> [w \in Version |->
       IF w = templates[t] THEN now' ELSE lastCurrent[t][w]]]
  /\ Silent
  /\ UNCHANGED <<templates, edits, sharedTemplates, sharedParsed,
                 sharedLoadedAt, inflight, settled, passed, marred>>

Restart(i) ==
  /\ inflight' = {q \in inflight : q.iso # i}
  /\ Clear(i)
  /\ sharedLoadedAt' = [sharedLoadedAt EXCEPT ![i] = 0]
  /\ settled' = [settled EXCEPT ![i] = NoTemplate]
  /\ passed' = Drop({q.id : q \in inflight \ inflight'})
  /\ Silent
  /\ UNCHANGED <<Table, now>>

(* Time starts at 1: 0 means "never loaded".                               *)
Init ==
  /\ templates = NoTemplate
  /\ sharedTemplates = [i \in Isolate |-> NoTemplate]
  /\ sharedParsed = [i \in Isolate |-> NoTemplate]
  /\ sharedLoadedAt = [i \in Isolate |-> 0]
  /\ inflight = {}
  /\ rendered = {}
  /\ now = 1
  /\ edits = 0
  /\ lastCurrent = [t \in Tmpl |-> [w \in Version |-> IF w = 0 THEN 1 ELSE 0]]
  /\ settled = [i \in Isolate |-> NoTemplate]
  /\ passed = {}
  /\ marred = [i \in Isolate |-> {}]

Serve(q) ==
  \/ Read(q) \/ ReadFails(q) \/ Fill(q) \/ Render(q)
  \/ InvalidateTemplateCache(q)

Next ==
  \/ \E id \in Req, i \in Isolate, t \in Tmpl : StartRender(id, i, t)
  \/ \E q \in inflight : Serve(q)
  \/ \E id \in Req, i \in Isolate, t \in Tmpl, v \in Version :
       EditTemplate(id, i, t, v)
  \/ \E t \in Tmpl : SeedTemplate(t)
  \/ Tick
  \/ \E i \in Isolate : Restart(i)

Spec == Init /\ [][Next]_vars

ServeRequest(id) == \E q \in inflight : q.id = id /\ Serve(q)

FairSpec == Spec /\ \A id \in Req : WF_vars(ServeRequest(id))

-----------------------------------------------------------------------------
(* Every variable keeps its shape.                                         *)
TypeOK ==
  /\ templates \in [Tmpl -> Version]
  /\ sharedTemplates \in [Isolate -> [Tmpl -> Version]]
  /\ sharedParsed \in [Isolate -> [Tmpl -> Version]]
  /\ sharedLoadedAt \in [Isolate -> Nat]
  /\ inflight \subseteq Request
  /\ rendered \subseteq Rendering
  /\ now \in Nat /\ edits \in Version
  /\ lastCurrent \in [Tmpl -> [Version -> Nat]]
  /\ settled \in [Isolate -> [Tmpl -> Version]]
  /\ passed \subseteq Req \X {"edit", "fill"}
  /\ marred \in [Isolate -> SUBSET {"edit", "fill"}]

(* Whatever a render uses was in D1 at most a TTL ago, up to three request *)
(* lives: the one that renders, the one that filled the cache, and the one *)
(* whose older fill survived under it.  Edits of any isolate, seeds and    *)
(* deletions "become visible to rendering within this window"              *)
(* (registry.ts:147-148), however loads overlap and however often a late   *)
(* fill renews the time stamp.                                             *)
RenderStaleBounded ==
  \A r \in rendered : \A v \in {r.defs, r.body} :
    now < lastCurrent[r.tmpl][v] + CacheTTL + 3 * MaxFlight

(* A cache that passes for fresh is complete: a template that D1 has held  *)
(* since before the filling request began is in it.  A load that clears    *)
(* the maps or fails never leaves a hole behind a valid time stamp.        *)
FreshIsComplete ==
  \A i \in Isolate, t \in Tmpl :
    (Fresh(i) /\ lastCurrent[t][0] < sharedLoadedAt[i] - MaxFlight)
      => sharedTemplates[i][t] # 0

(* "Write-path invalidation: drop the shared cache immediately so a render *)
(* right after a template edit sees the new definition without waiting out *)
(* the 30s TTL" (registry.ts:135-137).  One thing can hide the edit: a     *)
(* load that had queried when the edit's invalidation ran, and filled the  *)
(* cache after it.                                                         *)
EditVisibleAtOnce ==
  \A r \in rendered : r.defs >= r.settled \/ "edit" \in r.marred

(* "Fresh load invalidates parsed JSON caches too" (registry.ts:157): a    *)
(* render does not pair the definitions of one version with the body of    *)
(* another, unless a load filled the cache after another one had filled it *)
(* between the first one's clear and its fill.                             *)
ParsedMatchesRow ==
  \A r \in rendered : r.defs = r.body \/ "fill" \in r.marred
==============================================================================
