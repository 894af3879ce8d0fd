------------------------ MODULE TemplateCacheProofs ------------------------
(***************************************************************************)
(* How stale a render can be, and what a fresh cache holds, for any        *)
(* templates, isolates and requests, and any TTL and bounds.               *)
(***************************************************************************)
EXTENDS TemplateCache, TLAPS

(* A row or a parsed body of the cache.                                    *)
Cached(i, t, v) == v # 0 /\ v \in {sharedTemplates[i][t], sharedParsed[i][t]}

(* What D1 holds now is current; nothing was current later than now.       *)
Current ==
  /\ now # 0
  /\ \A t \in Tmpl : /\ lastCurrent[t][templates[t]] = now
                     /\ \A v \in Version : lastCurrent[t][v] <= now

(* Whatever is cached was current at most two request lives before the     *)
(* time stamp.                                                             *)
Loaded ==
  \A i \in Isolate :
    /\ sharedLoadedAt[i] <= now
    /\ \A t \in Tmpl, v \in Version : Cached(i, t, v) =>
         /\ sharedLoadedAt[i] # 0
         /\ lastCurrent[t][v] + 2 * MaxFlight >= sharedLoadedAt[i]

Young(q) == q.start <= now /\ now <= q.start + MaxFlight

(* What a load has read was current after the load began.                  *)
Snapped(q) ==
  q.phase = "filling" => \A t \in Tmpl : lastCurrent[t][q.snap[t]] >= q.start

(* A load cleared the cache when it began: what is there now was filled    *)
(* since, by a request at most one life older.                             *)
Cleared(q) ==
  q.phase \in {"loading", "filling"} =>
    \A t \in Tmpl, v \in Version :
      Cached(q.iso, t, v) => lastCurrent[t][v] + MaxFlight >= q.start

(* A request about to render found the cache fresh, or filled it.          *)
Ready(q) ==
  q.phase = "ready" => \/ sharedLoadedAt[q.iso] = 0
                       \/ q.start < sharedLoadedAt[q.iso] + CacheTTL

Fits(q) == Snapped(q) /\ Cleared(q) /\ Ready(q)

StaleInv ==
  /\ TypeOK /\ Current /\ Loaded
  /\ \A q \in inflight : Young(q) /\ Fits(q)

-----------------------------------------------------------------------------
(* Type correctness.                                                       *)

LEMMA NoTemplateType == NoTemplate \in [Tmpl -> Version]
BY TemplateAssumption DEF NoTemplate, Version

LEMMA ClearType ==
  ASSUME TypeOK, NEW i \in Isolate, Clear(i)
  PROVE  /\ sharedTemplates' \in [Isolate -> [Tmpl -> Version]]
         /\ sharedParsed' \in [Isolate -> [Tmpl -> Version]]
         /\ marred' \in [Isolate -> SUBSET {"edit", "fill"}]
BY NoTemplateType DEF TypeOK, Clear

LEMMA ObserverTypes ==
  ASSUME TypeOK
  PROVE  /\ \A ids : Drop(ids) \subseteq Req \X {"edit", "fill"}
         /\ \A i, phases : Overtaken(i, phases) \subseteq Req
BY DEF TypeOK, Drop, Overtaken, Request

LEMMA UpdateType ==
  ASSUME NEW f \in [Isolate -> [Tmpl -> Version]], NEW i \in Isolate,
         NEW t \in Tmpl, NEW v \in Version
  PROVE  [f EXCEPT ![i][t] = v] \in [Isolate -> [Tmpl -> Version]]
<1>1. [f[i] EXCEPT ![t] = v] \in [Tmpl -> Version]
  OBVIOUS
<1> QED  BY <1>1

LEMMA FinishType ==
  ASSUME TypeOK, NEW q, Finish(q) PROVE inflight' \subseteq Request
BY DEF TypeOK, Finish

LEMMA InitType == Init => TypeOK
<1> SUFFICES ASSUME Init PROVE TypeOK
  OBVIOUS
<1>1. lastCurrent \in [Tmpl -> [Version -> Nat]]
  BY DEF Init
<1> QED  BY <1>1, NoTemplateType, TemplateAssumption DEF Init, TypeOK, Version

LEMMA StartRenderType ==
  ASSUME TypeOK, NEW id \in Req, NEW i \in Isolate, NEW t \in Tmpl,
         StartRender(id, i, t)
  PROVE  TypeOK'
<1>1. PICK ph \in {"ready", "loading"} :
        /\ inflight' = inflight \cup
             {[id |-> id, iso |-> i, tmpl |-> t, phase |-> ph,
               snap |-> NoTemplate, start |-> now, version |-> settled[i][t]]}
        /\ \/ UNCHANGED <<sharedTemplates, sharedParsed, marred>>
           \/ Clear(i)
  BY DEF StartRender
<1>2. settled[i][t] \in Version
  BY DEF TypeOK
<1>3. inflight' \subseteq Request
  BY <1>1, <1>2, NoTemplateType DEF TypeOK, Request
<1>4. /\ sharedTemplates' \in [Isolate -> [Tmpl -> Version]]
      /\ sharedParsed' \in [Isolate -> [Tmpl -> Version]]
      /\ marred' \in [Isolate -> SUBSET {"edit", "fill"}]
  BY <1>1, ClearType DEF TypeOK
<1> QED  BY <1>3, <1>4 DEF StartRender, TypeOK, Silent, Table

LEMMA FillType ==
  ASSUME TypeOK, NEW q \in inflight, Fill(q) PROVE TypeOK'
<1>1. q \in Request /\ q.iso \in Isolate /\ q.snap \in [Tmpl -> Version]
  BY DEF TypeOK, Request
<1>2. sharedTemplates' \in [Isolate -> [Tmpl -> Version]]
  <2>1. [t \in Tmpl |-> IF q.snap[t] # 0 THEN q.snap[t]
                        ELSE sharedTemplates[q.iso][t]] \in [Tmpl -> Version]
    BY <1>1 DEF TypeOK
  <2> QED  BY <1>1, <2>1 DEF Fill, TypeOK
<1>3. [q EXCEPT !.phase = "ready"] \in Request
  BY <1>1 DEF Request
<1>4. /\ passed' \subseteq Req \X {"edit", "fill"}
      /\ marred' \in [Isolate -> SUBSET {"edit", "fill"}]
  BY <1>1, ObserverTypes DEF Fill, TypeOK
<1> QED  BY <1>1, <1>2, <1>3, <1>4 DEF Fill, TypeOK, Silent, Table

LEMMA RenderType ==
  ASSUME TypeOK, NEW q \in inflight, Render(q) PROVE TypeOK'
<1> DEFINE row  == sharedTemplates[q.iso][q.tmpl]
           body == IF sharedParsed[q.iso][q.tmpl] # 0
                   THEN sharedParsed[q.iso][q.tmpl] ELSE row
<1>1. q.iso \in Isolate /\ q.tmpl \in Tmpl /\ q.version \in Version
  BY DEF TypeOK, Request
<1>2. /\ row \in Version /\ body \in Version
      /\ marred[q.iso] \in SUBSET {"edit", "fill"}
  BY <1>1 DEF TypeOK
<1>3. \/ rendered' = {} /\ sharedParsed' = sharedParsed
      \/ /\ sharedParsed' = [sharedParsed EXCEPT ![q.iso][q.tmpl] = body]
         /\ rendered' = {[tmpl |-> q.tmpl, defs |-> row, body |-> body,
                          settled |-> q.version, marred |-> marred[q.iso]]}
  BY DEF Render, Silent
<1> HIDE DEF row, body
<1>4. rendered' \subseteq Rendering
  BY <1>1, <1>2, <1>3 DEF Rendering
<1>5. sharedParsed' \in [Isolate -> [Tmpl -> Version]]
  <2>1. sharedParsed \in [Isolate -> [Tmpl -> Version]]
    BY DEF TypeOK
  <2>2. [sharedParsed EXCEPT ![q.iso][q.tmpl] = body]
          \in [Isolate -> [Tmpl -> Version]]
    BY <1>1, <1>2, <2>1, UpdateType
  <2> QED  BY <1>3, <2>1, <2>2, Zenon
<1> QED  BY <1>4, <1>5, FinishType DEF Render, TypeOK, Table

LEMMA WriteType ==
  ASSUME TypeOK, NEW t \in Tmpl, NEW v \in Version, Write(t, v)
  PROVE  /\ templates' \in [Tmpl -> Version]
         /\ edits' \in Version /\ edits + 1 \in Version
         /\ lastCurrent' \in [Tmpl -> [Version -> Nat]]
         /\ rendered' = {}
<1>1. edits' \in Version /\ edits + 1 \in Version /\ edits' = edits + 1
  BY TemplateAssumption DEF TypeOK, Write, Version
<1>2. [w \in Version |-> IF w = templates'[t] THEN now ELSE lastCurrent[t][w]]
        \in [Version -> Nat]
  BY DEF TypeOK
<1> QED  BY <1>1, <1>2 DEF TypeOK, Write, Silent

LEMMA NextType == TypeOK /\ [Next]_vars => TypeOK'
<1> SUFFICES ASSUME TypeOK, [Next]_vars PROVE TypeOK'
  OBVIOUS
<1>1. ASSUME NEW id \in Req, NEW i \in Isolate, NEW t \in Tmpl,
             StartRender(id, i, t)
      PROVE  TypeOK'
  BY <1>1, StartRenderType
<1>2. ASSUME NEW q \in inflight, Read(q) PROVE TypeOK'
  <2>1. [q EXCEPT !.phase = "filling", !.snap = templates] \in Request
    BY DEF TypeOK, Request
  <2> QED  BY <1>2, <2>1 DEF Read, TypeOK, Silent, Table
<1>3. ASSUME NEW q \in inflight, ReadFails(q) PROVE TypeOK'
  BY <1>3, FinishType, ObserverTypes DEF ReadFails, TypeOK, Silent, Table
<1>4. ASSUME NEW q \in inflight, Fill(q) PROVE TypeOK'
  BY <1>4, FillType
<1>5. ASSUME NEW q \in inflight, Render(q) PROVE TypeOK'
  BY <1>5, RenderType
<1>6. ASSUME NEW q \in inflight, InvalidateTemplateCache(q) PROVE TypeOK'
  <2>1. q.iso \in Isolate /\ q.tmpl \in Tmpl /\ q.version \in Version
    BY DEF TypeOK, Request
  <2>2. /\ settled' \in [Isolate -> [Tmpl -> Version]]
        /\ passed' \subseteq Req \X {"edit", "fill"}
    BY <1>6, <2>1, ObserverTypes DEF InvalidateTemplateCache, Settle, TypeOK
  <2>3. sharedLoadedAt' \in [Isolate -> Nat]
    BY <1>6, <2>1 DEF InvalidateTemplateCache, TypeOK
  <2>4. Clear(q.iso) /\ Finish(q)
    BY <1>6 DEF InvalidateTemplateCache
  <2> QED  BY <1>6, <2>1, <2>2, <2>3, <2>4, ClearType, FinishType
           DEF InvalidateTemplateCache, TypeOK, Silent, Table
<1>7. ASSUME NEW id \in Req, NEW i \in Isolate, NEW t \in Tmpl,
             NEW v \in Version, EditTemplate(id, i, t, v)
      PROVE  TypeOK'
  <2>1. Write(t, v)
    BY <1>7 DEF EditTemplate
  <2>2. [id |-> id, iso |-> i, tmpl |-> t, phase |-> "invalidate",
         snap |-> NoTemplate, start |-> now, version |-> edits + 1] \in Request
    BY <2>1, WriteType, NoTemplateType DEF Request, TypeOK
  <2> QED  BY <1>7, <2>1, <2>2, WriteType DEF EditTemplate, TypeOK
<1>8. ASSUME NEW t \in Tmpl, SeedTemplate(t) PROVE TypeOK'
  <2>1. Write(t, edits + 1) /\ edits + 1 \in Version
    BY <1>8, TemplateAssumption DEF SeedTemplate, Write, TypeOK, Version
  <2> QED  BY <1>8, <2>1, WriteType DEF SeedTemplate, TypeOK
<1>9. CASE Tick
  BY <1>9 DEF Tick, TypeOK, Silent
<1>10. ASSUME NEW i \in Isolate, Restart(i) PROVE TypeOK'
  BY <1>10, ClearType, ObserverTypes, NoTemplateType
  DEF Restart, TypeOK, Silent, Table
<1>11. CASE UNCHANGED vars
  BY <1>11 DEF vars, TypeOK
<1> QED  BY <1>1, <1>2, <1>3, <1>4, <1>5, <1>6, <1>7, <1>8, <1>9, <1>10, <1>11
         DEF Next, Serve

(* The state of the cache keeps its shape.                                 *)
THEOREM TypeCorrect == Spec => []TypeOK
BY InitType, NextType, PTL DEF Spec

-----------------------------------------------------------------------------
(* Staleness.  lastCurrent only grows, so steps that leave the cache and   *)
(* the requests alone keep what is known about both.                       *)

Grows == \A t \in Tmpl, v \in Version : lastCurrent'[t][v] >= lastCurrent[t][v]

LEMMA TableCurrent ==
  ASSUME TypeOK, Current, UNCHANGED <<Table, now>>
  PROVE  Current' /\ Grows
BY DEF TypeOK, Current, Grows, Table

LEMMA WriteCurrent ==
  ASSUME TypeOK, Current, NEW t \in Tmpl, NEW v \in Version, Write(t, v),
         now' = now
  PROVE  Current' /\ Grows
<1>1. /\ templates' = [templates EXCEPT ![t] = v]
      /\ lastCurrent' = [lastCurrent EXCEPT ![t] =
           [w \in Version |-> IF w = v THEN now ELSE lastCurrent[t][w]]]
  BY DEF Write, TypeOK
<1>2. ASSUME NEW s \in Tmpl, NEW w \in Version
      PROVE  /\ templates'[s] = IF s = t THEN v ELSE templates[s]
             /\ lastCurrent'[s][w] = IF s = t /\ w = v THEN now
                                     ELSE lastCurrent[s][w]
  BY <1>1 DEF TypeOK
<1>3. \A s \in Tmpl : templates[s] \in Version
  BY DEF TypeOK
<1>4. \A s \in Tmpl, w \in Version : lastCurrent[s][w] \in Nat
  BY DEF TypeOK
<1>5. now \in Nat
  BY DEF TypeOK
<1> QED  BY <1>2, <1>3, <1>4, <1>5 DEF Current, Grows

LEMMA TickCurrent == ASSUME TypeOK, Current, Tick PROVE Current' /\ Grows
<1>1. now \in Nat /\ now' = now + 1 /\ templates' = templates
  BY DEF TypeOK, Tick
<1>2. ASSUME NEW s \in Tmpl, NEW w \in Version
      PROVE  lastCurrent'[s][w] = IF w = templates[s] THEN now'
                                  ELSE lastCurrent[s][w]
  BY DEF Tick
<1>3. \A s \in Tmpl : templates[s] \in Version
  BY DEF TypeOK
<1>4. \A s \in Tmpl, w \in Version : lastCurrent[s][w] \in Nat
  BY DEF TypeOK
<1> QED  BY <1>1, <1>2, <1>3, <1>4 DEF Current, Grows

-----------------------------------------------------------------------------
(* Every step but Fill caches nothing new, leaves a time stamp alone or    *)
(* voids it with the cache, and takes on only requests that fit.           *)
LEMMA QuietKeeps ==
  ASSUME StaleInv, TypeOK', Current', Grows, now <= now',
         \A i \in Isolate, t \in Tmpl, v \in Version :
           Cached(i, t, v)' => Cached(i, t, v),
         \A i \in Isolate :
           \/ sharedLoadedAt'[i] = sharedLoadedAt[i]
           \/ /\ sharedLoadedAt'[i] = 0
              /\ \A t \in Tmpl, v \in Version : ~ Cached(i, t, v)',
         \A q \in inflight' : Young(q)' /\ (q \in inflight \/ Fits(q)')
  PROVE  StaleInv'
<1>1. /\ now \in Nat /\ now' \in Nat /\ MaxFlight \in Nat /\ CacheTTL \in Nat
      /\ \A t \in Tmpl, v \in Version : /\ lastCurrent[t][v] \in Nat
                                        /\ lastCurrent'[t][v] \in Nat
                                        /\ lastCurrent'[t][v] >= lastCurrent[t][v]
      /\ \A i \in Isolate : sharedLoadedAt[i] \in Nat /\ sharedLoadedAt'[i] \in Nat
  BY TemplateAssumption DEF StaleInv, TypeOK, Grows
<1>2. Loaded'
  <2>1. ASSUME NEW i \in Isolate PROVE sharedLoadedAt'[i] <= now'
    <3>1. sharedLoadedAt[i] <= now
      BY DEF StaleInv, Loaded
    <3> QED  BY <1>1, <3>1
  <2>2. ASSUME NEW i \in Isolate, NEW t \in Tmpl, NEW v \in Version,
               Cached(i, t, v)'
        PROVE  /\ sharedLoadedAt'[i] # 0
               /\ lastCurrent'[t][v] + 2 * MaxFlight >= sharedLoadedAt'[i]
    <3>1. Cached(i, t, v) /\ sharedLoadedAt'[i] = sharedLoadedAt[i]
      BY <2>2
    <3>2. /\ sharedLoadedAt[i] # 0
          /\ lastCurrent[t][v] + 2 * MaxFlight >= sharedLoadedAt[i]
      BY <3>1 DEF StaleInv, Loaded
    <3> QED  BY <1>1, <3>1, <3>2
  <2> QED  BY <2>1, <2>2 DEF Loaded
<1>3. ASSUME NEW q \in inflight', q \in inflight PROVE Fits(q)'
  <2>1. q \in Request /\ q.iso \in Isolate /\ q.start \in Nat
    BY <1>3 DEF StaleInv, TypeOK, Request
  <2>2. Snapped(q) /\ Cleared(q) /\ Ready(q)
    BY <1>3 DEF StaleInv, Fits
  <2>3. Snapped(q)'
    <3>1. \A t \in Tmpl : q.snap[t] \in Version
      BY <2>1 DEF Request
    <3> QED  BY <1>1, <2>1, <2>2, <3>1 DEF Snapped
  <2>4. Cleared(q)'
    <3> SUFFICES ASSUME q.phase \in {"loading", "filling"},
                        NEW t \in Tmpl, NEW v \in Version, Cached(q.iso, t, v)'
                 PROVE  lastCurrent'[t][v] + MaxFlight >= q.start
      BY DEF Cleared
    <3>1. Cached(q.iso, t, v)
      BY <2>1
    <3>2. lastCurrent[t][v] + MaxFlight >= q.start
      BY <2>2, <3>1 DEF Cleared
    <3> QED  BY <1>1, <2>1, <3>2
  <2>5. Ready(q)'
    BY <2>1, <2>2 DEF Ready
  <2> QED  BY <2>3, <2>4, <2>5 DEF Fits
<1> QED  BY <1>2, <1>3 DEF StaleInv

(* A cleared isolate holds nothing.                                        *)
LEMMA ClearEmpties ==
  ASSUME TypeOK, NEW i \in Isolate, Clear(i)
  PROVE  /\ \A t \in Tmpl, v \in Version : ~ Cached(i, t, v)'
         /\ \A j \in Isolate, t \in Tmpl, v \in Version :
              Cached(j, t, v)' => Cached(j, t, v)
<1>1. \A t \in Tmpl : NoTemplate[t] = 0
  BY DEF NoTemplate
<1>2. ASSUME NEW j \in Isolate
      PROVE  /\ sharedTemplates'[j] = IF j = i THEN NoTemplate ELSE sharedTemplates[j]
             /\ sharedParsed'[j] = IF j = i THEN NoTemplate ELSE sharedParsed[j]
  BY DEF Clear, TypeOK
<1> QED  BY <1>1, <1>2 DEF Cached

(* Requests that stay, or leave, are as young as they were.                *)
LEMMA YoungStays ==
  ASSUME StaleInv, now' = now, NEW q \in inflight
  PROVE  Young(q)'
BY DEF StaleInv, Young

LEMMA StartRenderKeeps ==
  ASSUME StaleInv, TypeOK', NEW id \in Req, NEW i \in Isolate, NEW t \in Tmpl,
         StartRender(id, i, t)
  PROVE  StaleInv'
<1>1. TypeOK /\ Current' /\ Grows /\ now' = now /\ now \in Nat
  BY TableCurrent DEF StaleInv, StartRender, TypeOK
<1>2. PICK ph \in {"ready", "loading"} :
        /\ inflight' = inflight \cup
             {[id |-> id, iso |-> i, tmpl |-> t, phase |-> ph,
               snap |-> NoTemplate, start |-> now, version |-> settled[i][t]]}
        /\ \/ ph = "ready" /\ Fresh(i)
              /\ UNCHANGED <<sharedTemplates, sharedParsed>>
           \/ ph = "loading" /\ ~Fresh(i) /\ Clear(i)
  BY DEF StartRender
<1> DEFINE new == [id |-> id, iso |-> i, tmpl |-> t, phase |-> ph,
                   snap |-> NoTemplate, start |-> now, version |-> settled[i][t]]
<1>a. /\ inflight' = inflight \cup {new}
      /\ new.iso = i /\ new.phase = ph /\ new.start = now
  BY <1>2
<1> HIDE DEF new
<1>3. PICK r : /\ inflight' = inflight \cup {r}
               /\ r.iso = i /\ r.phase = ph /\ r.start = now
  BY <1>a
<1>4. /\ \A j \in Isolate, s \in Tmpl, v \in Version :
           Cached(j, s, v)' => Cached(j, s, v)
      /\ ph = "loading" =>
           \A s \in Tmpl, v \in Version : ~ Cached(i, s, v)'
  BY <1>1, <1>2, ClearEmpties DEF Cached
<1>5. sharedLoadedAt' = sharedLoadedAt
  BY DEF StartRender
<1>6. Young(r)'
  BY <1>1, <1>3, TemplateAssumption DEF Young
<1>7. Fits(r)'
  <2>1. Snapped(r)' /\ Cleared(r)'
    BY <1>2, <1>3, <1>4 DEF Snapped, Cleared
  <2>2. Ready(r)'
    <3>1. ph = "ready" => Fresh(i)
      BY <1>2
    <3>2. sharedLoadedAt[i] \in Nat /\ CacheTTL \in Nat
      BY <1>1, TemplateAssumption DEF TypeOK
    <3> QED  BY <1>1, <1>3, <1>5, <3>1, <3>2 DEF Ready, Fresh
  <2> QED  BY <2>1, <2>2 DEF Fits
<1> QED  BY <1>1, <1>3, <1>4, <1>5, <1>6, <1>7, YoungStays, QuietKeeps

LEMMA ReadKeeps ==
  ASSUME StaleInv, TypeOK', NEW q \in inflight, Read(q) PROVE StaleInv'
<1>1. /\ TypeOK /\ Current' /\ Grows /\ now' = now /\ now \in Nat
      /\ templates' = templates /\ lastCurrent' = lastCurrent
  BY TableCurrent DEF StaleInv, Read, TypeOK, Table
<1>2. q \in Request /\ Young(q) /\ Fits(q)
  BY DEF StaleInv, TypeOK
<1>3. /\ UNCHANGED <<sharedTemplates, sharedParsed, sharedLoadedAt>>
      /\ q.phase = "loading"
  BY DEF Read
<1> DEFINE r == [q EXCEPT !.phase = "filling", !.snap = templates]
<1>4. /\ inflight' = (inflight \ {q}) \cup {r}
      /\ r.iso = q.iso /\ r.phase = "filling" /\ r.start = q.start
      /\ r.snap = templates
  BY <1>2 DEF Read, Request
<1>5. PICK s : /\ inflight' = (inflight \ {q}) \cup {s}
               /\ s.iso = q.iso /\ s.phase = "filling" /\ s.start = q.start
               /\ s.snap = templates
  BY <1>4
<1>6. Young(s)' /\ q.start <= now
  BY <1>1, <1>2, <1>5 DEF Young
<1>7. Fits(s)'
  <2>1. Snapped(s)'
    BY <1>1, <1>5, <1>6 DEF StaleInv, Current, Snapped
  <2>2. Cleared(s)' /\ Ready(s)'
    BY <1>1, <1>2, <1>3, <1>5 DEF Fits, Cleared, Ready, Cached
  <2> QED  BY <2>1, <2>2 DEF Fits
<1>8. \A j \in Isolate, t \in Tmpl, v \in Version :
        Cached(j, t, v)' => Cached(j, t, v)
  BY <1>3 DEF Cached
<1> QED  BY <1>1, <1>3, <1>5, <1>6, <1>7, <1>8, YoungStays, QuietKeeps

LEMMA RenderKeeps ==
  ASSUME StaleInv, TypeOK', NEW q \in inflight, Render(q) PROVE StaleInv'
<1> DEFINE row  == sharedTemplates[q.iso][q.tmpl]
           body == IF sharedParsed[q.iso][q.tmpl] # 0
                   THEN sharedParsed[q.iso][q.tmpl] ELSE row
<1>1. TypeOK /\ Current' /\ Grows /\ now' = now /\ now \in Nat
  BY TableCurrent DEF StaleInv, Render, TypeOK
<1>2. /\ \/ sharedParsed' = sharedParsed
         \/ sharedParsed' = [sharedParsed EXCEPT ![q.iso][q.tmpl] = body]
      /\ UNCHANGED <<sharedTemplates, sharedLoadedAt>>
      /\ inflight' = inflight \ {q}
  BY DEF Render, Finish
<1>3. body \in {sharedTemplates[q.iso][q.tmpl], sharedParsed[q.iso][q.tmpl]}
  OBVIOUS
<1> HIDE DEF row, body
<1>4. ASSUME NEW j \in Isolate, NEW t \in Tmpl, NEW v \in Version,
             Cached(j, t, v)'
      PROVE  Cached(j, t, v)
  <2>1. sharedParsed'[j][t] \in {sharedParsed[j][t], sharedTemplates[j][t]}
    <3>1. CASE sharedParsed' = sharedParsed
      BY <3>1
    <3>2. CASE sharedParsed' = [sharedParsed EXCEPT ![q.iso][q.tmpl] = body]
      BY <1>1, <1>3, <3>2 DEF TypeOK
    <3> QED  BY <1>2, <3>1, <3>2
  <2> QED  BY <1>2, <1>4, <2>1 DEF Cached
<1> QED  BY <1>1, <1>2, <1>4, YoungStays, QuietKeeps

(* The rows a load read are at most one life old, those another load left  *)
(* at most two.                                                            *)
LEMMA FillKeeps ==
  ASSUME StaleInv, TypeOK', NEW q \in inflight, Fill(q) PROVE StaleInv'
<1>1. /\ TypeOK /\ Current' /\ now' = now /\ now \in Nat
      /\ lastCurrent' = lastCurrent
  BY TableCurrent DEF StaleInv, Fill, TypeOK, Table
<1>2. /\ q \in Request /\ q.iso \in Isolate /\ q.start \in Nat
      /\ q.phase = "filling" /\ Young(q) /\ Snapped(q) /\ Cleared(q)
  BY DEF StaleInv, TypeOK, Fits, Fill, Request
<1> DEFINE filled == [q EXCEPT !.phase = "ready"]
<1>a. /\ inflight' = (inflight \ {q}) \cup {filled}
      /\ filled.iso = q.iso /\ filled.phase = "ready" /\ filled.start = q.start
  BY <1>2 DEF Fill, Request
<1> HIDE DEF filled
<1>3. PICK r : /\ inflight' = (inflight \ {q}) \cup {r}
               /\ r.iso = q.iso /\ r.phase = "ready" /\ r.start = q.start
  BY <1>a
<1>4. /\ MaxFlight \in Nat /\ CacheTTL \in Nat \ {0} /\ now # 0
      /\ \A t \in Tmpl, v \in Version : lastCurrent[t][v] \in Nat
      /\ q.start <= now /\ now <= q.start + MaxFlight
      /\ \A i \in Isolate : sharedLoadedAt[i] \in Nat /\ sharedLoadedAt[i] <= now
  BY <1>1, <1>2, TemplateAssumption DEF TypeOK, Young, StaleInv, Loaded, Current
<1>5. \A i \in Isolate : sharedLoadedAt'[i] = IF i = q.iso THEN now
                                              ELSE sharedLoadedAt[i]
  BY <1>1 DEF Fill, TypeOK
<1>6. ASSUME NEW i \in Isolate, NEW t \in Tmpl, NEW v \in Version,
             Cached(i, t, v)'
      PROVE  \/ Cached(i, t, v)
             \/ i = q.iso /\ v = q.snap[t]
  <2>1. sharedTemplates'[i][t] \in
          {sharedTemplates[i][t]} \cup (IF i = q.iso THEN {q.snap[t]} ELSE {})
    BY <1>1, <1>2 DEF Fill, TypeOK
  <2>2. sharedParsed' = sharedParsed
    BY DEF Fill
  <2> QED  BY <1>6, <2>1, <2>2 DEF Cached
<1>7. ASSUME NEW t \in Tmpl, NEW v \in Version, Cached(q.iso, t, v)'
      PROVE  lastCurrent[t][v] + MaxFlight >= q.start
  <2>1. CASE Cached(q.iso, t, v)
    BY <1>2, <2>1 DEF Cleared
  <2>2. CASE v = q.snap[t]
    <3>1. lastCurrent[t][v] >= q.start
      BY <1>2, <2>2 DEF Snapped
    <3> QED  BY <1>2, <1>4, <3>1
  <2> QED  BY <1>2, <1>6, <1>7, <2>1, <2>2
<1>8. Loaded'
  <2>1. ASSUME NEW i \in Isolate PROVE sharedLoadedAt'[i] <= now'
    BY <1>1, <1>4, <1>5
  <2>2. ASSUME NEW i \in Isolate, NEW t \in Tmpl, NEW v \in Version,
               Cached(i, t, v)'
        PROVE  /\ sharedLoadedAt'[i] # 0
               /\ lastCurrent'[t][v] + 2 * MaxFlight >= sharedLoadedAt'[i]
    <3>1. CASE i = q.iso
      <4>1. lastCurrent[t][v] + MaxFlight >= q.start
        BY <1>7, <2>2, <3>1
      <4>2. lastCurrent[t][v] \in Nat /\ sharedLoadedAt'[i] = now
        BY <1>4, <1>5, <3>1
      <4> QED  BY <1>1, <1>2, <1>4, <4>1, <4>2
    <3>2. CASE i # q.iso
      BY <1>1, <1>5, <1>6, <2>2, <3>2 DEF StaleInv, Loaded
    <3> QED  BY <3>1, <3>2
  <2> QED  BY <2>1, <2>2 DEF Loaded
<1>9. Young(r)' /\ Fits(r)'
  BY <1>1, <1>2, <1>3, <1>4, <1>5
  DEF Young, Fits, Snapped, Cleared, Ready
<1>10. ASSUME NEW p \in inflight PROVE Young(p)' /\ Fits(p)'
  <2>1. /\ p \in Request /\ p.iso \in Isolate /\ p.start \in Nat
        /\ p.start <= now /\ Snapped(p) /\ Cleared(p) /\ Ready(p)
    BY DEF StaleInv, TypeOK, Fits, Young, Request
  <2>2. Young(p)'
    BY <1>1, YoungStays
  <2>3. Snapped(p)'
    BY <1>1, <2>1 DEF Snapped
  <2>4. Cleared(p)'
    <3> SUFFICES ASSUME p.phase \in {"loading", "filling"},
                        NEW t \in Tmpl, NEW v \in Version, Cached(p.iso, t, v)'
                 PROVE  lastCurrent[t][v] + MaxFlight >= p.start
      BY <1>1 DEF Cleared
    <3>1. CASE Cached(p.iso, t, v)
      BY <2>1, <3>1 DEF Cleared
    <3>2. CASE p.iso = q.iso /\ v = q.snap[t]
      <4>1. lastCurrent[t][v] >= q.start
        BY <1>2, <3>2 DEF Snapped
      <4> QED  BY <1>1, <1>2, <1>4, <2>1, <4>1
    <3> QED  BY <1>6, <2>1, <3>1, <3>2
  <2>5. Ready(p)'
    BY <1>1, <1>4, <1>5, <2>1 DEF Ready
  <2> QED  BY <2>2, <2>3, <2>4, <2>5 DEF Fits
<1> QED  BY <1>1, <1>3, <1>8, <1>9, <1>10 DEF StaleInv

LEMMA InvalidateKeeps ==
  ASSUME StaleInv, TypeOK', NEW q \in inflight, InvalidateTemplateCache(q)
  PROVE  StaleInv'
<1>1. /\ TypeOK /\ Current' /\ Grows /\ now' = now /\ now \in Nat
      /\ q.iso \in Isolate
  BY TableCurrent DEF StaleInv, InvalidateTemplateCache, TypeOK, Request
<1>2. /\ Clear(q.iso) /\ inflight' = inflight \ {q}
      /\ sharedLoadedAt' = [sharedLoadedAt EXCEPT ![q.iso] = 0]
  BY DEF InvalidateTemplateCache, Finish
<1>3. \A i \in Isolate : sharedLoadedAt'[i] = IF i = q.iso THEN 0
                                              ELSE sharedLoadedAt[i]
  BY <1>1, <1>2 DEF TypeOK
<1> QED  BY <1>1, <1>2, <1>3, ClearEmpties, YoungStays, QuietKeeps

LEMMA RestartKeeps ==
  ASSUME StaleInv, TypeOK', NEW i \in Isolate, Restart(i) PROVE StaleInv'
<1>1. /\ TypeOK /\ Current' /\ Grows /\ now' = now /\ now \in Nat
  BY TableCurrent DEF StaleInv, Restart, TypeOK
<1>2. /\ Clear(i) /\ inflight' \subseteq inflight
      /\ sharedLoadedAt' = [sharedLoadedAt EXCEPT ![i] = 0]
  BY DEF Restart
<1>3. \A j \in Isolate : sharedLoadedAt'[j] = IF j = i THEN 0
                                              ELSE sharedLoadedAt[j]
  BY <1>1, <1>2 DEF TypeOK
<1> QED  BY <1>1, <1>2, <1>3, ClearEmpties, YoungStays, QuietKeeps

(* A write of the table adds at most the request that will invalidate.     *)
LEMMA WriteKeeps ==
  ASSUME StaleInv, TypeOK', NEW t \in Tmpl, NEW v \in Version, Write(t, v),
         UNCHANGED <<sharedTemplates, sharedParsed, sharedLoadedAt, now>>,
         \A q \in inflight' :
           \/ q \in inflight
           \/ q.phase = "invalidate" /\ q.start = now
  PROVE  StaleInv'
<1>1. TypeOK /\ Current' /\ Grows /\ now \in Nat
  BY WriteCurrent DEF StaleInv, TypeOK
<1>2. ASSUME NEW q \in inflight' PROVE Young(q)' /\ (q \in inflight \/ Fits(q)')
  <2>1. CASE q \in inflight
    BY <2>1, YoungStays
  <2>2. CASE q.phase = "invalidate" /\ q.start = now
    BY <1>1, <2>2, TemplateAssumption
    DEF Young, Fits, Snapped, Cleared, Ready
  <2> QED  BY <2>1, <2>2
<1>3. \A j \in Isolate, s \in Tmpl, w \in Version :
        Cached(j, s, w)' => Cached(j, s, w)
  BY DEF Cached
<1> QED  BY <1>1, <1>2, <1>3, QuietKeeps

LEMMA TickKeeps == ASSUME StaleInv, TypeOK', Tick PROVE StaleInv'
<1>1. TypeOK /\ Current' /\ Grows /\ now' = now + 1 /\ now \in Nat
  BY TickCurrent DEF StaleInv, TypeOK, Tick
<1>2. UNCHANGED <<sharedTemplates, sharedParsed, sharedLoadedAt, inflight>>
  BY DEF Tick
<1>3. ASSUME NEW q \in inflight PROVE Young(q)'
  <2>1. q.start \in Nat /\ q.start <= now /\ now < q.start + MaxFlight
    BY DEF StaleInv, TypeOK, Request, Young, Tick
  <2> QED  BY <1>1, <2>1, TemplateAssumption DEF Young
<1>4. \A j \in Isolate, t \in Tmpl, v \in Version :
        Cached(j, t, v)' => Cached(j, t, v)
  BY <1>2 DEF Cached
<1> QED  BY <1>1, <1>2, <1>3, <1>4, QuietKeeps

LEMMA InitStale == Init => StaleInv
<1> SUFFICES ASSUME Init PROVE StaleInv
  OBVIOUS
<1>1. Current
  <2>1. 0 \in Version /\ \A t \in Tmpl : templates[t] = 0
    BY TemplateAssumption DEF Init, NoTemplate, Version
  <2>2. \A t \in Tmpl, v \in Version :
          lastCurrent[t][v] = IF v = 0 THEN 1 ELSE 0
    BY DEF Init
  <2> QED  BY <2>1, <2>2 DEF Init, Current
<1>2. Loaded
  BY DEF Init, Loaded, Cached, NoTemplate
<1> QED  BY <1>1, <1>2, InitType DEF Init, StaleInv

LEMMA NextStale == StaleInv /\ TypeOK' /\ [Next]_vars => StaleInv'
<1> SUFFICES ASSUME StaleInv, TypeOK', [Next]_vars PROVE StaleInv'
  OBVIOUS
<1>1. ASSUME NEW id \in Req, NEW i \in Isolate, NEW t \in Tmpl,
             StartRender(id, i, t)
      PROVE  StaleInv'
  BY <1>1, StartRenderKeeps
<1>2. ASSUME NEW q \in inflight, Read(q) PROVE StaleInv'
  BY <1>2, ReadKeeps
<1>3. ASSUME NEW q \in inflight, ReadFails(q) PROVE StaleInv'
  <2>1. /\ UNCHANGED <<Table, sharedTemplates, sharedParsed, sharedLoadedAt, now>>
        /\ inflight' = inflight \ {q}
    BY <1>3 DEF ReadFails, Finish
  <2>2. TypeOK /\ Current' /\ Grows /\ now \in Nat
    BY <2>1, TableCurrent DEF StaleInv, TypeOK
  <2>3. \A j \in Isolate, t \in Tmpl, v \in Version :
          Cached(j, t, v)' => Cached(j, t, v)
    BY <2>1 DEF Cached
  <2> QED  BY <2>1, <2>2, <2>3, YoungStays, QuietKeeps
<1>4. ASSUME NEW q \in inflight, Fill(q) PROVE StaleInv'
  BY <1>4, FillKeeps
<1>5. ASSUME NEW q \in inflight, Render(q) PROVE StaleInv'
  BY <1>5, RenderKeeps
<1>6. ASSUME NEW q \in inflight, InvalidateTemplateCache(q) PROVE StaleInv'
  BY <1>6, InvalidateKeeps
<1>7. ASSUME NEW id \in Req, NEW i \in Isolate, NEW t \in Tmpl,
             NEW v \in Version, EditTemplate(id, i, t, v)
      PROVE  StaleInv'
  BY <1>7, WriteKeeps DEF EditTemplate
<1>8. ASSUME NEW t \in Tmpl, SeedTemplate(t) PROVE StaleInv'
  <2>1. Write(t, edits + 1) /\ edits + 1 \in Version
    BY <1>8, TemplateAssumption DEF SeedTemplate, Write, StaleInv, TypeOK, Version
  <2> QED  BY <1>8, <2>1, WriteKeeps DEF SeedTemplate
<1>9. CASE Tick
  BY <1>9, TickKeeps
<1>10. ASSUME NEW i \in Isolate, Restart(i) PROVE StaleInv'
  BY <1>10, RestartKeeps
<1>11. CASE UNCHANGED vars
  BY <1>11
  DEF vars, StaleInv, TypeOK, Current, Loaded, Cached, Young, Fits, Snapped,
      Cleared, Ready
<1> QED  BY <1>1, <1>2, <1>3, <1>4, <1>5, <1>6, <1>7, <1>8, <1>9, <1>10, <1>11
         DEF Next, Serve

LEMMA StaleInvariance == Spec => []StaleInv
<1>1. StaleInv => TypeOK
  BY DEF StaleInv
<1> QED  BY <1>1, InitStale, NextStale, NextType, PTL DEF Spec

-----------------------------------------------------------------------------
(* Whatever a render uses was in D1 at most a TTL and three request lives  *)
(* ago, however loads, fills and invalidations overlap.                    *)
THEOREM RenderStaleIsBounded == Spec => []RenderStaleBounded
<1>1. Init => RenderStaleBounded
  BY DEF Init, RenderStaleBounded
<1>2. StaleInv /\ TypeOK' /\ RenderStaleBounded /\ [Next]_vars
        => RenderStaleBounded'
  <2> SUFFICES ASSUME StaleInv, TypeOK', RenderStaleBounded, [Next]_vars
               PROVE  RenderStaleBounded'
    OBVIOUS
  <2>1. ASSUME NEW q \in inflight, Render(q) PROVE RenderStaleBounded'
    <3> DEFINE row  == sharedTemplates[q.iso][q.tmpl]
               body == IF sharedParsed[q.iso][q.tmpl] # 0
                       THEN sharedParsed[q.iso][q.tmpl] ELSE row
    <3>1. /\ q.iso \in Isolate /\ q.tmpl \in Tmpl /\ q.start \in Nat
          /\ now <= q.start + MaxFlight /\ Ready(q) /\ q.phase = "ready"
      BY <2>1 DEF StaleInv, TypeOK, Request, Young, Fits, Render
    <3>2. now' = now /\ lastCurrent' = lastCurrent
      BY <2>1 DEF Render, Table
    <3>3. /\ \A r \in rendered' : r.tmpl = q.tmpl /\ r.defs = row /\ r.body = body
          /\ rendered' # {} => row # 0
      BY <2>1 DEF Render, Silent
    <3>4. rendered' # {} =>
            \A v \in {row, body} : v \in Version /\ Cached(q.iso, q.tmpl, v)
      BY <3>1, <3>3 DEF Cached, StaleInv, TypeOK
    <3> HIDE DEF row, body
    <3>5. ASSUME NEW v \in Version, Cached(q.iso, q.tmpl, v)
          PROVE  now < lastCurrent[q.tmpl][v] + CacheTTL + 3 * MaxFlight
      <4>1. /\ sharedLoadedAt[q.iso] # 0
            /\ lastCurrent[q.tmpl][v] + 2 * MaxFlight >= sharedLoadedAt[q.iso]
        BY <3>1, <3>5 DEF StaleInv, Loaded
      <4>2. q.start < sharedLoadedAt[q.iso] + CacheTTL
        BY <3>1, <4>1 DEF Ready
      <4>3. /\ lastCurrent[q.tmpl][v] \in Nat /\ sharedLoadedAt[q.iso] \in Nat
            /\ now \in Nat /\ CacheTTL \in Nat /\ MaxFlight \in Nat
        BY <3>1, TemplateAssumption DEF StaleInv, TypeOK
      <4> QED  BY <3>1, <4>1, <4>2, <4>3
    <3> QED  BY <3>2, <3>3, <3>4, <3>5 DEF RenderStaleBounded
  <2>2. CASE UNCHANGED vars
    BY <2>2 DEF vars, RenderStaleBounded
  <2>3. CASE rendered' = {}
    BY <2>3 DEF RenderStaleBounded
  <2> QED
    BY <2>1, <2>2, <2>3
    DEF Next, Serve, StartRender, Read, ReadFails, Fill,
        InvalidateTemplateCache, EditTemplate, SeedTemplate, Write, Tick,
        Restart, Silent
<1> QED  BY <1>1, <1>2, StaleInvariance, TypeCorrect, PTL DEF Spec

-----------------------------------------------------------------------------
(* Completeness.  A template that was absent when a load read the table    *)
(* was absent at most a request life before the time stamp of its fill.    *)
LEMMA FreshKept ==
  ASSUME StaleInv, TypeOK', FreshIsComplete, Grows, now <= now', now' \in Nat,
         \A i \in Isolate :
           \/ sharedLoadedAt'[i] = 0
           \/ /\ sharedLoadedAt'[i] = sharedLoadedAt[i]
              /\ \/ sharedTemplates'[i] = sharedTemplates[i]
                 \/ ~ Fresh(i)
  PROVE  FreshIsComplete'
<1> SUFFICES ASSUME NEW i \in Isolate, NEW t \in Tmpl, Fresh(i)',
                    lastCurrent'[t][0] < sharedLoadedAt'[i] - MaxFlight
             PROVE  sharedTemplates'[i][t] # 0
  BY DEF FreshIsComplete
<1>1. /\ now \in Nat /\ CacheTTL \in Nat /\ MaxFlight \in Nat /\ 0 \in Version
      /\ sharedLoadedAt[i] \in Nat
  BY TemplateAssumption DEF StaleInv, TypeOK, Version
<1>2. /\ lastCurrent[t][0] \in Nat /\ lastCurrent'[t][0] \in Nat
      /\ lastCurrent'[t][0] >= lastCurrent[t][0]
  BY <1>1 DEF StaleInv, TypeOK, Grows
<1>3. /\ sharedLoadedAt'[i] # 0
      /\ now' - sharedLoadedAt'[i] < CacheTTL
  BY DEF Fresh
<1>4. sharedLoadedAt'[i] = sharedLoadedAt[i]
  BY <1>3
<1>5. Fresh(i)
  BY <1>1, <1>3, <1>4 DEF Fresh
<1>6. lastCurrent[t][0] < sharedLoadedAt[i] - MaxFlight
  BY <1>1, <1>2, <1>4
<1>7. sharedTemplates[i][t] # 0
  BY <1>5, <1>6 DEF FreshIsComplete
<1> QED  BY <1>3, <1>5, <1>7

THEOREM FreshCacheIsComplete == Spec => []FreshIsComplete
<1>1. Init => FreshIsComplete
  BY DEF Init, FreshIsComplete, Fresh
<1>2. StaleInv /\ TypeOK' /\ FreshIsComplete /\ [Next]_vars => FreshIsComplete'
  <2> SUFFICES ASSUME StaleInv, TypeOK', FreshIsComplete, [Next]_vars
               PROVE  FreshIsComplete'
    OBVIOUS
  <2>1. TypeOK /\ Current /\ now \in Nat /\ now' \in Nat
    BY DEF StaleInv, TypeOK
  <2>2. ASSUME NEW q \in inflight, Fill(q) PROVE FreshIsComplete'
    <3>1. /\ q.iso \in Isolate /\ q.start \in Nat /\ q.snap \in [Tmpl -> Version]
          /\ now <= q.start + MaxFlight /\ Snapped(q) /\ q.phase = "filling"
      BY <2>2 DEF StaleInv, TypeOK, Request, Young, Fits, Fill
    <3>2. now' = now /\ lastCurrent' = lastCurrent
      BY <2>2 DEF Fill, Table
    <3>3. /\ sharedLoadedAt' = [sharedLoadedAt EXCEPT ![q.iso] = now]
          /\ sharedTemplates' = [sharedTemplates EXCEPT ![q.iso] =
               [t \in Tmpl |-> IF q.snap[t] # 0 THEN q.snap[t]
                               ELSE sharedTemplates[q.iso][t]]]
      BY <2>1, <2>2, <3>1 DEF Fill, TypeOK
    <3> SUFFICES ASSUME NEW i \in Isolate, NEW t \in Tmpl, Fresh(i)',
                        lastCurrent'[t][0] < sharedLoadedAt'[i] - MaxFlight
                 PROVE  sharedTemplates'[i][t] # 0
      BY DEF FreshIsComplete
    <3>4. CASE i = q.iso
      <4>1. sharedLoadedAt'[i] = now
        BY <2>1, <3>3, <3>4 DEF TypeOK
      <4>2. q.snap[t] # 0
        <5>1. lastCurrent[t][q.snap[t]] >= q.start
          BY <3>1 DEF Snapped
        <5>2. /\ MaxFlight \in Nat /\ 0 \in Version
              /\ lastCurrent[t][0] \in Nat
          BY <2>1, TemplateAssumption DEF TypeOK, Version
        <5> QED  BY <2>1, <3>1, <3>2, <4>1, <5>1, <5>2
      <4>3. sharedTemplates'[i][t] = q.snap[t]
        BY <2>1, <3>1, <3>3, <3>4, <4>2 DEF TypeOK
      <4> QED  BY <4>2, <4>3
    <3>5. CASE i # q.iso
      <4>1. /\ sharedLoadedAt'[i] = sharedLoadedAt[i]
            /\ sharedTemplates'[i] = sharedTemplates[i]
        BY <2>1, <3>3, <3>5 DEF TypeOK
      <4> QED  BY <3>2, <4>1 DEF FreshIsComplete, Fresh
    <3> QED  BY <3>4, <3>5
  <2>3. ASSUME UNCHANGED <<Table, now>>,
               \A i \in Isolate :
                 \/ sharedLoadedAt'[i] = 0
                 \/ /\ sharedLoadedAt'[i] = sharedLoadedAt[i]
                    /\ \/ sharedTemplates'[i] = sharedTemplates[i]
                       \/ ~ Fresh(i)
        PROVE  FreshIsComplete'
    BY <2>1, <2>3, TableCurrent, FreshKept
  <2>4. ASSUME NEW id \in Req, NEW i \in Isolate, NEW t \in Tmpl,
               StartRender(id, i, t)
        PROVE  FreshIsComplete'
    <3>1. \A j \in Isolate : \/ sharedTemplates'[j] = sharedTemplates[j]
                             \/ ~ Fresh(j)
      BY <2>1, <2>4 DEF StartRender, Clear, TypeOK
    <3> QED  BY <2>3, <2>4, <3>1 DEF StartRender
  <2>5. ASSUME NEW q \in inflight,
               Read(q) \/ ReadFails(q) \/ Render(q)
        PROVE  FreshIsComplete'
    BY <2>3, <2>5 DEF Read, ReadFails, Render
  <2>6. ASSUME NEW q \in inflight, InvalidateTemplateCache(q)
        PROVE  FreshIsComplete'
    <3>1. q.iso \in Isolate
      BY <2>1 DEF TypeOK, Request
    <3>2. \A i \in Isolate :
            \/ sharedLoadedAt'[i] = 0
            \/ /\ sharedLoadedAt'[i] = sharedLoadedAt[i]
               /\ sharedTemplates'[i] = sharedTemplates[i]
      BY <2>1, <2>6, <3>1 DEF InvalidateTemplateCache, Clear, TypeOK
    <3> QED  BY <2>3, <2>6, <3>2 DEF InvalidateTemplateCache
  <2>7. ASSUME NEW t \in Tmpl, NEW v \in Version, Write(t, v), now' = now,
               UNCHANGED <<sharedTemplates, sharedLoadedAt>>
        PROVE  FreshIsComplete'
    BY <2>1, <2>7, WriteCurrent, FreshKept
  <2>8. ASSUME NEW id \in Req, NEW i \in Isolate, NEW t \in Tmpl,
               NEW v \in Version, EditTemplate(id, i, t, v)
        PROVE  FreshIsComplete'
    BY <2>7, <2>8 DEF EditTemplate
  <2>9. ASSUME NEW t \in Tmpl, SeedTemplate(t) PROVE FreshIsComplete'
    <3>1. Write(t, edits + 1) /\ edits + 1 \in Version
      BY <2>1, <2>9, TemplateAssumption
      DEF SeedTemplate, Write, TypeOK, Version
    <3> QED  BY <2>7, <2>9, <3>1 DEF SeedTemplate
  <2>10. CASE Tick
    <3>1. Grows /\ now <= now'
      BY <2>1, <2>10, TickCurrent DEF Tick
    <3> QED  BY <2>1, <2>10, <3>1, FreshKept DEF Tick
  <2>11. ASSUME NEW i \in Isolate, Restart(i) PROVE FreshIsComplete'
    <3>1. \A j \in Isolate :
            \/ sharedLoadedAt'[j] = 0
            \/ /\ sharedLoadedAt'[j] = sharedLoadedAt[j]
               /\ sharedTemplates'[j] = sharedTemplates[j]
      BY <2>1, <2>11 DEF Restart, Clear, TypeOK
    <3> QED  BY <2>3, <2>11, <3>1 DEF Restart
  <2>12. CASE UNCHANGED vars
    BY <2>12 DEF vars, FreshIsComplete, Fresh
  <2> QED
    BY <2>2, <2>4, <2>5, <2>6, <2>8, <2>9, <2>10, <2>11, <2>12 DEF Next, Serve
<1> QED  BY <1>1, <1>2, StaleInvariance, TypeCorrect, PTL DEF Spec

-----------------------------------------------------------------------------
(* What overlapping loads can do to an edit and to the parsed JSON.        *)

IdsUnique == \A q, r \in inflight : q.id = r.id => q = r

LEMMA Uniqueness ==
  ASSUME TypeOK, IdsUnique, [Next]_vars PROVE IdsUnique'
<1>1. ASSUME NEW id, Free(id), NEW r, r.id = id, inflight' = inflight \cup {r}
      PROVE  IdsUnique'
  BY <1>1 DEF IdsUnique, Free
<1>2. ASSUME NEW q \in inflight, NEW r, r.id = q.id,
             inflight' = (inflight \ {q}) \cup {r}
      PROVE  IdsUnique'
  BY <1>2 DEF IdsUnique
<1>3. ASSUME inflight' \subseteq inflight PROVE IdsUnique'
  BY <1>3 DEF IdsUnique
<1>4. ASSUME NEW id \in Req, NEW i \in Isolate, NEW t \in Tmpl,
             StartRender(id, i, t)
      PROVE  IdsUnique'
  BY <1>1, <1>4 DEF StartRender
<1>5. ASSUME NEW q \in inflight, Read(q) \/ Fill(q) PROVE IdsUnique'
  <2>1. q \in Request
    BY DEF TypeOK
  <2>2. PICK r : r.id = q.id /\ inflight' = (inflight \ {q}) \cup {r}
    <3>1. CASE Read(q)
      <4>1. [q EXCEPT !.phase = "filling", !.snap = templates].id = q.id
        BY <2>1 DEF Request
      <4> QED  BY <3>1, <4>1 DEF Read
    <3>2. CASE Fill(q)
      <4>1. [q EXCEPT !.phase = "ready"].id = q.id
        BY <2>1 DEF Request
      <4> QED  BY <3>2, <4>1 DEF Fill
    <3> QED  BY <1>5, <3>1, <3>2
  <2> QED  BY <1>2, <2>2
<1>6. ASSUME NEW q \in inflight,
             ReadFails(q) \/ Render(q) \/ InvalidateTemplateCache(q)
      PROVE  IdsUnique'
  BY <1>3, <1>6 DEF ReadFails, Render, InvalidateTemplateCache, Finish
<1>7. ASSUME NEW id \in Req, NEW i \in Isolate, NEW t \in Tmpl,
             NEW v \in Version, EditTemplate(id, i, t, v)
      PROVE  IdsUnique'
  BY <1>1, <1>7 DEF EditTemplate
<1>8. ASSUME \/ \E t \in Tmpl : SeedTemplate(t)
             \/ Tick
             \/ \E i \in Isolate : Restart(i)
             \/ UNCHANGED vars
      PROVE  IdsUnique'
  BY <1>3, <1>8 DEF SeedTemplate, Tick, Restart, vars
<1> QED  BY <1>4, <1>5, <1>6, <1>7, <1>8 DEF Next, Serve

(* A load that is marked stays marked while it is under way.               *)
LEMMA MarksStay ==
  ASSUME TypeOK, IdsUnique, [Next]_vars, NEW q \in inflight, q \in inflight',
         q.phase \in {"loading", "filling"},
         NEW k \in {"edit", "fill"}, <<q.id, k>> \in passed
  PROVE  <<q.id, k>> \in passed'
<1>1. ASSUME NEW r \in inflight, r # q PROVE <<q.id, k>> \in Drop({r.id})
  BY <1>1 DEF IdsUnique, Drop
<1>2. ASSUME NEW r \in inflight, ReadFails(r) PROVE <<q.id, k>> \in passed'
  BY <1>1, <1>2 DEF ReadFails, Finish
<1>3. ASSUME NEW r \in inflight, Fill(r) PROVE <<q.id, k>> \in passed'
  <2>1. r # q
    <3>1. r \in Request /\ r.phase = "filling"
      BY <1>3 DEF Fill, TypeOK
    <3>2. [r EXCEPT !.phase = "ready"].phase = "ready"
      BY <3>1 DEF Request
    <3> QED  BY <1>3, <3>1, <3>2 DEF Fill
  <2> QED  BY <1>1, <1>3, <2>1 DEF Fill
<1>4. ASSUME NEW r \in inflight, InvalidateTemplateCache(r)
      PROVE  <<q.id, k>> \in passed'
  BY <1>4 DEF InvalidateTemplateCache, Settle
<1>5. ASSUME NEW i \in Isolate, Restart(i) PROVE <<q.id, k>> \in passed'
  <2>1. q.id \notin {r.id : r \in inflight \ inflight'}
    BY DEF IdsUnique
  <2> QED  BY <1>5, <2>1 DEF Restart, Drop
<1>6. ASSUME UNCHANGED passed PROVE <<q.id, k>> \in passed'
  BY <1>6
<1> QED
  BY <1>2, <1>3, <1>4, <1>5, <1>6
  DEF Next, Serve, StartRender, Read, Render, EditTemplate, SeedTemplate, Tick,
      vars

-----------------------------------------------------------------------------
(* An edit is hidden only by a load that had queried before it.            *)

(* Version v is none, or not older than edit w.                            *)
AtLeast(v, w) == v = 0 \/ v >= w

(* What D1 holds is not older than any edit that was, or will be, settled. *)
TableAhead ==
  /\ \A i \in Isolate, t \in Tmpl : /\ settled[i][t] <= edits
                                     /\ AtLeast(templates[t], settled[i][t])
  /\ \A q \in inflight : q.phase = "invalidate" =>
       q.version <= edits /\ AtLeast(templates[q.tmpl], q.version)

SnapAhead(q) ==
  q.phase = "filling" =>
    \/ <<q.id, "edit">> \in passed
    \/ \A t \in Tmpl : AtLeast(q.snap[t], settled[q.iso][t])

(* The edit a render is asked for is one its isolate knows of.             *)
Asked(q) == q.phase # "invalidate" => q.version <= settled[q.iso][q.tmpl]

RowsAhead(i) ==
  \/ "edit" \in marred[i]
  \/ \A t \in Tmpl : AtLeast(sharedTemplates[i][t], settled[i][t])

EditInv ==
  /\ TypeOK /\ IdsUnique /\ TableAhead
  /\ \A q \in inflight : SnapAhead(q) /\ Asked(q)
  /\ \A i \in Isolate : RowsAhead(i)
  /\ EditVisibleAtOnce

LEMMA EditInit == Init => EditInv
BY InitType, TemplateAssumption
DEF Init, EditInv, IdsUnique, TableAhead, AtLeast, SnapAhead, Asked, RowsAhead,
    EditVisibleAtOnce, NoTemplate

(* A step that settles nothing, and only takes from the cache.             *)
Easing ==
  /\ settled' = settled /\ edits' >= edits /\ rendered' = {}
  /\ \A t \in Tmpl : templates'[t] = templates[t] \/ AtLeast(templates'[t], edits)
  /\ \A i \in Isolate : \/ sharedTemplates'[i] = NoTemplate
                        \/ /\ sharedTemplates'[i] = sharedTemplates[i]
                           /\ marred'[i] = marred[i]
  /\ \A q \in inflight' :
       \/ q \in inflight
       \/ /\ SnapAhead(q)' /\ Asked(q)'
          /\ q.phase = "invalidate" =>
               q.version <= edits' /\ AtLeast(templates'[q.tmpl], q.version)

LEMMA SameSettled ==
  ASSUME EditInv, [Next]_vars, TypeOK', IdsUnique', Easing
  PROVE  EditInv'
<1>1. /\ edits \in Nat /\ edits' \in Nat
      /\ \A t \in Tmpl : templates[t] \in Nat /\ templates'[t] \in Nat
      /\ \A i \in Isolate, t \in Tmpl : settled[i][t] \in Nat
      /\ \A q \in inflight : q.version \in Nat /\ q.tmpl \in Tmpl /\ q.iso \in Isolate
      /\ TypeOK /\ IdsUnique
  <2>1. Version \subseteq Nat
    BY TemplateAssumption DEF Version
  <2>2. TypeOK /\ IdsUnique
    BY DEF EditInv
  <2>3. \A q \in inflight : q.version \in Nat /\ q.tmpl \in Tmpl /\ q.iso \in Isolate
    <3>1. \A q \in inflight : q \in Request
      BY <2>2 DEF TypeOK
    <3> QED  BY <2>1, <3>1 DEF Request
  <2>4. edits \in Nat /\ edits' \in Nat
    BY <2>1, <2>2 DEF TypeOK
  <2>5. \A t \in Tmpl : templates[t] \in Nat /\ templates'[t] \in Nat
    BY <2>1, <2>2 DEF TypeOK
  <2>6. ASSUME NEW i \in Isolate, NEW t \in Tmpl PROVE settled[i][t] \in Nat
    <3>1. settled \in [Isolate -> [Tmpl -> Version]]
      BY <2>2 DEF TypeOK
    <3> QED  BY <2>1, <3>1
  <2> QED  BY <2>2, <2>3, <2>4, <2>5, <2>6
<1>2. TableAhead'
  <2>1. ASSUME NEW i \in Isolate, NEW t \in Tmpl
        PROVE  settled'[i][t] <= edits' /\ AtLeast(templates'[t], settled'[i][t])
    <3>1. settled[i][t] <= edits /\ AtLeast(templates[t], settled[i][t])
      BY DEF EditInv, TableAhead
    <3> QED  BY <1>1, <3>1 DEF AtLeast, Easing
  <2>2. ASSUME NEW q \in inflight', q.phase = "invalidate"
        PROVE  q.version <= edits' /\ AtLeast(templates'[q.tmpl], q.version)
    <3>1. CASE q \in inflight
      <4>1. q.version <= edits /\ AtLeast(templates[q.tmpl], q.version)
        BY <2>2, <3>1 DEF EditInv, TableAhead
      <4> QED  BY <1>1, <3>1, <4>1 DEF AtLeast, Easing
    <3> QED  BY <2>2, <3>1 DEF Easing, SnapAhead, Asked
  <2> QED  BY <2>1, <2>2 DEF TableAhead
<1>3. ASSUME NEW q \in inflight', q \in inflight PROVE SnapAhead(q)' /\ Asked(q)'
  BY <1>1, <1>3, MarksStay DEF EditInv, SnapAhead, Asked, Easing
<1>4. ASSUME NEW i \in Isolate PROVE RowsAhead(i)'
  BY <1>4 DEF EditInv, RowsAhead, AtLeast, NoTemplate, Easing
<1>5. ASSUME NEW q \in inflight' PROVE SnapAhead(q)' /\ Asked(q)'
  <2>1. CASE q \in inflight
    BY <1>3, <2>1
  <2>2. CASE q \notin inflight
    BY <2>2 DEF Easing, SnapAhead, Asked
  <2> QED  BY <2>1, <2>2
<1>6. EditVisibleAtOnce'
  BY DEF EditVisibleAtOnce, Easing
<1> QED  BY <1>2, <1>4, <1>5, <1>6 DEF EditInv, SnapAhead, Asked

LEMMA FillAhead ==
  ASSUME EditInv, [Next]_vars, TypeOK', IdsUnique', NEW q \in inflight, Fill(q)
  PROVE  EditInv'
<1>1. /\ TypeOK /\ IdsUnique /\ q \in Request /\ q.iso \in Isolate
      /\ q.snap \in [Tmpl -> Version]
      /\ settled' = settled /\ rendered' = {}
      /\ UNCHANGED <<templates, edits>>
  BY DEF EditInv, TypeOK, Request, Fill, Silent, Table
<1>2. ASSUME NEW i \in Isolate PROVE RowsAhead(i)'
  <2>1. CASE i # q.iso
    BY <1>1, <2>1 DEF EditInv, RowsAhead, Fill, TypeOK
  <2>2. CASE i = q.iso /\ <<q.id, "edit">> \in passed
    BY <1>1, <2>2 DEF RowsAhead, Fill, TypeOK
  <2>3. CASE i = q.iso /\ <<q.id, "edit">> \notin passed
    <3>1. \A t \in Tmpl : AtLeast(q.snap[t], settled[i][t])
      BY <2>3 DEF EditInv, SnapAhead, Fill
    <3>2. \A t \in Tmpl : sharedTemplates'[i][t] =
            IF q.snap[t] # 0 THEN q.snap[t] ELSE sharedTemplates[i][t]
      BY <1>1, <2>3 DEF Fill, TypeOK
    <3>3. marred[i] \subseteq marred'[i]
      BY <1>1, <2>3 DEF Fill, TypeOK
    <3> QED  BY <1>1, <3>1, <3>2, <3>3 DEF EditInv, RowsAhead, AtLeast
  <2> QED  BY <2>1, <2>2, <2>3
<1>3. PICK r : /\ inflight' = (inflight \ {q}) \cup {r}
               /\ r.phase = "ready" /\ r.iso = q.iso /\ r.tmpl = q.tmpl
               /\ r.version = q.version
  <2>1. LET r == [q EXCEPT !.phase = "ready"]
        IN  /\ r.phase = "ready" /\ r.iso = q.iso /\ r.tmpl = q.tmpl
            /\ r.version = q.version
    BY <1>1 DEF Request
  <2> QED  BY <2>1 DEF Fill
<1>4. ASSUME NEW d \in inflight' PROVE SnapAhead(d)' /\ Asked(d)'
  <2>1. CASE d = r
    <3>1. Asked(q) /\ q.phase = "filling"
      BY DEF EditInv, Fill
    <3> QED  BY <1>1, <1>3, <2>1, <3>1 DEF SnapAhead, Asked
  <2>2. CASE d \in inflight
    BY <1>1, <2>2, MarksStay DEF EditInv, SnapAhead, Asked
  <2> QED  BY <1>3, <2>1, <2>2
<1>5. TableAhead'
  BY <1>1, <1>3 DEF EditInv, TableAhead
<1> QED  BY <1>1, <1>2, <1>4, <1>5 DEF EditInv, EditVisibleAtOnce

LEMMA SettleAhead ==
  ASSUME EditInv, [Next]_vars, TypeOK', IdsUnique', NEW q \in inflight,
         InvalidateTemplateCache(q)
  PROVE  EditInv'
<1>1. /\ TypeOK /\ IdsUnique /\ q \in Request /\ q.iso \in Isolate
      /\ q.tmpl \in Tmpl /\ q.version \in Nat
      /\ rendered' = {} /\ UNCHANGED <<templates, edits>>
      /\ inflight' = inflight \ {q}
  <2>1. Version \subseteq Nat
    BY TemplateAssumption DEF Version
  <2>2. q \in Request
    BY DEF EditInv, TypeOK
  <2> QED  BY <2>1, <2>2 DEF EditInv, Request, InvalidateTemplateCache, Silent,
                             Table, Finish
<1>2. q.version <= edits /\ AtLeast(templates[q.tmpl], q.version)
  BY DEF EditInv, TableAhead, InvalidateTemplateCache
<1>3. ASSUME NEW i \in Isolate, NEW t \in Tmpl
      PROVE  /\ settled[i][t] \in Nat
             /\ settled'[i][t] = IF i = q.iso /\ t = q.tmpl /\ q.version > settled[i][t]
                                 THEN q.version ELSE settled[i][t]
  <2>1. Version \subseteq Nat
    BY TemplateAssumption DEF Version
  <2>2. settled \in [Isolate -> [Tmpl -> Version]]
    BY <1>1 DEF TypeOK
  <2>3. settled' = [settled EXCEPT ![q.iso][q.tmpl] =
                      IF q.version > @ THEN q.version ELSE @]
    BY DEF InvalidateTemplateCache, Settle
  <2> QED  BY <1>1, <2>1, <2>2, <2>3
<1>4. TableAhead'
  BY <1>1, <1>2, <1>3 DEF EditInv, TableAhead
<1>5. ASSUME NEW i \in Isolate PROVE RowsAhead(i)'
  <2>1. CASE i = q.iso
    BY <1>1, <2>1 DEF RowsAhead, AtLeast, InvalidateTemplateCache, Clear,
                      NoTemplate, TypeOK
  <2>2. CASE i # q.iso
    BY <1>1, <1>3, <2>2 DEF EditInv, RowsAhead, InvalidateTemplateCache, Clear,
                            TypeOK
  <2> QED  BY <2>1, <2>2
<1>6. ASSUME NEW d \in inflight' PROVE SnapAhead(d)' /\ Asked(d)'
  <2>1. /\ d \in inflight /\ d \in Request /\ d.iso \in Isolate /\ d.tmpl \in Tmpl
        /\ d.version \in Nat /\ SnapAhead(d) /\ Asked(d)
    <3>1. Version \subseteq Nat
      BY TemplateAssumption DEF Version
    <3> QED  BY <1>1, <3>1 DEF EditInv, TypeOK, Request
  <2>2. Asked(d)'
    BY <1>1, <1>3, <2>1 DEF Asked
  <2>3. SnapAhead(d)'
    <3>1. CASE d.iso = q.iso
      BY <2>1, <3>1 DEF SnapAhead, InvalidateTemplateCache, Settle, Overtaken
    <3>2. CASE d.iso # q.iso
      BY <1>3, <2>1, <3>2 DEF SnapAhead, InvalidateTemplateCache, Settle
    <3> QED  BY <3>1, <3>2
  <2> QED  BY <2>2, <2>3
<1> QED  BY <1>1, <1>4, <1>5, <1>6 DEF EditInv, EditVisibleAtOnce

LEMMA EditNext == EditInv /\ [Next]_vars => EditInv'
<1> SUFFICES ASSUME EditInv, [Next]_vars PROVE EditInv'
  OBVIOUS
<1>1. TypeOK /\ IdsUnique /\ TypeOK' /\ IdsUnique'
  BY NextType, Uniqueness DEF EditInv
<1>2. Version \subseteq Nat /\ edits \in Nat /\ edits' \in Nat
  BY <1>1, TemplateAssumption DEF TypeOK, Version
<1>3. ASSUME NEW id \in Req, NEW i \in Isolate, NEW t \in Tmpl,
             StartRender(id, i, t)
      PROVE  EditInv'
  <2>1. PICK r : /\ inflight' = inflight \cup {r}
                 /\ r.phase \in {"ready", "loading"} /\ r.iso = i /\ r.tmpl = t
                 /\ r.version = settled[i][t]
    <3>1. PICK ph \in {"ready", "loading"} :
            inflight' = inflight \cup
              {[id |-> id, iso |-> i, tmpl |-> t, phase |-> ph,
                snap |-> NoTemplate, start |-> now, version |-> settled[i][t]]}
      BY <1>3 DEF StartRender
    <3> DEFINE r == [id |-> id, iso |-> i, tmpl |-> t, phase |-> ph,
                     snap |-> NoTemplate, start |-> now, version |-> settled[i][t]]
    <3>2. /\ r.phase \in {"ready", "loading"} /\ r.iso = i /\ r.tmpl = t
          /\ r.version = settled[i][t]
      OBVIOUS
    <3>3. inflight' = inflight \cup {r}
      BY <3>1
    <3> HIDE DEF r
    <3> QED  BY <3>2, <3>3
  <2>2. SnapAhead(r)' /\ Asked(r)' /\ r.phase # "invalidate"
    BY <1>1, <1>2, <1>3, <2>1 DEF SnapAhead, Asked, StartRender, TypeOK
  <2>3. \A j \in Isolate : \/ sharedTemplates'[j] = NoTemplate
                           \/ /\ sharedTemplates'[j] = sharedTemplates[j]
                              /\ marred'[j] = marred[j]
    BY <1>1, <1>3 DEF StartRender, Clear, TypeOK
  <2>4. /\ settled' = settled /\ edits' >= edits /\ rendered' = {}
        /\ templates' = templates
    BY <1>2, <1>3 DEF StartRender, Silent, Table
  <2>9. Easing
    BY <2>1, <2>2, <2>3, <2>4 DEF Easing
  <2> QED  BY <1>1, <2>9, SameSettled
<1>4. ASSUME NEW q \in inflight, Read(q) PROVE EditInv'
  <2>1. PICK r : /\ inflight' = (inflight \ {q}) \cup {r}
                 /\ r.phase = "filling" /\ r.iso = q.iso /\ r.tmpl = q.tmpl
                 /\ r.version = q.version /\ r.snap = templates
    <3>1. q \in Request
      BY <1>1 DEF TypeOK
    <3>2. LET r == [q EXCEPT !.phase = "filling", !.snap = templates]
          IN  /\ r.phase = "filling" /\ r.iso = q.iso /\ r.tmpl = q.tmpl
              /\ r.version = q.version /\ r.snap = templates
      BY <3>1 DEF Request
    <3> QED  BY <1>4, <3>2 DEF Read
  <2>2. q.iso \in Isolate /\ Asked(q) /\ q.phase = "loading"
    BY <1>1, <1>4 DEF EditInv, TypeOK, Request, Read
  <2>3. SnapAhead(r)' /\ Asked(r)'
    BY <1>4, <2>1, <2>2 DEF EditInv, TableAhead, SnapAhead, Asked, Read
  <2>4. /\ settled' = settled /\ edits' >= edits /\ rendered' = {}
        /\ UNCHANGED <<templates, sharedTemplates, marred>>
    BY <1>2, <1>4 DEF Read, Silent, Table
  <2>9. Easing
    BY <2>1, <2>3, <2>4 DEF Easing
  <2> QED  BY <1>1, <2>9, SameSettled
<1>5. ASSUME NEW q \in inflight, ReadFails(q) PROVE EditInv'
  <2>1. /\ settled' = settled /\ edits' >= edits /\ rendered' = {}
        /\ UNCHANGED <<templates, sharedTemplates, marred>>
        /\ inflight' \subseteq inflight
    BY <1>2, <1>5 DEF ReadFails, Silent, Table, Finish
  <2>9. Easing
    BY <2>1 DEF Easing
  <2> QED  BY <1>1, <2>9, SameSettled
<1>6. ASSUME NEW q \in inflight, Render(q) PROVE EditInv'
  <2>1. q.iso \in Isolate /\ q.tmpl \in Tmpl /\ q.version \in Nat
        /\ Asked(q) /\ RowsAhead(q.iso) /\ q.phase = "ready"
        /\ sharedTemplates[q.iso][q.tmpl] \in Nat
        /\ settled[q.iso][q.tmpl] \in Nat
    <3>1. q \in Request
      BY <1>1 DEF TypeOK
    <3>2. q.iso \in Isolate /\ q.tmpl \in Tmpl /\ q.version \in Nat
      BY <1>2, <3>1 DEF Request
    <3>3. Asked(q) /\ RowsAhead(q.iso) /\ q.phase = "ready"
      BY <1>6, <3>2 DEF EditInv, Render
    <3>4. /\ sharedTemplates \in [Isolate -> [Tmpl -> Version]]
          /\ settled \in [Isolate -> [Tmpl -> Version]]
      BY <1>1 DEF TypeOK
    <3> QED  BY <1>2, <3>2, <3>3, <3>4
  <2>2. EditVisibleAtOnce'
    BY <1>6, <2>1 DEF Render, Silent, EditVisibleAtOnce, Asked, RowsAhead, AtLeast
  <2>3. /\ inflight' \subseteq inflight
        /\ UNCHANGED <<templates, edits, settled, passed, marred, sharedTemplates>>
    BY <1>6 DEF Render, Finish, Table
  <2>4. /\ TableAhead'
        /\ \A q_1 \in inflight' : SnapAhead(q_1)' /\ Asked(q_1)'
        /\ \A i \in Isolate : RowsAhead(i)'
    BY <2>3 DEF EditInv, TableAhead, SnapAhead, Asked, RowsAhead
  <2> QED  BY <1>1, <2>2, <2>4 DEF EditInv
<1>7. ASSUME NEW id \in Req, NEW i \in Isolate, NEW t \in Tmpl,
             NEW v \in Version, EditTemplate(id, i, t, v)
      PROVE  EditInv'
  <2>1. PICK r : /\ inflight' = inflight \cup {r}
                 /\ r.phase = "invalidate" /\ r.iso = i /\ r.tmpl = t
                 /\ r.version = edits + 1
    <3> DEFINE r == [id |-> id, iso |-> i, tmpl |-> t, phase |-> "invalidate",
                     snap |-> NoTemplate, start |-> now, version |-> edits + 1]
    <3>1. /\ r.phase = "invalidate" /\ r.iso = i /\ r.tmpl = t
          /\ r.version = edits + 1
      OBVIOUS
    <3>2. inflight' = inflight \cup {r}
      BY <1>7 DEF EditTemplate
    <3> HIDE DEF r
    <3> QED  BY <3>1, <3>2
  <2>2. edits' = edits + 1 /\ templates' = [templates EXCEPT ![t] = v]
        /\ v \in {0, edits + 1}
    BY <1>7 DEF EditTemplate, Write
  <2>3. \A s \in Tmpl : templates'[s] = IF s = t THEN v ELSE templates[s]
    BY <1>1, <2>2 DEF TypeOK
  <2>4. SnapAhead(r)' /\ Asked(r)' /\ r.version <= edits'
        /\ AtLeast(templates'[r.tmpl], r.version)
    BY <1>2, <2>1, <2>2, <2>3 DEF SnapAhead, Asked, AtLeast
  <2>5. \A s \in Tmpl : templates'[s] = templates[s] \/ AtLeast(templates'[s], edits)
    BY <1>2, <2>2, <2>3 DEF AtLeast
  <2>6. /\ settled' = settled /\ edits' >= edits /\ rendered' = {}
        /\ UNCHANGED <<sharedTemplates, marred>>
    BY <1>2, <1>7, <2>2 DEF EditTemplate, Write, Silent
  <2>9. Easing
    BY <2>1, <2>4, <2>5, <2>6 DEF Easing
  <2> QED  BY <1>1, <2>9, SameSettled
<1>8. ASSUME NEW t \in Tmpl, SeedTemplate(t) PROVE EditInv'
  <2>1. edits' = edits + 1 /\ templates' = [templates EXCEPT ![t] = edits + 1]
    BY <1>8 DEF SeedTemplate, Write
  <2>2. \A s \in Tmpl : templates'[s] = templates[s] \/ AtLeast(templates'[s], edits)
    BY <1>1, <1>2, <2>1 DEF AtLeast, TypeOK
  <2>3. /\ settled' = settled /\ edits' >= edits /\ rendered' = {}
        /\ UNCHANGED <<inflight, sharedTemplates, marred>>
    BY <1>2, <1>8, <2>1 DEF SeedTemplate, Write, Silent
  <2>9. Easing
    BY <2>2, <2>3 DEF Easing
  <2> QED  BY <1>1, <2>9, SameSettled
<1>9. CASE Tick
  <2>1. /\ settled' = settled /\ edits' >= edits /\ rendered' = {}
        /\ UNCHANGED <<inflight, templates, sharedTemplates, marred>>
    BY <1>2, <1>9 DEF Tick, Silent
  <2>9. Easing
    BY <2>1 DEF Easing
  <2> QED  BY <1>1, <2>9, SameSettled
<1>10. ASSUME NEW i \in Isolate, Restart(i) PROVE EditInv'
  <2>1. /\ inflight' = {q \in inflight : q.iso # i}
        /\ UNCHANGED <<templates, edits>> /\ rendered' = {}
    BY <1>10 DEF Restart, Silent, Table
  <2>2. ASSUME NEW j \in Isolate
        PROVE  /\ settled'[j] = IF j = i THEN NoTemplate ELSE settled[j]
               /\ sharedTemplates'[j] = IF j = i THEN NoTemplate ELSE sharedTemplates[j]
               /\ marred'[j] = IF j = i THEN {} ELSE marred[j]
    BY <1>1, <1>10 DEF Restart, Clear, TypeOK
  <2>3. \A t \in Tmpl : NoTemplate[t] = 0 /\ templates[t] \in Nat
    BY <1>1, <1>2 DEF NoTemplate, TypeOK
  <2>4. TableAhead'
    BY <1>2, <2>1, <2>2, <2>3 DEF EditInv, TableAhead, AtLeast
  <2>5. ASSUME NEW j \in Isolate PROVE RowsAhead(j)'
    BY <2>2, <2>3 DEF EditInv, RowsAhead, AtLeast
  <2>6. ASSUME NEW q \in inflight' PROVE SnapAhead(q)' /\ Asked(q)'
    <3>1. q \in inflight /\ q.iso # i /\ q.iso \in Isolate
      BY <1>1, <2>1 DEF TypeOK, Request
    <3> QED  BY <1>1, <2>2, <3>1, MarksStay DEF EditInv, SnapAhead, Asked
  <2> QED  BY <1>1, <2>1, <2>4, <2>5, <2>6 DEF EditInv, EditVisibleAtOnce
<1>11. CASE UNCHANGED vars
  BY <1>1, <1>11 DEF vars, EditInv, TableAhead, SnapAhead, Asked, RowsAhead,
                     EditVisibleAtOnce
<1> QED
  BY <1>1, <1>3, <1>4, <1>5, <1>6, <1>7, <1>8, <1>9, <1>10, <1>11, FillAhead,
     SettleAhead
  DEF Next, Serve

(* A render sees every edit that its isolate had settled when it began,    *)
(* unless a load that had queried before the invalidation filled the cache *)
(* after it (registry.ts:135-141).                                         *)
THEOREM EditIsVisible == Spec => []EditVisibleAtOnce
<1>1. EditInv => EditVisibleAtOnce
  BY DEF EditInv
<1> QED  BY <1>1, EditInit, EditNext, PTL DEF Spec

-----------------------------------------------------------------------------
(* A parsed body belongs to the row it is cached under.                    *)

BodyOfRow(i) ==
  \/ "fill" \in marred[i]
  \/ \A t \in Tmpl : sharedParsed[i][t] \in {0, sharedTemplates[i][t]}

(* The maps a load cleared stay empty until it fills them.                 *)
Emptied(q) ==
  q.phase \in {"loading", "filling"} =>
    \/ <<q.id, "fill">> \in passed
    \/ /\ sharedTemplates[q.iso] = NoTemplate
       /\ sharedParsed[q.iso] = NoTemplate

ParseInv ==
  /\ TypeOK /\ IdsUnique
  /\ \A i \in Isolate : BodyOfRow(i)
  /\ \A q \in inflight : Emptied(q)
  /\ ParsedMatchesRow

LEMMA ParseInit == Init => ParseInv
BY InitType, TemplateAssumption
DEF Init, ParseInv, IdsUnique, BodyOfRow, Emptied, ParsedMatchesRow, NoTemplate

(* A step that only clears caches.                                         *)
Clearing ==
  /\ rendered' = {}
  /\ \A i \in Isolate :
       \/ sharedTemplates'[i] = NoTemplate /\ sharedParsed'[i] = NoTemplate
       \/ /\ sharedTemplates'[i] = sharedTemplates[i]
          /\ sharedParsed'[i] = sharedParsed[i]
          /\ marred'[i] = marred[i]
  /\ \A q \in inflight' : q \in inflight \/ Emptied(q)'

LEMMA ClearingKeeps ==
  ASSUME ParseInv, [Next]_vars, TypeOK', IdsUnique', Clearing
  PROVE  ParseInv'
<1>1. ASSUME NEW i \in Isolate PROVE BodyOfRow(i)'
  BY <1>1 DEF ParseInv, BodyOfRow, Clearing, NoTemplate
<1>2. ASSUME NEW q \in inflight' PROVE Emptied(q)'
  <2>1. CASE q \in inflight
    <3>1. TypeOK /\ IdsUnique /\ Emptied(q) /\ q.iso \in Isolate
      BY <2>1 DEF ParseInv, TypeOK, Request
    <3>2. CASE <<q.id, "fill">> \in passed
      BY <1>2, <2>1, <3>1, <3>2, MarksStay DEF Emptied
    <3>3. CASE <<q.id, "fill">> \notin passed
      BY <3>1, <3>3 DEF Emptied, Clearing
    <3> QED  BY <3>2, <3>3
  <2>2. CASE q \notin inflight
    BY <1>2, <2>2 DEF Clearing, Emptied
  <2> QED  BY <2>1, <2>2
<1> QED  BY <1>1, <1>2 DEF ParseInv, ParsedMatchesRow, Clearing

LEMMA FillOfRow ==
  ASSUME ParseInv, [Next]_vars, TypeOK', IdsUnique', NEW q \in inflight, Fill(q)
  PROVE  ParseInv'
<1>1. /\ TypeOK /\ IdsUnique /\ q \in Request /\ q.iso \in Isolate
      /\ rendered' = {} /\ sharedParsed' = sharedParsed
      /\ q.phase = "filling" /\ Emptied(q)
  BY DEF ParseInv, TypeOK, Request, Fill, Silent
<1>2. ASSUME NEW i \in Isolate PROVE BodyOfRow(i)'
  <2>1. CASE i # q.iso
    BY <1>1, <2>1 DEF ParseInv, BodyOfRow, Fill, TypeOK
  <2>2. CASE i = q.iso /\ <<q.id, "fill">> \in passed
    BY <1>1, <2>2 DEF BodyOfRow, Fill, TypeOK
  <2>3. CASE i = q.iso /\ <<q.id, "fill">> \notin passed
    BY <1>1, <2>3 DEF BodyOfRow, Emptied, NoTemplate
  <2> QED  BY <2>1, <2>2, <2>3
<1>3. ASSUME NEW d \in inflight' PROVE Emptied(d)'
  <2>1. CASE d \in inflight /\ d # q
    <3>1. d \in Request /\ d.iso \in Isolate /\ Emptied(d) /\ d.id # q.id
      BY <1>1, <2>1 DEF ParseInv, TypeOK, Request, IdsUnique
    <3>2. CASE d.phase \notin {"loading", "filling"}
      BY <3>2 DEF Emptied
    <3>3. CASE d.phase \in {"loading", "filling"} /\ d.iso = q.iso
      BY <2>1, <3>1, <3>3 DEF Emptied, Fill, Overtaken
    <3>4. CASE /\ d.phase \in {"loading", "filling"} /\ d.iso # q.iso
               /\ <<d.id, "fill">> \in passed
      BY <1>1, <1>3, <2>1, <3>4, MarksStay DEF Emptied
    <3>5. CASE /\ d.phase \in {"loading", "filling"} /\ d.iso # q.iso
               /\ <<d.id, "fill">> \notin passed
      BY <1>1, <3>1, <3>5 DEF Emptied, Fill, TypeOK
    <3> QED  BY <3>2, <3>3, <3>4, <3>5
  <2>2. CASE d \notin inflight \/ d = q
    <3>1. [q EXCEPT !.phase = "ready"].phase = "ready"
      BY <1>1 DEF Request
    <3>2. d.phase = "ready"
      BY <1>1, <1>3, <2>2, <3>1 DEF Fill
    <3> QED  BY <3>2 DEF Emptied
  <2> QED  BY <2>1, <2>2
<1> QED  BY <1>1, <1>2, <1>3 DEF ParseInv, ParsedMatchesRow

LEMMA RenderOfRow ==
  ASSUME ParseInv, [Next]_vars, TypeOK', IdsUnique', NEW q \in inflight, Render(q)
  PROVE  ParseInv'
<1> DEFINE row == sharedTemplates[q.iso][q.tmpl]
           body == IF sharedParsed[q.iso][q.tmpl] # 0
                   THEN sharedParsed[q.iso][q.tmpl] ELSE row
<1>1. /\ TypeOK /\ IdsUnique /\ q \in Request /\ q.iso \in Isolate /\ q.tmpl \in Tmpl
      /\ UNCHANGED <<sharedTemplates, marred, passed>>
      /\ inflight' \subseteq inflight
  BY DEF ParseInv, TypeOK, Request, Render, Finish
<1>2. CASE row = 0 /\ Silent /\ UNCHANGED sharedParsed
  BY <1>1, <1>2 DEF ParseInv, BodyOfRow, Emptied, ParsedMatchesRow, Silent
<1>3. CASE /\ row # 0
           /\ sharedParsed' = [sharedParsed EXCEPT ![q.iso][q.tmpl] = body]
           /\ rendered' = {[tmpl |-> q.tmpl, defs |-> row, body |-> body,
                            settled |-> q.version, marred |-> marred[q.iso]]}
  <2>1. body = row \/ "fill" \in marred[q.iso]
    BY <1>1 DEF ParseInv, BodyOfRow
  <2>2. ParsedMatchesRow'
    BY <1>3, <2>1 DEF ParsedMatchesRow
  <2>3. ASSUME NEW i \in Isolate PROVE BodyOfRow(i)'
    BY <1>1, <1>3, <2>1 DEF ParseInv, BodyOfRow, TypeOK
  <2>4. ASSUME NEW d \in inflight' PROVE Emptied(d)'
    <3>1. Emptied(d) /\ d.iso \in Isolate
      BY <1>1 DEF ParseInv, TypeOK, Request
    <3>2. CASE d.iso = q.iso
      BY <1>1, <1>3, <3>1, <3>2 DEF Emptied, NoTemplate
    <3>3. CASE d.iso # q.iso
      BY <1>1, <1>3, <3>1, <3>3 DEF Emptied, TypeOK
    <3> QED  BY <3>2, <3>3
  <2> QED  BY <1>1, <2>2, <2>3, <2>4 DEF ParseInv
<1> QED  BY <1>2, <1>3 DEF Render

LEMMA ParseNext == ParseInv /\ [Next]_vars => ParseInv'
<1> SUFFICES ASSUME ParseInv, [Next]_vars PROVE ParseInv'
  OBVIOUS
<1>1. TypeOK /\ IdsUnique /\ TypeOK' /\ IdsUnique'
  BY NextType, Uniqueness DEF ParseInv
<1>2. ASSUME NEW i \in Isolate, Clear(i), NEW j \in Isolate
      PROVE  \/ sharedTemplates'[j] = NoTemplate /\ sharedParsed'[j] = NoTemplate
             \/ /\ sharedTemplates'[j] = sharedTemplates[j]
                /\ sharedParsed'[j] = sharedParsed[j]
                /\ marred'[j] = marred[j]
  BY <1>1, <1>2 DEF Clear, TypeOK
<1>3. ASSUME NEW id \in Req, NEW i \in Isolate, NEW t \in Tmpl,
             StartRender(id, i, t)
      PROVE  ParseInv'
  <2>1. PICK ph \in {"ready", "loading"} :
          /\ inflight' = inflight \cup
               {[id |-> id, iso |-> i, tmpl |-> t, phase |-> ph,
                 snap |-> NoTemplate, start |-> now, version |-> settled[i][t]]}
          /\ \/ ph = "ready" /\ UNCHANGED <<sharedTemplates, sharedParsed, marred>>
             \/ ph = "loading" /\ Clear(i)
    BY <1>3 DEF StartRender
  <2> DEFINE r == [id |-> id, iso |-> i, tmpl |-> t, phase |-> ph,
                   snap |-> NoTemplate, start |-> now, version |-> settled[i][t]]
  <2>2. Emptied(r)'
    BY <1>1, <2>1 DEF Emptied, Clear, TypeOK
  <2>3. ASSUME NEW q \in inflight', q \notin inflight PROVE Emptied(q)'
    <3>1. q = r
      BY <2>1, <2>3
    <3> QED  BY <2>2, <3>1 DEF Emptied
  <2>4. ASSUME NEW j \in Isolate
        PROVE  \/ sharedTemplates'[j] = NoTemplate /\ sharedParsed'[j] = NoTemplate
               \/ /\ sharedTemplates'[j] = sharedTemplates[j]
                  /\ sharedParsed'[j] = sharedParsed[j]
                  /\ marred'[j] = marred[j]
    BY <1>2, <2>1
  <2>5. rendered' = {}
    BY <1>3 DEF StartRender, Silent
  <2>6. Clearing
    BY <2>3, <2>4, <2>5 DEF Clearing, Emptied
  <2> QED  BY <1>1, <2>6, ClearingKeeps
<1>4. ASSUME NEW q \in inflight, Read(q) PROVE ParseInv'
  <2> DEFINE r == [q EXCEPT !.phase = "filling", !.snap = templates]
  <2>1. q \in Request /\ q.phase = "loading" /\ Emptied(q)
    BY <1>1, <1>4 DEF ParseInv, TypeOK, Read
  <2>2. r.phase = "filling" /\ r.iso = q.iso /\ r.id = q.id
    BY <2>1 DEF Request
  <2>3. /\ UNCHANGED <<sharedTemplates, sharedParsed, marred, passed>>
        /\ rendered' = {} /\ inflight' = (inflight \ {q}) \cup {r}
    BY <1>4 DEF Read, Silent
  <2> HIDE DEF r
  <2>4. ASSUME NEW d \in inflight', d \notin inflight PROVE Emptied(d)'
    BY <2>1, <2>2, <2>3, <2>4 DEF Emptied
  <2>5. Clearing
    BY <2>3, <2>4 DEF Clearing, Emptied
  <2> QED  BY <1>1, <2>5, ClearingKeeps
<1>5. ASSUME NEW q \in inflight, ReadFails(q) PROVE ParseInv'
  <2>1. Clearing
    BY <1>5 DEF ReadFails, Silent, Finish, Clearing
  <2> QED  BY <1>1, <2>1, ClearingKeeps
<1>6. ASSUME NEW q \in inflight, InvalidateTemplateCache(q) PROVE ParseInv'
  <2>1. q.iso \in Isolate
    BY <1>1 DEF TypeOK, Request
  <2>2. Clearing
    BY <1>2, <1>6, <2>1 DEF InvalidateTemplateCache, Silent, Finish, Clearing
  <2> QED  BY <1>1, <2>2, ClearingKeeps
<1>7. ASSUME NEW id \in Req, NEW i \in Isolate, NEW t \in Tmpl,
             NEW v \in Version, EditTemplate(id, i, t, v)
      PROVE  ParseInv'
  <2> DEFINE r == [id |-> id, iso |-> i, tmpl |-> t, phase |-> "invalidate",
                   snap |-> NoTemplate, start |-> now, version |-> edits + 1]
  <2>1. ASSUME NEW d \in inflight', d \notin inflight PROVE Emptied(d)'
    <3>1. d = r
      BY <1>7, <2>1 DEF EditTemplate
    <3>2. d.phase = "invalidate"
      BY <3>1
    <3> QED  BY <3>2 DEF Emptied
  <2>2. Clearing
    BY <1>7, <2>1 DEF EditTemplate, Write, Silent, Clearing, Emptied
  <2> QED  BY <1>1, <2>2, ClearingKeeps
<1>8. ASSUME \/ \E t \in Tmpl : SeedTemplate(t)
             \/ Tick
      PROVE  ParseInv'
  <2>1. Clearing
    BY <1>8 DEF SeedTemplate, Write, Tick, Silent, Clearing
  <2> QED  BY <1>1, <2>1, ClearingKeeps
<1>9. ASSUME NEW i \in Isolate, Restart(i) PROVE ParseInv'
  <2>1. Clearing
    BY <1>2, <1>9 DEF Restart, Silent, Clearing
  <2> QED  BY <1>1, <2>1, ClearingKeeps
<1>10. CASE UNCHANGED vars
  BY <1>10 DEF vars, ParseInv, TypeOK, IdsUnique, BodyOfRow, Emptied,
               ParsedMatchesRow
<1> QED
  BY <1>3, <1>4, <1>5, <1>6, <1>7, <1>8, <1>9, <1>10, <1>1, FillOfRow, RenderOfRow
  DEF Next, Serve

(* A render pairs definitions and body of one version, unless the cache    *)
(* was filled by a load that another fill had overtaken                    *)
(* (registry.ts:155-182).                                                  *)
THEOREM ParsedIsOfRow == Spec => []ParsedMatchesRow
<1>1. ParseInv => ParsedMatchesRow
  BY DEF ParseInv
<1> QED  BY <1>1, ParseInit, ParseNext, PTL DEF Spec
=============================================================================
