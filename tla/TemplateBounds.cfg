\* One isolate, two requests, one template: every overlap of loads and edits.
CONSTANTS
  Tmpl = {t1}
  Isolate = {i1}
  Req = {r1, r2}
  CacheTTL = 2
  MaxFlight = 1
  MaxTime = 6
  MaxEdits = 3
SPECIFICATION Spec
SYMMETRY Identities
INVARIANTS TypeOK RenderStaleBounded FreshIsComplete EditVisibleAtOnce ParsedMatchesRow
