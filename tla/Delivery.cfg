\* Two overlapping requests, a path whose token rotates, failures, and liveness.
CONSTANTS
  Sub = {s1}
  Path = {p1}
  Token = {t1, t2}
  Isolate = {i1}
  Req = {r1, r2}
  NoSub = NoSub
  SubCacheTTL = 1
  WriteInterval = 2
  MaxFlight = 0
  MaxTime = 4
  MaxEdits = 2
SPECIFICATION FairSpec
PROPERTIES RequestsAnswered DeliversAsPromised
INVARIANTS TypeOK AnswerLinearizable StaleBounded PutsSpaced PurgedStaysEmpty
