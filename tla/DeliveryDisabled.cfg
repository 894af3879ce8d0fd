\* A delivery under way when the subscription is disabled and purged.
CONSTANTS
  Sub = {s1}
  Path = {p1}
  Token = {t1, t2}
  Isolate = {i1}
  Req = {r1, r2}
  NoSub = NoSub
  SubCacheTTL = 2
  WriteInterval = 1
  MaxFlight = 1
  MaxTime = 4
  MaxEdits = 2
SPECIFICATION FairSpec
INVARIANT DisabledNotCached
