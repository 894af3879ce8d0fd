\* Two overlapping requests that may span a tick, a legacy record, KV failures,
\* records and claims that expire apart, and more records than a request may get.
CONSTANTS
  n1 = n1
  NodeOf <- OneNode
  t1 = t1
  NoTag = NoTag
  Trim <- SameTag
  p1 = p1
  NoPort = NoPort
  Config = {c1, c2}
  Tag = {t1}
  Port = {p1}
  Legacy = {c1}
  Req = {r1, r2}
  Until <- Arrivals
  Uploads <- TagOrPort
  KvFails = TRUE
  TTL = 2
  ScanLimit = 1
  MaxFlight = 1
  MaxTime = 2
SPECIFICATION HistorySpec
SYMMETRY Identities
INVARIANTS TypeOK StaleClaimBounded CheckSeesSettled ListComplete PortsDistinct
PROPERTY ClaimsRespected
