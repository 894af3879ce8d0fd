\* One request at a time, a tag uploaded with white space around it.
CONSTANTS
  n1 = n1
  NodeOf <- OneNode
  padded = padded
  plain = plain
  NoTag = NoTag
  Trim <- TrimPadding
  NoPort = NoPort
  Config = {c1, c2}
  Tag = {padded, plain}
  Port = {}
  Legacy = {}
  Req = {r1}
  Until <- Arrivals
  Uploads <- TagsOnly
  KvFails = FALSE
  TTL = 2
  ScanLimit = 2
  MaxFlight = 0
  MaxTime = 0
SPECIFICATION FairSpec
INVARIANTS ClaimsBacked
