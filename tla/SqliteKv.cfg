\* One scan, a key a page, over three keys whose rows differ in value and metadata.
CONSTANTS
  Top = 3
  Key <- Keys
  Value = {v1, v2}
  Meta = {m1, m2}
  Prefix <- Prefixes
  Never = Never
  TTL = {0, 1}
  DefaultListLimit = 2
  Limit = {0, 2}
  Client = {c1}
  MaxTime = 3
  MaxWrites = 3
SPECIFICATION KvSpec
SYMMETRY Contents
INVARIANTS KvTypeOK ScanExact
PROPERTY KeepsKV
