\* Two deliveries at a time over two client records and a shorter key.
CONSTANTS
  Top = 3
  Key <- Keys
  Value = {1, 2}
  Meta = {on, off}
  Prefix <- Prefixes
  Never = Never
  TTL = {}
  DefaultListLimit = 3
  Limit = {}
  Client = {}
  MaxTime = 2
  MaxWrites = 2
  ClientPrefix <- ClientOnly
  Scoped <- Clients
  Shown = {on}
  Bare = 2
  Isolate = {i1}
  Req = {r1, r2}
  ConfigsTTL = 1
  MaxVisible = 1
  MaxFlight = 1
SPECIFICATION Spec
INVARIANTS TypeOK FallbackRecent FallbackComplete
