\* Two isolates over three built-in templates and one legacy id.
CONSTANTS
  Isolate = {i1, i2}
  hysteria2 = hysteria2
  server = server
  client = client
  legacyServer = legacyServer
  Id = {hysteria2, server, client, legacyServer}
  Seeds <- ThreeSeeds
  Pairs <- OnePair
  Row = {r1}
  NoTemplate = NoTemplate
  Enforced = TRUE
  MaxChanges = 1
  MaxFaults = 1
SPECIFICATION Spec
SYMMETRY Identities
INVARIANTS SeedsInPlace BindingsKept
