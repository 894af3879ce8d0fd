\* Two overlapping requests over one node, two instances and two tags.
CONSTANTS
  Node = {n1}
  Inst = {i1, i2}
  Fingerprint = {f1}
  NoFingerprint = NoFingerprint
  plain = plain
  padded = padded
  Tag = {plain, padded}
  NoTag = NoTag
  Trim <- TrimPadding
  Enforced = FALSE
  Req = {r1, r2}
SPECIFICATION Spec
SYMMETRY Identities
INVARIANTS TypeOK NoDangling ConfigsExplained TagsExplained CheckSeesInstances HeartbeatKept
