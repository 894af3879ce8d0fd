\* Two subscriptions, bursts of two, windows of three ticks.
CONSTANTS
  Key = {k1, k2}
  Max = 2
  Window = 3
  MaxTime = 6
SPECIFICATION Spec
INVARIANTS TypeOK LogBounded
PROPERTY KeepsPromise
