\* Two requests for one slot, buffers of one event, two broadcasts; under fairness.
SPECIFICATION FairSpec
CONSTANTS
  c1 = c1
  c2 = c2
  a1 = a1
  Conn = {c1, c2}
  Account = {a1}
  Of <- OfOne
  Buffer = 1
  MaxConns = 1
  MaxPings = 2
CHECK_DEADLOCK FALSE
INVARIANTS
  TypeOK
  CountMatches
  Bounded
  NoSilentGap
PROPERTIES
  SlowLeaves
  CloseEndsStreams
