\* Two workers on one endpoint, registered up to twice, over three days.
SPECIFICATION Spec
CONSTANTS
  Account = {a1}
  Endpoint = {e1}
  Worker = {w1, w2}
  PruneAfter = 1
  MaxDay = 2
  MaxReg = 2
CHECK_DEADLOCK FALSE
INVARIANTS
  TypeOK
  PrunedWasRefused
