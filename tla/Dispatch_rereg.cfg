\* One endpoint registered again on the day of a send.
SPECIFICATION Spec
CONSTANTS
  Account = {a1}
  Endpoint = {e1}
  Worker = {w1}
  PruneAfter = 1
  MaxDay = 1
  MaxReg = 2
CHECK_DEADLOCK FALSE
INVARIANT
  ReRegistrationSurvives
