\* Two people, two log-ins and two deletions at once; one account id, given again; a full session store and a full limiter.
SPECIFICATION Spec
CONSTANTS
  Nobody = Nobody
  Person = {p1, p2}
  Login = {l1, l2}
  Deleter = {d1, d2}
  Address = {a1, a2}
  Verifier = {v1}
  MaxEpoch = 2
  MaxSessions = 2
  MaxAddresses = 1
  AttemptLimit = 1
  MaxId = 1
  MaxToken = 3
  MaxAttempts = 3
SYMMETRY Symmetry
CHECK_DEADLOCK FALSE
INVARIANTS
  TypeOK
  MapsAgree
  SpeaksForItsOwner
  AttemptsLimited
  HonestAccepted
