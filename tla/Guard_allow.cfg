\* Two requests of one sender to two group handles, one of which is reported; one midnight, one refill, one eviction.
SPECIFICATION Spec
CONSTANTS
  s1 = s1
  t1 = t1
  t2 = t2
  Sender = {s1}
  Target = {t1, t2}
  GroupTarget = {t1, t2}
  PairMax <- Limits
  DistinctCap = 1
  BucketCap <- Caps
  FalsePositive = {}
  Request = {r1, r2}
  Reported = {t1}
  Crowded <- Hourly
  MaxDay = 1
  MaxRefill = 1
  MaxEvict = 1
SYMMETRY Symmetry
CHECK_DEADLOCK FALSE
INVARIANTS
  TypeOK
  BlocksKnown
  HourlyLimit
  SprayCapped
