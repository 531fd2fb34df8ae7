\* One request of a sender to one handle, which is reported.
SPECIFICATION Spec
CONSTANTS
  s1 = s1
  t1 = t1
  t2 = t2
  Sender = {s1}
  Target = {t1}
  GroupTarget = {}
  PairMax <- LimitsOne
  DistinctCap = 1
  BucketCap <- Caps
  FalsePositive = {}
  Request = {r1}
  Reported = {t1}
  Crowded = {}
  MaxDay = 0
  MaxRefill = 0
  MaxEvict = 0
CHECK_DEADLOCK FALSE
INVARIANT NoiseStops
