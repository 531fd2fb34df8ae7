\* Three targets, one of which is changed and burned; room for two; two requests at a time.
SPECIFICATION CacheSpec
CONSTANTS
  Key = {t1, t2, t3}
  Changing = {t1}
  Caller = {r1, r2}
  Capacity = 2
  MaxVersion = 2
  MaxRaces = 2
SYMMETRY Symmetry
CHECK_DEADLOCK FALSE
INVARIANTS
  StaleOnlyIfMissed
  BoundedByRaces
