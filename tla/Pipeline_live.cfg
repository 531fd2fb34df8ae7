\* Two pings to two recipients, two workers; under fairness.
SPECIFICATION FairSpec
CONSTANTS
  p1 = p1
  p2 = p2
  p3 = p3
  a1 = a1
  a2 = a2
  Ping = {p1, p2}
  Account = {a1, a2}
  To <- ToEach
  Worker = {w1, w2}
  QueueCap = 1
  MaxRecipients = 2
  JobCap = 1
  MaxAge = 0
  Window = 1
PROPERTIES
  EventuallyDecided
  ShutdownCompletes
