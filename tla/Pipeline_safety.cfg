\* Three pings, two recipients, room for one accumulator only, two workers.
SPECIFICATION Spec
CONSTANTS
  p1 = p1
  p2 = p2
  p3 = p3
  a1 = a1
  a2 = a2
  Ping = {p1, p2, p3}
  Account = {a1, a2}
  To <- ToTwoAndOne
  Worker = {w1, w2}
  QueueCap = 1
  MaxRecipients = 1
  JobCap = 1
  MaxAge = 1
  Window = 2
INVARIANTS
  TypeOK
  Conservation
  Bounded
  NoSendOnClosed
  DropsMatchLosses
  DrainComplete
PROPERTIES
  DigestSpacing
  KeepsLedger
