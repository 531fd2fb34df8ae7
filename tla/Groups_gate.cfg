\* Three accounts, one of which pings the second handle minted; one group id, used up to twice.
SPECIFICATION GateSpec
CONSTANTS
  Nobody = Nobody
  Code = {c1, c2}
  NoCode = NoCode
  Account = {a1, a2, a3}
  MaxMembers = 3
  MaxPerAccount = 2
  MaxGroup = 1
  MaxHandle = 3
  MaxDay = 1
  Sender = {a1}
  Target = {2}
  Request = {r1}
  MinSize = 2
  MaxPending = 1
SYMMETRY Symmetry
CHECK_DEADLOCK FALSE
INVARIANTS
  OwnersAgree
  
  LedUnlessBurnt
  GateTypeOK
  MembersFresh
  TargetsFresh
PROPERTY
  Succession
