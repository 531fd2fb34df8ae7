\* One account with two handles and an alias, and one request at a time.
SPECIFICATION Spec
CONSTANTS
  Nobody = Nobody
  NoHandle = NoHandle
  Account = {a1}
  Handle = {h1, h2}
  Alias = {n1}
  Request = {r1}
  MaxChanges = 1
SYMMETRY Symmetry
CHECK_DEADLOCK FALSE
INVARIANTS
  TypeOK
  StaleOnlyBehind
