\* Two pages, two syncs at a time on either, one contact, three edits, a put that is late, one deletion.
SPECIFICATION Spec
CONSTANTS
  Nowhere = Nowhere
  Device = {d1, d2}
  Sync = {s1, s2}
  Handle = {h1}
  MaxRetries = 1
  MaxDay = 2
  MaxEdits = 3
  MaxVersion = 2
  MaxErased = 1
  MaxLate = 1
SYMMETRY Symmetry
CHECK_DEADLOCK FALSE

  
PROPERTY
  NothingOverwritten
