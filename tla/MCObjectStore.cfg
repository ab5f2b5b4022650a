SPECIFICATION Spec
CONSTANTS
  Keys = {w, x, y, z}
  Threads = {t1, t2}
  MaxItems = 2
  MaxCalls = 5
  None = None
SYMMETRY Symmetry
INVARIANTS
  TypeOK
  KeysAreQueued
  ExcessIsBounded
PROPERTIES
  AloneIsLru
\* Calls are a bounded number.
CHECK_DEADLOCK FALSE
