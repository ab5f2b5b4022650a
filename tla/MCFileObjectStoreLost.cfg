SPECIFICATION StoreSpec
CONSTANTS
  Threads = {t1, t2}
  Writers = {}
  Wrappers = {w1, w2, w3}
  Calls = 2
  Absent = Absent
  Torn = Torn
  None = None
CHECK_DEADLOCK FALSE
INVARIANTS
  NoLostUpdate
