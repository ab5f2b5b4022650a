SPECIFICATION FairStoreSpec
CONSTANTS
  Threads = {t1, t2}
  Writers = {wr}
  Wrappers = {w1, w2, w3}
  Calls = 2
  Absent = Absent
  Torn = Torn
  None = None
INVARIANTS
  StoreTypeOK
  EntryCountIsExact
  EntryIsInUse
  MutualExclusion
  UnlockSucceeds
PROPERTIES
  ComputesDoNotOverlap
  AllComputesEnd
\* Each thread makes a bounded number of calls.
CHECK_DEADLOCK FALSE
