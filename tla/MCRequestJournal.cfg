SPECIFICATION FairSpec
CONSTANTS
  Events = {e1, e2, e3, e4}
  Admins = {}
  Workers = 2
  MaxEntries = 2
  None = None
INVARIANTS
  TypeOK
  ListIsBounded
  OvershootIsBounded
PROPERTIES
  EvictionEnds
  KeepsTheNewest
  OrphansAreStoredLate
\* The requests are a bounded number, after which nothing need happen.
CHECK_DEADLOCK FALSE
