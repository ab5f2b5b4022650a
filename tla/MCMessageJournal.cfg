SPECIFICATION FairSpec
CONSTANTS
  Events = {e1, e2}
  Matching = {e1}
  Singles = {w1}
  Batchers = {w2}
  Wanted = 1
  MaxEntries = 1
  MaxCalls = 1
  None = None
  e1 = e1
  e2 = e2
  e3 = e3
INVARIANTS
  TypeOK
PROPERTIES
  EmptyIsJustified
  ArrivalsEndWaits
\* Messages are a bounded number, and each wait ends.
CHECK_DEADLOCK FALSE
