SPECIFICATION Spec
CONSTANTS
  Ids = {x, y}
  Scenarios = {sc1, sc2}
  Stubs <- SmallStubs
  Default <- SmallDefault
  Admins = {a1, a2}
  Threads = {t1}
  MaxCalls = 3
  MaxServed = 1
  NotConfigured = NotConfigured
  None = None
  x = x
  y = y
  sc1 = sc1
  sc2 = sc2
SYMMETRY AdminSymmetry
INVARIANTS
  TypeOK
  UniqueIds
  RegisteredAsStored
  ScenarioIsFound
  FirstMatchWins
\* Calls and requests are a bounded number.
CHECK_DEADLOCK FALSE
