SPECIFICATION CalmSpec
CONSTANTS
  Threads = {t1, t2}
  Admins = {a1}
  Scenarios = {order, tracking}
  States = {Started, placed, on}
  Requests = {post, get, any}
  Stubs <- WrapStubs
  Order <- WrapOrder
  Matching <- WrapMatching
  ScenarioOf <- WrapScenarioOf
  Required <- WrapRequired
  NewState <- WrapNewState
  Started = Started
  NotConfigured = NotConfigured
  Null = Null
  t1 = t1
  t2 = t2
  a1 = a1
  order = order
  tracking = tracking
  placed = placed
  on = on
  any = any
  post = post
  get = get
  orderStarted = orderStarted
  orderPlaced = orderPlaced
  trackOn = trackOn
  trackAny = trackAny
  fallback = fallback
SYMMETRY ThreadSymmetry
INVARIANTS
  TypeOK
  NeverUnmatched
  UnmatchedIsJustified
  ServedStateWasCurrent
PROPERTIES
  SerialCallsSeeTheMachine
