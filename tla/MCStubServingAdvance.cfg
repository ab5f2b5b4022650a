SPECIFICATION CalmSpec
CONSTANTS
  Threads = {t1, t2}
  Admins = {}
  Scenarios = {order, tracking}
  States = {Started, placed, on}
  Requests = {post, get, any}
  Stubs <- TwoStubs
  Order <- TwoOrder
  Matching <- TwoMatching
  ScenarioOf <- TwoScenarioOf
  Required <- TwoRequired
  NewState <- TwoNewState
  Started = Started
  NotConfigured = NotConfigured
  Null = Null
  t1 = t1
  t2 = t2
  a1 = a1
  order = order
  tracking = tracking
  placed = placed
  on = on
  any = any
  post = post
  get = get
  orderStarted = orderStarted
  orderPlaced = orderPlaced
  trackOn = trackOn
  trackAny = trackAny
  fallback = fallback
PROPERTIES
  AdvancesFromRequiredState
