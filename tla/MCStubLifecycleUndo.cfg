SPECIFICATION Spec
CONSTANTS
  Ids = {i1, i2}
  Scenarios = {s1, s2}
  NoScenario = NoScenario
  None = None
PROPERTIES
  FailedUpdateIsUndone
