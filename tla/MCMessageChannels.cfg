SPECIFICATION Spec
CONSTANTS
  Callers = {c1, c2, c3}
  Messages = {m1, m2}
  Channels = {f1, f2, f3, f4}
  None = None
SYMMETRY Symmetry
INVARIANTS
  TypeOK
  ChannelsWork
  FailureIsJustified
