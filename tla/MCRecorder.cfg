INIT StubsThere
NEXT RecorderNext
CONSTANTS
  Events = {e1, e2}
  Admins = {a1}
  Workers = 2
  MaxEntries = 1
  Proxies = {p1, p2}
  CatchAlls = {c1}
  MaxCalls = 2
  None = None
SYMMETRY Symmetry
INVARIANTS
  ResetClears
  RecordingsCleanUp
PROPERTIES
  CapturesTheRecording
\* Requests, calls and recordings are a bounded number, after which nothing
\* need happen.
CHECK_DEADLOCK FALSE
