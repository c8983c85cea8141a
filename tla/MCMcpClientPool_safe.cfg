SPECIFICATION Spec
CONSTANTS
  Server = {s1, s2}
  Session = {x1}
  ClientId = {}
  Call = {c1, c2, c3}
  Health = Health
  MaxDynamic = 1
  MaxFaults = 1
  None = None
SYMMETRY Interchangeable
CONSTRAINT Fits
INVARIANT NoOrphans
INVARIANT ToolsBacked
INVARIANT ScopedToSession
INVARIANT SessionCleaned
CHECK_DEADLOCK FALSE
