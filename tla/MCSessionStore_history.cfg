SPECIFICATION Spec
CONSTANTS
  Session = {s1}
  Call = {c1, c2, u1}
  SummaryCall = {u1}
  MaxFaults = 0
  None = None
  Gone = Gone
SYMMETRY Interchangeable
INVARIANT FullHistory
CHECK_DEADLOCK FALSE
