SPECIFICATION FairSpec
CONSTANTS
  Session = {s1, s2}
  Call = {c1, c2, c3}
  SummaryCall = {}
  MaxFaults = 1
  None = None
  Gone = Gone
PROPERTY ImplementsMap
PROPERTY EveryCallSettles
CHECK_DEADLOCK FALSE
