SPECIFICATION Spec
CONSTANTS
  Session = {s1, s2}
  Call = {c1, c2, c3, u1}
  SummaryCall = {u1}
  MaxFaults = 1
  None = None
  Gone = Gone
SYMMETRY Interchangeable
INVARIANT TypeOK
INVARIANT IndexAgrees
INVARIANT AckedMessagesKept
INVARIANT DeletedStaysDeleted
PROPERTY HistoryAppendOnly
CHECK_DEADLOCK FALSE
