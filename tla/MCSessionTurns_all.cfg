SPECIFICATION Spec
CONSTANTS
  t1 = t1
  t2 = t2
  Kinds <- MCKinds
  Turn = {t1, t2}
  Ask = {q1}
  Interval = 2
  MaxTools = 1
  MaxFaults = 1
  Given = Given
  None = None
INVARIANTS
  CallsAnswered
  TurnsStored
  CacheIsCurrent
PROPERTIES
  TitleStays
  SummaryComes
CHECK_DEADLOCK FALSE
