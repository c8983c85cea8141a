SPECIFICATION FairSpec
CONSTANTS
  Server = {s1}
  Session = {x1}
  ClientId = {k1}
  Call = {c1, c2}
  Health = Health
  MaxDynamic = 1
  MaxFaults = 2
  None = None
PROPERTY DeadFound
CHECK_DEADLOCK FALSE
