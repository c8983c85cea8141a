SPECIFICATION FairSpec
CONSTANTS
  Daemon = {d1, d2, d3}
  Stop = {k1}
  MaxKills = 2
  None = None
INVARIANT TypeOK
INVARIANT SingleDaemon
INVARIANT Reachable
INVARIANT StartsAgain
PROPERTY StopStops
CHECK_DEADLOCK FALSE
