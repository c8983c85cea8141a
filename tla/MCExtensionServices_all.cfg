SPECIFICATION ServicesSpec
CONSTANTS
  MaxChanges = 2
  MaxNotices = 2
  MaxBreaks = 2
INVARIANTS
  LatestSettings
  OneVendor
PROPERTIES
  ChangeTakesEffect
CHECK_DEADLOCK FALSE
