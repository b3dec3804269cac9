SPECIFICATION FairSpec
CONSTANTS
  pc = pc
  Hosts = {pc}
  Skew <- MCSkew
  MaxSkew = 1
  Interval = 1
  Collect = 1
  Timeout = 2
  StaleAfter = 6
  Tolerance = 3
  MaxLate = 2
  MaxRestarts = 1
INVARIANTS TypeOK AvailableIsRecent HealthyOnline
PROPERTIES GoesOffline
