SPECIFICATION FairDaySpec
CONSTANTS
  Burst = 3
  MaxFaults = 3
  LastDay = 2
  Signatures <- MCSignatures
  None = None
INVARIANTS DayTypeOK
PROPERTIES Settles ListIsToday
CHECK_DEADLOCK FALSE
