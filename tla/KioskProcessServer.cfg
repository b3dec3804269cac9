SPECIFICATION FairSpec
CONSTANTS
  Burst = 3
  MaxFaults = 4
PROPERTIES ServerReplaced
CHECK_DEADLOCK FALSE
