SPECIFICATION FairSpec
CONSTANTS
  Hosts = {h1}
  Drives = {c, d}
  SystemDrive = c
  Off = Off
  None = None
  Refresh = 2
  MaxSecrets = 2
  MaxBytes = 1
INVARIANTS TypeOK OrderSuffices
PROPERTIES RateNotInvented DrivesSettle
