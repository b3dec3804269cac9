SPECIFICATION Spec
CONSTANTS
  f1 = f1  f2 = f2  f3 = f3  f4 = f4  f5 = f5
  Files <- MCFiles
  None = None
  MaxOrphans = 2
  MaxPushes = 2
  MaxCrashes = 1
INVARIANTS TypeOK TokenComplete QuietPushStays
SYMMETRY FileSymmetry
