SPECIFICATION Spec
CONSTANTS
  f1 = f1  f2 = f2  f3 = f3  f4 = f4  f5 = f5
  Files <- MCFiles
  None = None
  Empty = Empty
  Torn = Torn
  MaxSaves = 2
  MaxOrphans = 2
  MaxCrashes = 1
INVARIANTS TypeOK CacheHeals
PROPERTIES FileSpec
SYMMETRY FileSymmetry
