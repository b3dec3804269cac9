SPECIFICATION Spec
CONSTANTS
  parent = parent  child = child  other = other
  inbox = inbox  work = work  h1 = h1  h2 = h2
  Tasks <- FamilyTasks
  Lists = {inbox}
  ListOf <- FamilyListOf
  Parent <- FamilyParent
  NoTask = NoTask
  Handlers = {h1, h2}
  Sync = Sync
  Free = Free
  DiskFails = TRUE
  MaxEdits = 1
  MaxCrashes = 1
INVARIANTS TypeOK LockOwner NoRevival CacheCurrent
PROPERTIES BoardSpec
SYMMETRY HandlerSymmetry
