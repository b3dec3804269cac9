SPECIFICATION FairSpec
CONSTANTS
  parent = parent  child = child  other = other
  inbox = inbox  work = work  h1 = h1  h2 = h2
  Tasks <- ListsTasks
  Lists = {inbox, work}
  ListOf <- ListsListOf
  Parent <- ListsParent
  NoTask = NoTask
  Handlers = {h1}
  Sync = Sync
  Free = Free
  DiskFails = FALSE
  MaxEdits = 1
  MaxCrashes = 0
PROPERTIES NoLoss Answered Converges
