SPECIFICATION FairSpec
CONSTANTS
  parent = parent  child = child
  Tasks <- MCTasks
  Parent <- MCParent
  NoTask = NoTask
  Polls = {p1, p2}
  MaxChanges = 2
INVARIANTS TypeOK NoFlashback PendingShown CalendarAsAsked
PROPERTIES ShowsTheBoard StaleDetailCloses CalendarSettles
