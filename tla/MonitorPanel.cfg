SPECIFICATION FairSpec
CONSTANTS
  Hosts <- MCHosts
  None = None
  DisplayOrder <- MCDisplayOrder
  Polls = {p1, p2}
  MaxChanges = 1
INVARIANTS TypeOK PanelShowsSelected
PROPERTIES ShowsTheStore
