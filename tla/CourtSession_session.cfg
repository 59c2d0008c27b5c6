SPECIFICATION Spec
CONSTANTS
  Device = {A, B}
  Match = {m1, m2}
  NoMatch = NoMatch
  MaxPoints = 1
  MaxConns = 3
  MaxCut = 1
  MaxQueue = 0
  MaxPolls = 2
  MaxResults = 1
  MaxEvents = 2
  Scenario <- LostOrNext
SYMMETRY Symmetry
CHECK_DEADLOCK FALSE
INVARIANTS TypeOK OneTabletCounts HolderSeesItsMatch HolderStandIsShown
PROPERTY OwnStandOnlyGrows
