SPECIFICATION Spec
CONSTANTS
  Device = {A, B}
  Match = {m1}
  NoMatch = NoMatch
  MaxPoints = 1
  MaxConns = 2
  MaxCut = 1
  MaxQueue = 0
  MaxPolls = 1
  MaxResults = 1
  Scenario <- AllOfIt
  MaxEvents = 2
SYMMETRY Symmetry
CHECK_DEADLOCK FALSE
INVARIANT EndedStandIsGone
