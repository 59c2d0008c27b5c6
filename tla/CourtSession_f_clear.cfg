SPECIFICATION Spec
CONSTANTS
  Device = {A, B}
  Match = {m1, m2}
  NoMatch = NoMatch
  MaxPoints = 1
  MaxConns = 2
  MaxCut = 1
  MaxQueue = 0
  MaxPolls = 2
  MaxResults = 1
  Scenario <- AllOfIt
  MaxEvents = 3
SYMMETRY Symmetry
CHECK_DEADLOCK FALSE
PROPERTY ClearsOnlyEndedStand
