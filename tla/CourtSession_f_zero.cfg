SPECIFICATION Spec
CONSTANTS
  Device = {A, B}
  Match = {m1}
  NoMatch = NoMatch
  MaxPoints = 1
  MaxConns = 2
  MaxCut = 1
  MaxQueue = 0
  MaxPolls = 0
  MaxResults = 0
  Scenario <- AllOfIt
  MaxEvents = 0
SYMMETRY Symmetry
CHECK_DEADLOCK FALSE
PROPERTY NoStartFromZero
