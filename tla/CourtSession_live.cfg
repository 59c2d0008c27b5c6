SPECIFICATION FairSpec
CONSTANTS
  Device = {A, B}
  Match = {m1}
  NoMatch = NoMatch
  MaxPoints = 1
  MaxConns = 2
  MaxCut = 1
  MaxQueue = 0
  MaxPolls = 1
  MaxResults = 0
  Scenario <- AllOfIt
  MaxEvents = 1
CHECK_DEADLOCK FALSE
PROPERTY TakenOverIsTold
