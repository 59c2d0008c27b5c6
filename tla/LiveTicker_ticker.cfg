SPECIFICATION Spec
CONSTANTS
  Match = {m1, m2}
  Court = {c1, c2}
  NoMatch = NoMatch
  NoCourt = NoCourt
  NoSnapshot = NoSnapshot
  MaxStand = 1
  MaxQueues = 2
  EMPTY_CONFIRM_POLLS = 2
  DEASSIGN_CONFIRM_POLLS = 2
  Scenario <- Days
CHECK_DEADLOCK FALSE
INVARIANTS TypeOK QueueServed BaseIsThere RunningIsNotFinal
PROPERTIES HiccupsAreHidden TickerComesRight CallsAreShown
