SPECIFICATION Spec
CONSTANTS
    m1 = m1  m2 = m2  m3 = m3  r1 = r1  r2 = r2  r3 = r3  bad = bad
    t1 = t1  t2 = t2  a1 = a1  a2 = a2
    NoResult = NoResult  Hand = Hand  NoTournament = NoTournament
    NoMatch = NoMatch
    Match <- OneMatch
    Result = {r1, r2}
    Invalid = {}
    Tournament = {t1}
    ResultOf <- OneTournament
    Request <- OneRequest
    BTP_RETRY_CAP = 2
    StartWrap = 2
    MaxEntered = 1
    MaxRestarts = 1
    MaxSwitches = 0
    Scenario <- TabletRaces
PROPERTIES RestartEmptiesQueue

