SPECIFICATION Spec
CONSTANTS
    m1 = m1  m2 = m2  m3 = m3  r1 = r1  r2 = r2  r3 = r3  bad = bad
    t1 = t1  t2 = t2  a1 = a1  a2 = a2
    NoResult = NoResult  Hand = Hand  NoTournament = NoTournament
    NoMatch = NoMatch
    Match <- OneMatch
    Result = {r1, r3, bad}
    Invalid = {bad}
    Tournament = {t1, t2}
    ResultOf <- TwoWithInvalid
    Request <- OneRequest
    BTP_RETRY_CAP = 2
    StartWrap = 2
    MaxEntered = 2
    MaxRestarts = 0
    MaxSwitches = 1
    Scenario <- TabletRaces
INVARIANTS FlushStaysInTournament

