SPECIFICATION FairSpec
CONSTANTS
    Conn = {c1, c2, c3}
    s1 = s1
    s2 = s2
    s3 = s3
    Session = {s1, s2, s3}
    Device <- TwoDevices
    Match = {m1, m2}
    Call = {r1, r2, d1}
    DeskCall = {d1}
    NoConn = NoConn
    NoSession = NoSession
    NoMatch = NoMatch
    NoCall = NoCall
    Unknown = Unknown
    MaxPending = 1
    MaxStand = 2
    Scenario <- CourtOrCalls
INVARIANTS TypeOK ScoreOfItsMatch AnswersFit
PROPERTIES SlotNotStolen HostComesBack CloudShowsCourt HolderIsTold PlacesComeFree
CHECK_DEADLOCK FALSE
