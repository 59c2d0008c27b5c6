SPECIFICATION FairSpec
CONSTANTS
    Match = {m1, m2}
    Court = {c1, c2}
    Desk = {d1, d2}
    NoMatch = NoMatch
    NoCourt = NoCourt
    Umpired = {m1}
    MaxCalm = 4
    MaxRough = 1
INVARIANTS TypeOK ClaimsExclusive SidesAgree
PROPERTIES AutoKeepsGoing UmpireArrives
