SPECIFICATION Spec
CONSTANTS
    Match = {m1, m2}
    Court = {c1, c2}
    Desk = {d1, d2}
    NoMatch = NoMatch
    NoCourt = NoCourt
    Umpired = {m1}
    MaxCalm = 0
    MaxRough = 0
PROPERTIES OfficialsKeepCourts
