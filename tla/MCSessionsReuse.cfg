SPECIFICATION Spec
CONSTANTS
    Users = {u1}
    Requests = {r1, r2}
    MaxTime = 2
    MaxFaults = 0
    RefreshTtl = 3
    AccessTtl = 1
    NoUser = NoUser
    NoSession = NoSession
SYMMETRY RequestSymmetry
INVARIANT
    ReuseIsCatastrophic
