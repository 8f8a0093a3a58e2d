SPECIFICATION FairSpec
CONSTANTS
    Users = {u1}
    Requests = {r1, r2}
    MaxTime = 1
    MaxFaults = 1
    RefreshTtl = 2
    AccessTtl = 1
    NoUser = NoUser
    NoSession = NoSession
PROPERTY
    SweepReachesEverySession
