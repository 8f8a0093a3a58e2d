SPECIFICATION Spec
CONSTANTS
    Users = {u1}
    Requests = {r1}
    MaxTime = 1
    MaxFaults = 0
    RefreshTtl = 3
    AccessTtl = 1
    NoUser = NoUser
    NoSession = NoSession
INVARIANT
    RotationGetsNewHash
