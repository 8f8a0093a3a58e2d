SPECIFICATION BoundedSudo
CONSTANTS
    Users = {u1}
    Requests = {r1, r2}
    Calls = {c1, c2}
    MaxTime = 0
    MaxFaults = 1
    MaxMints = 2
    MaxKept = 1
    RefreshTtl = 2
    AccessTtl = 2
    NoUser = NoUser
    NoSession = NoSession
SYMMETRY SudoSymmetry
INVARIANTS
    SudoTypeOK
    ReuseNeedsSharing
    ClosedSessionHasNoGrant
