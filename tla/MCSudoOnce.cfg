SPECIFICATION SudoSpec
CONSTANTS
    Users = {u1}
    Requests = {r1}
    Calls = {c1, c2}
    MaxTime = 0
    MaxFaults = 0
    MaxMints = 1
    MaxKept = 0
    RefreshTtl = 2
    AccessTtl = 2
    NoUser = NoUser
    NoSession = NoSession
SYMMETRY SudoSymmetry
INVARIANT
    OneMutationPerGrant
