SPECIFICATION Spec
CONSTANTS
    Users = {u1}
    Requests = {r1, r2}
    MaxTime = 2
    MaxFaults = 1
    RefreshTtl = 2
    AccessTtl = 1
    NoUser = NoUser
    NoSession = NoSession
SYMMETRY RequestSymmetry
INVARIANTS
    TypeOK
    ForkNeedsOverlap
    SuccessorRetiresParent
    ClosedIsFinal
PROPERTY
    ImplementsLifecycle
