SPECIFICATION Spec
CONSTANTS
    Requests = {r1, r2}
    maxAttempts = 1
    maxSendsPerWindow = 1
    MaxDispatch = 1
    MaxFaults = 0
SYMMETRY RequestSymmetry
INVARIANT
    OneSendOneWinner
CHECK_DEADLOCK FALSE
