SPECIFICATION Spec
CONSTANTS
    Requests = {r1, r2}
    maxAttempts = 1
    maxSendsPerWindow = 1
    MaxDispatch = 2
    MaxFaults = 1
SYMMETRY RequestSymmetry
INVARIANTS
    TypeOK
    WinsNeedOverlap
    GuessesNeedOverlap
    SupersededStaysDead
    LatestCodeWorks
    ThrottleCountsSends
CHECK_DEADLOCK FALSE
