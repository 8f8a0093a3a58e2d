SPECIFICATION RecordsSpec
CONSTANTS
    Requests = {r1, r2}
    MaxFaults = 1
    Users = {u1, u2}
    Emails = {e1, e2}
    Phones = {p1}
    GoogleIds = {g1}
    AppleIds = {a1}
    None = None
    MaxRowIds = 4
    MaxCalls = 5
    File = {f1, f2}
    NoFile = NoFile
    Owners = {u1, u2}
    Devices = {d1, d2}
    Tokens = {t1, t2}
    MaxPushRows = 2
    Nobody = Nobody
    Ids = {1, 2, 3, 4}
    Limit = 2
    MaxTime = 3
SYMMETRY RecordSymmetry
INVARIANT ReclaimedValueRegisters
CHECK_DEADLOCK FALSE
