SPECIFICATION BoundedSpec
CONSTANTS
    Rows = {a1, a2, a3}
    BulkRows = {b1}
    Workers = {w1, w2}
    batchSize = 2
    attempts = 2
    MaxFaults = 2
INVARIANTS
    TypeOK
    EachRowInOnePlace
    FaultLosesOneBatch
    BulkIsComplete
PROPERTY
    RowsLand
