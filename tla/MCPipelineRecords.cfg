SPECIFICATION Spec
CONSTANTS
    LogWriters = {l1}
    MtkWriters = {m1}
    LogDescs = {d1}
    MtkIds = {k1, k2}
    HugeMtkIds = {k2}
    NoOne = NoOne
    Capacity = 2
    BufCells = 3
    LogSizes = {4}
    MtkSize = 2
    HdrCells = 1
    MinSpace = 1
    SvcEntries = 2
    AllocMayFail = TRUE
    MaxRecords = 2
    PressurePct = 40
SYMMETRY Symmetry
INVARIANT TypeOK
INVARIANT DescFirst
INVARIANT DescOnce
INVARIANT StreamContiguous
INVARIANT RecordsWhole
INVARIANT BatchFloor
INVARIANT PoolExact
INVARIANT DropsExact
INVARIANT AllDelivered
