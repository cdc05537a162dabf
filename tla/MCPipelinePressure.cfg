SPECIFICATION Spec
CONSTANTS
    LogWriters = {l1, l2}
    MtkWriters = {}
    LogDescs = {d1}
    MtkIds = {}
    HugeMtkIds = {}
    NoOne = NoOne
    Capacity = 2
    BufCells = 3
    LogSizes = {1, 4}
    MtkSize = 2
    HdrCells = 1
    MinSpace = 1
    SvcEntries = 1
    AllocMayFail = FALSE
    MaxRecords = 2
    PressurePct = 75
SYMMETRY Symmetry
INVARIANT PressureHeard
