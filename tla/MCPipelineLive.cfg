SPECIFICATION FairSpec
CONSTANTS
    LogWriters = {l1, l2}
    MtkWriters = {}
    LogDescs = {d1}
    MtkIds = {}
    HugeMtkIds = {}
    NoOne = NoOne
    Capacity = 1
    BufCells = 3
    LogSizes = {1}
    MtkSize = 2
    HdrCells = 1
    MinSpace = 1
    SvcEntries = 1
    AllocMayFail = FALSE
    MaxRecords = 2
    PressurePct = 75
INVARIANT SharedSite
PROPERTY SendReturns
PROPERTY Delivered
PROPERTY StopCompletes
