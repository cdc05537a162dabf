CONSTANTS
    MaxIov = 1
    HdrCells = 1
    MaxErrors = 1
    Threads = {t1, t2}
    NoOne = NoOne
    AttrNames = {"user"}
    AttrTypes = {"str"}
    ModNames = {"net"}
    Levels = {"info"}
    Sites = {"open", "close"}
    Strings <- MCStrings
    Capacity = 2
    SvcEntries = 2
    EntryCells = 1
    BatchCells = 1
    DataCells = 1
    MaxRecords = 1
    MaxBatches = 0
SPECIFICATION Spec
INVARIANT SinkAccounts
INVARIANT FilesFaithful
INVARIANT ReadableInOrder
INVARIANT AnnouncedOrCounted
SYMMETRY ThreadSymmetry
CHECK_DEADLOCK FALSE
