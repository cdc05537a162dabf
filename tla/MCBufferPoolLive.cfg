SPECIFICATION FairSpec
CONSTANTS
    Threads = {t1, t2, t3}
    Worker = Worker
    NoThread = NoThread
    Buffers = {b1}
    NoBuf = NoBuf
    BufferSize = 4
    MaxMemory = 4
    InitialCount = 1
    CvCount = 2
    AllocMayFail = FALSE
PROPERTY AcquireReturns
