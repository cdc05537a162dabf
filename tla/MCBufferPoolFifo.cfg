SPECIFICATION Spec
CONSTANTS
    Threads = {t1, t2, t3}
    Worker = Worker
    NoThread = NoThread
    Buffers = {b1, b2}
    NoBuf = NoBuf
    BufferSize = 4
    MaxMemory = 9
    InitialCount = 1
    CvCount = 2
    AllocMayFail = FALSE
INVARIANT NoIdleStock
PROPERTY NoBarging
PROPERTY ImplementsFifo
