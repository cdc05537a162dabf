SPECIFICATION Spec
CONSTANTS
    Threads = {t1, t2}
    Worker = Worker
    NoThread = NoThread
    Buffers = {b1, b2}
    NoBuf = NoBuf
    BufferSize = 4
    MaxMemory = 11
    InitialCount = 1
    CvCount = 2
    AllocMayFail = TRUE
PROPERTY NoBarging
