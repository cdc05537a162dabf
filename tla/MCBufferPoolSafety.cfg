SPECIFICATION Spec
CONSTANTS
    Threads = {t1, t2, t3, t4}
    Worker = Worker
    NoThread = NoThread
    Buffers = {b1, b2, b3}
    NoBuf = NoBuf
    BufferSize = 4
    MaxMemory = 14
    InitialCount = 1
    CvCount = 2
    AllocMayFail = TRUE
SYMMETRY Symmetry
INVARIANT TypeOK
INVARIANT OneOwner
INVARIANT BudgetExact
INVARIANT QueueExact
INVARIANT NoLostWakeup
INVARIANT NoUseAfterDestroy
