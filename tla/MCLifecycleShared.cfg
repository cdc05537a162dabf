\* Both DSOs release the core they share.
CONSTANTS
    DSOs = {"app", "plugin"}
    Threads = {"main", "load"}
    DsoOf <- MCDsoOf
    NoCore = NoCore
    MaxCores = 1
    Configs <- MCConfigs
    SizeMod = 512
    Kilo = 4
    BufSize = 32
    QuietRelease = TRUE
    OneRelease = FALSE
    NoStaleCalls = TRUE
SPECIFICATION Spec
INVARIANT AliveWhileReferenced
CHECK_DEADLOCK FALSE
