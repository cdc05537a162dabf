\* Two DSOs, two threads, a race to publish and a second core after a release; the application keeps all
\* three rules.
CONSTANTS
    DSOs = {"app", "plugin"}
    Threads = {"main", "load"}
    DsoOf <- MCDsoOf
    NoCore = NoCore
    MaxCores = 3
    Configs <- MCConfigs
    SizeMod = 512
    Kilo = 4
    BufSize = 32
    QuietRelease = TRUE
    OneRelease = TRUE
    NoStaleCalls = TRUE
SPECIFICATION FairSpec
INVARIANT CoreOutlivesUsers
INVARIANT OneCore
INVARIANT NoLeak
INVARIANT BudgetAsWritten
PROPERTY ReleasedDies
CHECK_DEADLOCK FALSE
