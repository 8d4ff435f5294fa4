\* Three programs, one for each backend.  An operation may be the last one.
CONSTANTS
    None = None
    k1 = k1
    k2 = k2
    SECOND = 2
    MAX_TIME = 2
    Tasks <- ThreeTasks
    Lifetimes <- Short
    Home <- TwoProcesses
    Timeouts = {{}, {"connection"}, {"response"}}
    Faults = {"unreachable", "cancel", "disconnect", "silence"}
    Keys = {k1, k2}
    Paths = {TRUE, FALSE}
    CAPACITY = 1
    MAX_RESTARTS = 1
    MokaKeys <- ThreeKeys
    KeySize <- KeyMemory
    Sizes = {0, 2}
    Expires <- SomeTimes
    OVERHEAD = 1
    U32_MAX = 4
    MAX_ENTRIES = 2
    MAX_BYTES = 8
    Kinds = {"entries", "bytes"}
    Policies = {"lru", "tiny_lfu", None}
    MAX_TASKS = 1
    MAX_WRITES = 3
SPECIFICATION SmallSpec
INVARIANTS
    TypeOK
    WithinLimits
    ReadsTheLatest
    WrittenIsFound
PROPERTIES
    OperationsEnd
    EvictsOnlyForRoom
CHECK_DEADLOCK FALSE
