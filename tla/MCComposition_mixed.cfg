\* Two clients under every policy; layers fail and evict.
CONSTANTS
    SECOND = 2
    None = None
    Clients = {c1, c2}
    Configs <- Mixed
    Faults = {"read", "write", "drop", "evict"}
    MAX_TIME = 2
    MAX_FETCHES = 2
    MAX_CALLS = 3
    MAX_FAULTS = 1
SPECIFICATION Spec
SYMMETRY Symmetry
INVARIANT TypeOK
INVARIANT AgreeAtRest
INVARIANT ParallelServesFreshest
PROPERTY ReadsDoNotGoBack
PROPERTY NeverServedExpired
PROPERTY AckedSetIsStored
CHECK_DEADLOCK FALSE
