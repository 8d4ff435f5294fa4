\* Nobody drops a future: every request is answered.
CONSTANTS
    Requests = {r1, r2, r3}
    Tasks = {}
    Keys = {k1}
    Limits = {1, 2}
    Policies <- LimitedPolicies
    RequestVerdicts = {"Cacheable"}
    ResponseVerdicts = {"Cacheable", "NonCacheable"}
    ReadModes = {"Direct"}
    Faults = {}
    None = None
SPECIFICATION FairSpec
INVARIANT WaiterHasFetcher
INVARIANT SingleFlight
PROPERTY EveryFutureEnds
CHECK_DEADLOCK FALSE
