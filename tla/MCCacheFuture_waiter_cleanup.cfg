\* Limit 1: a late waiter of a closed generation meets a newer one.
CONSTANTS
    Requests = {r1, r2, r3}
    Tasks = {}
    Keys = {k1}
    Limits = {1}
    Policies <- ReturnLimitOne
    RequestVerdicts = {"Cacheable"}
    ResponseVerdicts = {"Cacheable", "NonCacheable"}
    ReadModes = {"Direct"}
    Faults = {}
    None = None
SPECIFICATION Spec
PROPERTY WaiterCleansOnlyItsOwnEntry
CHECK_DEADLOCK FALSE
