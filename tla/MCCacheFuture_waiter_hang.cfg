\* The permit holder's future is dropped while another request waits.
CONSTANTS
    Requests = {r1, r2}
    Tasks = {}
    Keys = {k1}
    Limits = {1}
    Policies <- ReturnLimitOne
    RequestVerdicts = {"Cacheable"}
    ResponseVerdicts = {"Cacheable"}
    ReadModes = {"Direct"}
    Faults = {"cancel"}
    None = None
SPECIFICATION FairSpec
PROPERTY EveryFutureEnds
CHECK_DEADLOCK FALSE
