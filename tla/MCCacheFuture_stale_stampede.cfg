\* Limit 1, stale policy Revalidate: two requests find the same stale entry.
CONSTANTS
    Requests = {r1, r2}
    Tasks = {}
    Keys = {k1}
    Limits = {1}
    Policies <- RevalidateLimitOne
    RequestVerdicts = {"Cacheable"}
    ResponseVerdicts = {"Cacheable"}
    ReadModes = {"Direct"}
    Faults = {}
    None = None
SPECIFICATION Spec
INVARIANT OneFetchAtATime
CHECK_DEADLOCK FALSE
