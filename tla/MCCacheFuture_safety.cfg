\* Two requests and a background revalidation over two keys, every stale policy,
\* every fault and every predicate outcome.
CONSTANTS
    Requests = {r1, r2}
    Tasks = {t1}
    Keys = {k1, k2}
    Limits = {1, 2}
    Policies <- SomePolicies
    RequestVerdicts = {"Cacheable", "NonCacheable"}
    ResponseVerdicts = {"Cacheable", "NonCacheable"}
    ReadModes = {"Direct", "Refill"}
    Faults = {"cancel", "age", "read_error", "write_error"}
    None = None
SPECIFICATION Spec
SYMMETRY Symmetry
INVARIANT TypeOK
INVARIANT StatusMatchesOrigin
INVARIANT SharedOnlyIfCacheable
PROPERTY ImplementsManager
PROPERTY ImplementsLifecycle
CHECK_DEADLOCK FALSE
