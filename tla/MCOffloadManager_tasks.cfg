\* Three spawn calls with one cache key or generated keys, every configuration,
\* panics and cancellations.
CONSTANTS
    Calls = {c1, c2, c3}
    Keys = {k1}
    Configs <- WithTimeout
    Faults = {"panic", "cancel"}
    None = None
SPECIFICATION FairSpec
INVARIANT TypeOK
INVARIANT TasksAreTracked
INVARIANT WaitAllWaits
PROPERTY WaitAllReturns
CHECK_DEADLOCK FALSE
