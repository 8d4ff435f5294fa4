\* Two spawn calls for one key, nothing fails: the first task ends early.
CONSTANTS
    Calls = {c1, c2}
    Keys = {k1}
    Configs <- Defaults
    Faults = {}
    None = None
SPECIFICATION Spec
PROPERTY SkippedOnlyIfInFlight
CHECK_DEADLOCK FALSE
