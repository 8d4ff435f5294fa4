\* Four requests over two keys, with limits 1 and 2 and dropped futures.
CONSTANTS
    Requests = {r1, r2, r3, r4}
    Keys = {k1, k2}
    Limits = {1, 2}
    CanCancel = TRUE
    None = None
SPECIFICATION Spec
SYMMETRY Symmetry
INVARIANT TypeOK
INVARIANT ChannelsAnswerOnce
INVARIANT PermitsConserved
PROPERTY EntryNeverReplaced
CHECK_DEADLOCK FALSE
