\* Streams of up to four bytes in frames cut anywhere, up to three operations.
CONSTANTS
    None = None
    Sources <- UpTo4
    Operations <- AllOperations
    MAX_CHECKS = 3
SPECIFICATION Spec
INVARIANT TypeOK
INVARIANT ForwardedTruly
INVARIANT NothingIsMissing
INVARIANT VerdictsAreOfTheWholeBody
CHECK_DEADLOCK FALSE
