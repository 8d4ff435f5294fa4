\* Eight parts of a program, one in a behaviour.  Each of them ends.
CONSTANTS
    None = None
    NoQuery = NoQuery
    Bad = Bad
    Broken = Broken
    Nested = Nested
    Error = Error
    Default = Default
    NotSet = NotSet
    Disabled = Disabled
    place = place
    mine = mine
    v1 = v1
    v2 = v2
    SECOND = 1
    Parts = {p1}
    Durations = {1, 2}
    StalePolicies = {"OffloadRevalidate"}
    Limits = {3}
    MAX_CALLS = 4
    MAX_TIME = 3
    Requests = {r1, r2}
    Services = {s1, s2}
    Adapters = {"tower", "reqwest"}
    InnerServices = {"always", "limited"}
    PERMITS = 2
    Formats = {"serde", "rkyv"}
    Heads <- SomeHeads
    Caching <- SomeCaching
    HttpNames <- TwoNames
    StatusHeaders = {None, "x-other"}
    Options = {o1}
    Levels <- SomeLevels
    Custom = {mine}
    MAX_SETTERS = 3
    Calls = {c1, c2}
    Keys = {k1}
    Faults = {"panic", "cancel"}
    TaskConfigs <- SomeTaskConfigs
    Endpoints <- AllEndpoints
    Messages <- AllMessages
    Responses <- AllResponses
    Extractors <- AllExtractors
    Asking <- AllAsking
    KeyFormats = {"Bitcode", "UrlEncoded"}
    MAX_ENTRIES = 1
    Numbers = {"0"}
    OpaqueTexts = {"opaque"}
    NameOrder <- Names
    Lowercase <- Lower
    StartsWith <- PrefixPairs
    Transformed <- Transforms
    Captures <- WholePath
    Files <- AllFiles
    Trees <- AllTrees
SPECIFICATION AllSpec
INVARIANTS
    TypeOK
    ChoicesCount
    WholeOrNotAtAll
    EndpointSaysWhatItsFileSays
    KeysTellRequestsApart
    AdaptersPassOn
    CountersAddUp
PROPERTY
    LayersFollow
CHECK_DEADLOCK FALSE
