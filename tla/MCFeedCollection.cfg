SPECIFICATION FairSpec
CONSTANTS
    catalogue = catalogue
    alternative = alternative
    periodic = periodic
    seed = seed
    Feed <- MCFeed
    Address <- MCAddress
    Candidates <- MCCandidates
    Kinds <- MCKinds
    Round <- MCRound
    RetryAll <- MCRetryAll
    Periodic <- MCPeriodic
    BackoffFailures = 2
    MaxVersion = 2
    NoAddress = NoAddress
    NoValidator = NoValidator
    NoTask = NoTask
    NoFetch = NoFetch
INVARIANTS
    NotModifiedHidesNothing
    BackoffHonoured
PROPERTIES
    Mirrored
    FreshContentIngested
