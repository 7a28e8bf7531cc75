SPECIFICATION TextFairSpec
CONSTANTS
    texts = texts
    home1 = home1
    home2 = home2
    site = site
    Caller <- MCCaller
    Cache <- MCCache
    CacheOf <- MCCacheOf
    Server <- MCServer
    TTL = 1
    Timeout = 1
    MaxTime = 2
    NoEntry = NoEntry
    NoAsk = NoAsk
    Job = texts
    HomeOf <- MCHomeOf
    SiteOf <- MCSiteOf
    Bare = {}
    Blank <- MCBlank
    Moved <- MCMoved
    Collected = 3
    Limit = 2
INVARIANTS
    PermissionsAge
    ShortTransactions
PROPERTIES
    TextInTheEnd
