SPECIFICATION LimiterFairSpec
CONSTANTS
    feed1 = feed1
    feed2 = feed2
    feed3 = feed3
    feeds = feeds
    site = site
    gdelt = gdelt
    Coroutine <- MCCoroutine
    Limiter <- MCLimiter
    LimiterOf <- MCLimiterOf
    Host <- MCHost
    Interval <- MCInterval
    Nobody = Nobody
PROPERTIES
    Spaced
    EveryoneServed
