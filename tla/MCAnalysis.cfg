SPECIFICATION FairSpec
CONSTANTS
    ansa = ansa
    agi = agi
    rai = rai
    bbc = bbc
    monde = monde
    welt = welt
    pais = pais
    it = it
    uk = uk
    fr = fr
    de = de
    es = es
    quake = quake
    vote = vote
    senate = senate
    Story <- MCStory
    Source <- MCSource
    Country <- MCCountry
    Label <- MCLabel
    CountryOf <- MCCountryOf
    Mentions <- MCMentions
    Early <- MCEarly
    Arrivals <- MCArrivals
    Window <- MCWindow
    MinSources = 4
    MinCountries = 2
    MinGroup = 3
    MinBig = 1
    MaxGroups = 3
    MinPeers = 3
    Ages <- MCAges
    Alpha <- MCAlpha
    Rank <- MCRank
    Threshold <- MCThreshold
    Batch = 2
    NoRow = NoRow
    NoSignal = NoSignal
    NoView = NoView
    NoLink = NoLink
    None = None
INVARIANTS
    SmallCountriesAreSpared
PROPERTIES
    FlagsFollow
