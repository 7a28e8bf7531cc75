SPECIFICATION FairSpec
CONSTANTS
    plain = plain
    tracked = tracked
    other = other
    flash = flash
    ansa = ansa
    corriere = corriere
    rounds = rounds
    gdelt = gdelt
    social = social
    Url <- MCUrl
    PageOf <- MCPageOf
    Title <- MCTitle
    Alike <- MCAlike
    Source <- MCSource
    Editions <- MCEditions
    Found <- MCFound
    Posted <- MCPosted
    SiteOf <- MCSiteOf
    Tour <- MCTour
    Collector <- MCCollector
    Via <- MCVia
    RecentLimit = 2
    NoRow = NoRow
    NoSession = NoSession
    Nobody = Nobody
INVARIANTS
    NoTwinPages
    NoNearDuplicates
PROPERTIES
    Archived
    WordsOfTheFeed
    FoundIsStored
