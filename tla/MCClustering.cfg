SPECIFICATION FairSpec
CONSTANTS
    corriere = corriere
    post = post
    scheduled = scheduled
    Article <- MCArticle
    Source <- MCSource
    SourceOf <- MCSourceOf
    TimeOf <- MCTimeOf
    Resembles <- MCResembles
    Indigestible <- MCIndigestible
    MaxStories = 5
    Batch = 2
    Window = 2
    FlashMinSources = 2
    FlashWindow = 1
    Round <- MCRound
    Scheduled <- MCRound
    NoStory = NoStory
    NoRound = NoRound
INVARIANTS
    SpanMatchesMembers
    MembersResemble
    CoverageCurrent
PROPERTIES
    BacklogClears
    GroupedOnce
CHECK_DEADLOCK FALSE
