SPECIFICATION FairSpec
CONSTANTS
    click1 = click1
    click2 = click2
    Click <- MCClick
    Scheduler = Scheduler
    OtherKind <- MCOtherKind
    Sizes <- MCSizes
    GroupsFor <- MCGroupsFor
    NoKind = NoKind
    NoRound = NoRound
    NoProgress = NoProgress
    Idle = Idle
INVARIANTS
    OneRound
    SilenceBounded
PROPERTIES
    BarMovesForward
    RefreshEnds
