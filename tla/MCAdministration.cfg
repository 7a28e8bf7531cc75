SPECIFICATION AdminFairSpec
CONSTANTS
    enable_llm = enable_llm
    cluster_window_hours = cluster_window_hours
    on = on
    off = off
    short = short
    long = long
    web = web
    worker = worker
    page = page
    anna = anna
    bob = bob
    Person <- MCPerson
    Key <- MCKey
    Value <- MCValue
    Allowed <- MCAllowed
    Default <- MCDefault
    Form <- MCForm
    Web <- MCWeb
    Scheduled <- MCScheduled
    Page <- MCPage
    ServedBy <- MCServedBy
    Personal = FALSE
    Blank = Blank
    NoRow = NoRow
    NoSave = NoSave
    NoLoad = NoLoad
INVARIANTS
    FirstAdministers
    ToldIsStored
    ServedAgrees
PROPERTIES
    EveryProcessFollows
