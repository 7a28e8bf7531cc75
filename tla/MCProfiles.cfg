SPECIFICATION ProfileFairSpec
CONSTANTS
    gazette = gazette
    herald = herald
    Outlet <- MCTwo
    Id <- MCId
    Hostile = {}
    Read <- MCFirst
    Budget = 2
    NoProfile = NoProfile
    NoTask = NoTask
    NoJob = NoJob
    MaxOwners = 1
    Programme = {"print", "web"}
PROPERTIES
    UsefulKept
    Renewed
