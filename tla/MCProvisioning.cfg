SPECIFICATION FairSpec
CONSTANTS
    app = app
    database = database
    Jobs = {app, database}
    Slots = 2
    MaxRefused = 1
    MaxPauses = 1
    MaxErrors = 1
    MaxStops = 1
CONSTRAINTS
    TwoKinds
    Roles
INVARIANTS
    MadeOnce
    DiscardAlone
    LeftoversShown
PROPERTIES
    ClaimedIsTaken
CHECK_DEADLOCK FALSE
