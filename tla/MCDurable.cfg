SPECIFICATION Spec
CONSTANTS
    first = first
    second = second
    third = third
    app = app
    site = site
    none = none
    Asks = {first, second}
    Keys = {app}
    KeyOf <- OneKey
    Starters = {third, site}
    MaxQueued = 2
    FailAt = {"queue", "join", "restore", "recheck", "load", "execution", "record"}
    LostAt = {"queue", "start", "record", "cancel"}
    MaxFaults = 1
    MaxCrashes = 1
SYMMETRY AnyAsk
CONSTRAINT OneWorkloadAndLostStarts
INVARIANTS
    ActsAlone
    AskIsRun
    CancelledLeaves
CHECK_DEADLOCK FALSE
