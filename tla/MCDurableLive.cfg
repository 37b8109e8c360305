SPECIFICATION FairSpec
CONSTANTS
    first = first
    second = second
    third = third
    app = app
    site = site
    none = none
    Asks = {first}
    Keys = {app}
    KeyOf <- OneKey
    Starters = {site}
    MaxQueued = 1
    FailAt = {"restore", "recheck", "load", "execution", "record"}
    LostAt = {"queue", "start", "cancel", "finish", "record"}
    MaxFaults = 2
    MaxCrashes = 2
CONSTRAINT OneWorkload
PROPERTIES
    EveryOperationEnds
CHECK_DEADLOCK FALSE
