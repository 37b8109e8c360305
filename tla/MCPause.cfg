SPECIFICATION FairSpec
CONSTANTS
    home = home
    office = office
    Hearths = {home, office}
    Revocable = {office}
    MaxChanges = 2
    MaxWire = 2
    MaxFaults = 1
    MaxErrors = 1
CONSTRAINT AnyThree
INVARIANTS
    PausedMatchesHolds
    NoOrphanHold
    ToldIsHeld
PROPERTIES
    PauseArrives
CHECK_DEADLOCK FALSE
