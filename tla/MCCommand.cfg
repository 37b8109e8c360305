SPECIFICATION CommandSpec
CONSTANTS
    first = first
    again = again
    anew = anew
    NoReq = NoReq
    Reqs = {first, again, anew}
    Ids = {0, 1}
    Digests = {"payload"}
    IdOf <- MCIdOf
    DigestOf <- MCDigestOf
    Laned = {first, again, anew}
    Retention = 1
    Resend = 0
    MaxDay = 2
    MaxJournal = 1
    MaxWithdrawn = 1
    HasRecover = TRUE
CONSTRAINT DaysOrChanges
INVARIANTS
    ReportsTrue
    RunsRecorded
PROPERTIES
    ImplementsOnce
