SPECIFICATION FairSpec
CONSTANTS
    first = first
    again = again
    other = other
    NoReq = NoReq
    Reqs = {first, again, other}
    Ids = {"id"}
    Digests = {"ours", "theirs"}
    IdOf <- MCIdOf
    DigestOf <- MCDigestOf
    Laned = {first, again}
    Retention = 1
    Resend = 0
    MaxDay = 2
    MaxJournal = 1
CONSTRAINT DaysOrOthers
INVARIANTS
    NeverTwice
    LookupTruth
    AnswersTruth
PROPERTIES
    TakenEnds
