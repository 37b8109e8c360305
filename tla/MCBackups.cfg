SPECIFICATION FairSpec
CONSTANTS
    nightly = nightly
    manual = manual
    files = files
    dump = dump
    expired = expired
    older = older
    sweep = sweep
    sweep2 = sweep2
    none = none
    Creates = {nightly, manual}
    Restores = {files}
    Databases = {dump}
    Deletes = {expired, older}
    Prunes = {sweep, sweep2}
    Signed = {manual}
    None = none
    MaxPauses = 1
    MaxErrors = 1
    MaxStops = 2
CONSTRAINT OneWorkload
INVARIANTS
    OneWins
    ArchiveMatchesRow
    PruneOwed
PROPERTIES
    CancelHolds
    TaskEnds
CHECK_DEADLOCK FALSE
