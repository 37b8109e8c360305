SPECIFICATION Spec
CONSTANTS
    whole = whole
    part = part
    NoOp = NoOp
    Ops = {o1, o2, o3, o4}
    Keys = {whole, part}
    WholeOf <- MCWholeOf
    Requests <- MCRequests
    NestedKeys = {}
    MaxWaiting = 2
SYMMETRY Symmetry
CONSTRAINT OneWorkload
INVARIANTS
    HeldMatchesActive
    PausedQuiet
    FenceHolds
PROPERTIES
    GenerationStable
    BusyOnlyWhenBlocked
    ImplementsContract
