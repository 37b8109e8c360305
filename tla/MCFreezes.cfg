SPECIFICATION Spec
CONSTANTS
    first = first
    second = second
    web = web
    worker = worker
    none = none
    Deletions = {first, second}
    Containers = {web, worker}
    Policies = {"no", "always", "on-failure"}
    None = none
    MaxErrors = 3
    MaxStops = 3
SYMMETRY Symmetry
INVARIANTS
    PolicyKept
    ToldHolds
    StaysQuiet
CHECK_DEADLOCK FALSE
