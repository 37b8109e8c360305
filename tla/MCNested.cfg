SPECIFICATION Spec
CONSTANTS
    server = server
    routes = routes
    NoOp = NoOp
    Ops = {o1, o2, o3, o4}
    Keys = {server, routes}
    WholeOf <- MCWholeOf
    Requests <- NestedRequests
    NestedKeys = {routes}
    MaxWaiting = 2
SYMMETRY Symmetry
INVARIANTS
    NoLostWakeup
PROPERTIES
    LoopsAgree
