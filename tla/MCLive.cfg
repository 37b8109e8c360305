SPECIFICATION FairSpec
CONSTANTS
    server = server
    routes = routes
    NoOp = NoOp
    Ops = {o1, o2, o3}
    Keys = {server, routes}
    WholeOf <- MCWholeOf
    Requests <- LiveRequests
    NestedKeys = {routes}
    MaxWaiting = 2
PROPERTIES
    AdmittedEnds
