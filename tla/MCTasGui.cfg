SPECIFICATION Spec
CONSTANTS
    Devices = {1, 2}
    NoDevice = NoDevice
    Ports = {p1, p2}
    NoPort = NoPort
    Requests <- MCRequests
    MaxServers = 1
    MaxTries = 1
    HotPlug = FALSE
    Names = {"a", "b"}
    MaxEntries = 2
    Filters <- MCFilters
    NoFilter = NoFilter
INVARIANTS PortLookedAfter WorkerAloneOnClient
    RowsMatchIndex ConnectedToRequest
PROPERTIES ImplementsSession
SYMMETRY PortSymmetry
