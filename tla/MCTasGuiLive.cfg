SPECIFICATION LiveSpec
CONSTANTS
    Devices = {1, 2}
    NoDevice = NoDevice
    Ports = {p1, p2}
    NoPort = NoPort
    Requests <- MCRequests
    MaxServers = 2
    MaxTries = 2
    HotPlug = TRUE
    Names = {"a"}
    MaxEntries = 1
    Filters <- MCFilters
    NoFilter = NoFilter
    Panel = {1, p1}
INVARIANTS ClientHoldsOnePort
PROPERTIES CallsEnd
