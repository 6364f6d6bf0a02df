SPECIFICATION Spec
CONSTANTS
    Devices = {1, 2}
    NoDevice = NoDevice
    Ports = {p1, p2}
    NoPort = NoPort
    MaxServers = 1
    MaxPolls = 2
INVARIANTS ConnectAllOrNothing AttachedToAsked
PROPERTIES ConnectEnds ImplementsSession
