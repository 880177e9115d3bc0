SPECIFICATION Spec
CONSTANTS
    UdpPort = TRUE
    MaxCalls = 3
    MaxCommands = 2
INVARIANT NoSelfLock
