CONSTANTS
    s1 = s1
    Ssids <- MCSsids
    Priorities <- MCPriorities
    MaxNetworks = 2

SPECIFICATION Spec

INVARIANTS
    TypeOK

PROPERTIES
    ShutdownCompletes

CHECK_DEADLOCK FALSE
