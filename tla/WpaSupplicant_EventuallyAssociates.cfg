CONSTANTS
    s1 = s1
    Ssids <- MCSsids
    Priorities <- MCPriorities
    MaxNetworks = 2

SPECIFICATION Spec

PROPERTIES
    EventuallyAssociates

CHECK_DEADLOCK FALSE
