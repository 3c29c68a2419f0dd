CONSTANTS
    s1 = s1
    s2 = s2
    Ssids <- MCSsids
    Priorities <- MCPriorities
    Signals <- MCSignals
    MaxList = 3

SPECIFICATION Spec

INVARIANTS
    SelectsBest

CHECK_DEADLOCK FALSE
