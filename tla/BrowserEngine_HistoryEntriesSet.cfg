CONSTANTS
    u1 = u1
    u2 = u2
    Urls <- MCUrls
    SecureUrls <- MCSecureUrls
    AboutBlank = AboutBlank
    Garbled = Garbled
    NULL = NULL
    MaxTabs = 2
    HistoryCap = 3
    U32Max <- MCU32Max
SPECIFICATION Spec
INVARIANT
    HistoryEntriesSet
CHECK_DEADLOCK FALSE
