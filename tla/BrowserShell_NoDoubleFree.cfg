CONSTANTS
    u1 = u1
    u2 = u2
    Urls <- MCUrls
    SecureUrls <- MCSecureUrls
    AboutBlank = AboutBlank
    Garbled = Garbled
    NULL = NULL
    MaxTabs = 2
    HistoryCap = 2
    U32Max <- MCU32Max
    AboutHelp <- MCAboutHelp
SPECIFICATION ShellSpec
INVARIANT
    NoDoubleFree
CHECK_DEADLOCK FALSE
