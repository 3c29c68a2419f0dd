CONSTANTS
    Tokens <- MCTokens
    NumericValue <- MCNumericValue
    MaxArgs = 4
    Orig = Orig
INIT Init
NEXT Next
INVARIANTS LastRequestApplied SettingsShownAsSet
CHECK_DEADLOCK FALSE
