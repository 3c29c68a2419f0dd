CONSTANTS
    Tokens <- MCTokens
    NumericValue <- MCNumericValue
    MaxArgs = 4
    Orig = Orig
INIT Init
NEXT Next
INVARIANT ChannelShownAsSet
CHECK_DEADLOCK FALSE
