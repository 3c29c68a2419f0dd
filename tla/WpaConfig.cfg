CONSTANTS
    Lines <- MCLines
    MaxLines = 5
INIT Init
NEXT Next
INVARIANT ParsedAsWritten
CHECK_DEADLOCK FALSE
