CONSTANTS
    Tokens <- MCAllTokens
    Inputs <- MCInputs
SPECIFICATION Spec
INVARIANT StackIsAncestorChain
INVARIANT NoahsArk
PROPERTY ImplementsTextStream
CHECK_DEADLOCK FALSE
