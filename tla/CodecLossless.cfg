SPECIFICATION Spec
CONSTANTS
    Base = 6
    High20 = 2
    Tokens <- MCTokens
    Doubles <- MCDoubles
    Nodes <- MCNodes
INVARIANT Lossless
CHECK_DEADLOCK FALSE
