SPECIFICATION LoginSpec
CONSTANTS
    Base = 256
    High20 = 16
    Tokens <- MCTokens
    Doubles <- MCDoubles
    Nodes <- MCNodes
    Users <- MCUsers
    Agents = {0, 1}
    Devices = {0, 1, 23}
INVARIANT LogsInAsItself
CHECK_DEADLOCK FALSE
