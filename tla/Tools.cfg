SPECIFICATION ToolsSpec
CONSTANTS
    Versions = {1, 2, 3}
    Taken = 2
    MaxFaults = 1
    MaxReads = 4
    Parts = 2
    MaxOthers = 3
INVARIANTS
    AlertIsTrue
    OncePerVersion
    VerdictIsTrue
PROPERTY
    PinnedIsTried
CHECK_DEADLOCK FALSE
