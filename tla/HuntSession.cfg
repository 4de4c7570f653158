SPECIFICATION GateSpec
CONSTANTS
    Versions = {1, 2}
    Taken = 2
    MaxFaults = 0
INVARIANT NoRePairing
CHECK_DEADLOCK FALSE
