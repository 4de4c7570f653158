SPECIFICATION Spec
CONSTANTS
    None = None
    MaxCalls = 4
    MaxFaults = 3
INVARIANTS TypeOK NonceOnce IdentityForServerOnly Agreement OnlyDamageIsRefused
CHECK_DEADLOCK FALSE
