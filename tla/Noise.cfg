SPECIFICATION Spec
CONSTANTS
    Limit = 3
    Builds = {"panic", "wrap"}
    Stanzas = {a, b}
    Garbage = Garbage
    Error = Error
    MaxSends = 4
    MaxFaults = 1
INVARIANTS TypeOK NonceOnce DamageIsLocal
PROPERTIES InItsPlace
CHECK_DEADLOCK FALSE
