SPECIFICATION FairSpec
CONSTANTS
    Base = 2
    Payloads <- SmallPayloads
    MaxFrames = 3
INVARIANTS
    TypeOK
    NeverWaitsOnAFrame
    Aligned
PROPERTIES
    InOrder
    EverythingArrives
CHECK_DEADLOCK FALSE
