SPECIFICATION Spec
CONSTANTS
    None = None
    Absent = Absent
    Torn = Torn
    Modes = {"qr", "phone"}
    JidForms = {"device", "missing"}
    Faults = {"abort", "loss", "readError"}
    MaxStanzas = 5
    MaxRuns = 2
    MaxFaults = 1
    MaxEntries = 2
    MaxInFlight = 1
INVARIANTS
    TypeOK
    MemoryIsDurable
    AccountBelongsToIdentity
    SavedAccountWasSigned
    ShownQrIsCurrent
    SuccessIsDurable
    LinkedDeviceIsSaved
    FinishNamesIssuedRef
    SignatureIsUnderway
PROPERTIES
    PairingLostOnlySo
    PairsUnderDurableSecret
CHECK_DEADLOCK FALSE
