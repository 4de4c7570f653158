SPECIFICATION FairSpec
CONSTANTS
    None = None
    Absent = Absent
    Torn = Torn
    Modes = {"qr", "phone"}
    JidForms = {"device"}
    Faults = {"abort", "loss"}
    MaxStanzas = 3
    MaxRuns = 3
    MaxFaults = 2
    MaxEntries = 1
    MaxInFlight = 1
PROPERTIES
    EndsOrIsHeldUp
    StoreSpec
CHECK_DEADLOCK FALSE
