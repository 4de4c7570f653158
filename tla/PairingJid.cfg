SPECIFICATION Spec
CONSTANTS
    None = None
    Absent = Absent
    Torn = Torn
    Modes = {"qr"}
    JidForms = {"missing"}
    Faults = {}
    MaxStanzas = 3
    MaxRuns = 2
    MaxFaults = 0
    MaxEntries = 1
    MaxInFlight = 1
INVARIANT PairedSessionCanLogIn
CHECK_DEADLOCK FALSE
