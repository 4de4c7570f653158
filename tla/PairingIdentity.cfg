SPECIFICATION Spec
CONSTANTS
    None = None
    Absent = Absent
    Torn = Torn
    Modes = {"qr"}
    JidForms = {"device"}
    Faults = {"abort"}
    MaxStanzas = 3
    MaxRuns = 3
    MaxFaults = 1
    MaxEntries = 1
    MaxInFlight = 1
PROPERTY IdentitySurvivesRestarts
CHECK_DEADLOCK FALSE
