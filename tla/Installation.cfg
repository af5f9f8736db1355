SPECIFICATION MCSpec
CONSTANTS
    UserData = {settings, store}
    Workers <- MCWorkers
    MaxFaults = 2
    MaxCrashes = 1
    Sources = {db, credentials}
    MaxEdits = 2
    MaxOps = 3
    MaxRoots = 1
    Portables = {1, 2}
    Roots = {1, 2}
    Ports = {1, 2}
    MaxHosts = 3
    MaxStarts = 3
    MaxHarm = 1
INVARIANTS
    UserDataIsSomewhere
    
    CutoverIsReversible
    OffIsOff
    
PROPERTIES
    CodexKeepsWorking
    LoginSurvives
CHECK_DEADLOCK FALSE
