SPECIFICATION FairSpec
CONSTANTS
    web = web
    db = db
    Workloads <- MCWorkloads
    MaxReplicas = 2
    None = None
    MaxEdits = 3
    MaxFaults = 2
INVARIANTS
    TypeOK
    NothingForgotten
PROPERTIES
    SleepIsQuiet
    WakeRestores
CHECK_DEADLOCK FALSE
