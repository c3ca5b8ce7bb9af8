SPECIFICATION FairSpec
CONSTANTS
    cron = cron
    manual = manual
    Jobs <- MCJobs
    Retention = 2
    Offered = {"snapshot", "latest"}
    MaxBackups = 3
    MaxRequests = 2
    MaxWrites = 1
    MaxFaults = 1
    MaxEvents = 5
INVARIANTS
    TypeOK
    RestoreIsWhole
    BackupsKept
PROPERTIES
    RestoreTakesEffect
    WritesSurviveRestarts
CHECK_DEADLOCK FALSE
