SPECIFICATION Spec
CONSTANTS
    cron = cron
    manual = manual
    Jobs <- OneJob
    Retention = 2
    Offered = {"row"}
    MaxBackups = 2
    MaxRequests = 1
    MaxWrites = 1
    MaxFaults = 0
    MaxEvents = 4
PROPERTIES
    RowRestoresItsBackup
CHECK_DEADLOCK FALSE
