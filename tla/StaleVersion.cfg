\* A normal cluster, no faults.
CONSTANTS
    Versions = {v1, v2}
    FirstVersions = {v1}
    None = None
    Host = Host
    Down = Down
    Types = {"vcluster"}
    EtcdSize = 1
    SyncerSize = 1
    HostHasRoom = TRUE
    MaxGen = 3
    MaxLives = 1
    MaxFaults = 0
SPECIFICATION Spec
INVARIANTS RecordedVersionRuns
CHECK_DEADLOCK FALSE
