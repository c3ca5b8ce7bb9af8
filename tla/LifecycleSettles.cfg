\* A normal cluster (one etcd, one syncer), virtual or namespaced, under fairness.
CONSTANTS
    Versions = {v1, v2}
    FirstVersions = {v1}
    None = None
    Host = Host
    Down = Down
    Types = {"vcluster", "namespaced"}
    EtcdSize = 1
    SyncerSize = 1
    HostHasRoom = TRUE
    MaxGen = 2
    MaxLives = 1
    MaxFaults = 1
SPECIFICATION FairSpec
PROPERTIES AwakeClusterSettles SleepingClusterSettles DeletionCompletes
CHECK_DEADLOCK FALSE
