\* A host without room for the cluster.
CONSTANTS
    Versions = {v1, v2}
    FirstVersions = {v1}
    None = None
    Host = Host
    Down = Down
    Types = {"vcluster"}
    EtcdSize = 1
    SyncerSize = 1
    HostHasRoom = FALSE
    MaxGen = 1
    MaxLives = 1
    MaxFaults = 0
SPECIFICATION Spec
INVARIANTS GuardrailHolds
CHECK_DEADLOCK FALSE
