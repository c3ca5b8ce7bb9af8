\* An embedded-store cluster, virtual or namespaced, whose name is used twice.
CONSTANTS
    Versions = {v1, v2}
    FirstVersions = {v1}
    None = None
    Host = Host
    Down = Down
    Types = {"vcluster", "namespaced"}
    EtcdSize = 0
    SyncerSize = 1
    HostHasRoom = TRUE
    MaxGen = 2
    MaxLives = 2
    MaxFaults = 1
SPECIFICATION Spec
INVARIANTS TypeOK FinalizerProtects StatusDescribesGeneration
PROPERTIES ObservedNeverRegresses TerminatingIsFinal DataOutlivesEverythingButDeletion
CHECK_DEADLOCK FALSE
