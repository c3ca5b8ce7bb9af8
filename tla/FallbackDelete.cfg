SPECIFICATION Spec
CONSTANTS
    n1 = n1
    n2 = n2
    team = team
    teamEu = teamEu
    Clusters <- MCClusters
    Namespaces = {n1, n2}
    Protected = {}
    Plans <- MCPlans
    Sweeps <- MCSweeps
    None = None
    MaxFaults = 1
PROPERTIES
    FallbackIsDedicated
CHECK_DEADLOCK FALSE
