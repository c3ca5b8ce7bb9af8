SPECIFICATION Spec
CONSTANTS
    r1 = r1
    r2 = r2
    None = None
    Requests <- MCRequests
    Groups = {g, h}
    Apps = {chart, plain}
    HelmApps = {chart}
    Places = {home, away}
    Home = home
    Choices <- MCChoices
    MaxRevision = 2
    MaxChanging = 1
    RoughMoves = FALSE
    MaxFaults = 2
SYMMETRY RequestSymmetry
INVARIANTS
    TypeOK
    SettingsAgree
    ChartsMatchList
PROPERTIES
    EarlierEditsSurvive
CHECK_DEADLOCK FALSE
