SPECIFICATION Spec
CONSTANTS
    r1 = r1
    r2 = r2
    app = app
    group = group
    x = x
    y = y
    Absent = Absent
    NoDoc = NoDoc
    Requests <- MCRequests
    Apps = {app}
    Groups = {group}
    Texts <- MCTexts
    Members <- MCMembers
    Asked = {1}
    MaxRevisions = 2
    MaxCommits = 3
    MaxFaults = 1
SYMMETRY RequestSymmetry
INVARIANTS
    TypeOK
    HistoryWellFormed
    ChangesAccountFor
    DiffTellsBothTexts
PROPERTIES
    CalmKeepsPromise
CHECK_DEADLOCK FALSE
