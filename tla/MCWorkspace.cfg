SPECIFICATION WorkspaceSpec
CONSTANTS
    c1 = c1
    c2 = c2
    c3 = c3
    Users = {o, m}
    Groups = {g}
    Skilled = {o, m}
    Operators = {}
    Lineages = {1, 2}
    Calls = {c1, c2}
    StepLists = {s1, s2}
    KnownSteps = {s1, s2}
    MaxVersion = 2
    MaxCalls = 4
    ListIds = {1, 2, 3}
    ListLimits = {0, 1, 2}
    Segs = {"g1"}
    Recipients = {"r1", "r2"}
    Names = {1, 2}
    Files = {"md", "ref"}
    XferCalls = {c1, c2}
    TransferTTL = 1
    SweepAge = 2
    XferWorlds <- MCXferWorlds
    Paths = {"f", "r1", "r2", "s1", "s2"}
    Sessions = {"r1", "r2"}
    StagedPaths = {"s1", "s2"}
    Editors = {c1, c2, c3}
    FileMax = 2
    SigSize = 1
    FsWorlds <- MCFsWorlds
    Routers = {c1, c2}
    PrefTTL = 1
    AppTTL = 0
    PrefWorlds <- MCPrefWorlds
SYMMETRY MCWorkspaceSymmetry
CHECK_DEADLOCK FALSE
INVARIANTS LineagesHold ServesWhatIsAllowed ListIsComplete TransfersAreWhole RecordsAreOurs RoutedWithinTTL
