SPECIFICATION BackgroundSpec
CONSTANTS
    ItemOrder <- TwoItems
    DependsOn <- TwoDependsOn
    Reads <- TwoReads
    Writes <- TwoWrites
    Contracts = {c1}
    Usages = {1}
    MaxParallel = 2
    Share = 1
    Limit = 6
    ProjectLimit = 6
    MaxRetries = 0
    OneProject = TRUE
    MayFail = {}
    FailUntil = 1
    MaxRuns = 2
    MaxCrashes = 1
    External = {"a"}
    MaxAgents = 2
    SessionOf <- OneSession
    ParentOf <- TwoParents
    Messages = {"m"}
    GlobalLaneMax = 2
    SessionLaneMax = 2
    ParentLaneMax = 1
    Buffer = 1
    OutputBytes = 2
    MaxOutput = 4
    MaxDeaths = 1
CHECK_DEADLOCK FALSE
INVARIANTS
    SwarmInv
    ReplayInv
    OneLiveRunPerContract
PROPERTIES
    RunsProgress
    ChildrenReport
    AlarmsDoNotWedge
    ProcessesEnd
