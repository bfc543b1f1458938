SPECIFICATION MCWorkSpec
CONSTANTS
    ItemOrder <- ThreeItems
    DependsOn <- ThreeDependsOn
    Reads <- ThreeReads
    Writes <- ThreeWrites
    Contracts = {c1}
    Usages = {1, 2}
    MaxParallel = 2
    Share = 1
    Limit = 6
    ProjectLimit = 6
    MaxRetries = 2
    OneProject = FALSE
    MayFail = {"first", "a", "last"}
    FailUntil = 1
    MaxRuns = 1
    MaxCrashes = 1
    External = {"a"}
    Criteria = {"x", "y"}
    PlanItems = {"i", "j"}
    Plans <- TwoPlans
    Artifacts = {"a"}
    Gates <- TwoGates
    Planners = {"p", "q"}
    MaxWrites = 4
    MaxSnapshot = 1
    NoSelection = NoSelection
    Instances = {1, 2}
    MaxCalls = 1
    MaxDeaths = 1
    Paths <- TwoFiles
    Contents = {1, 2}
    Absent = 0
    Patches <- TwoPatches
    MaxPatches = 2
    MaxEdits = 1
    MaxRevision = 3
CHECK_DEADLOCK FALSE
INVARIANTS
    RunInv
    PortfolioSafe
    OneProcessPerName
    PatchInv
    StudioSafe
PROPERTIES
    RunSteps
    AlarmsSafe
    DeliverySafe
