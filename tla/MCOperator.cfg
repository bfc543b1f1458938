SPECIFICATION OperatorSpec
CONSTANTS
    Approvals = {a1, a2}
    TTL = 2
    MaxTime = 3
    None = None
    Tabs = {1, 2}
    MaxRevision = 3
    MaxRequests = 4
CHECK_DEADLOCK FALSE
SYMMETRY Symmetry
INVARIANTS
    BrokerInv
    ChatInv
    TerminalSafe
    ControlInv
    MediaSafe
    OfficeSafe
PROPERTIES
    ShellSafe
    StageSafe
    AutonomySafe
