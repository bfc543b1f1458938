SPECIFICATION LeasesSpec
CONSTANTS
    Executors = {e1}
    Operators = {o1, o2}
    Free = Free
    TTLs = {1, 2}
    MaxTime = 4
    MaxRevision = 4
    Tokens = {t1, t2}
    TicketTTL = 2
    None = None
INVARIANTS
    LeaseInv
PROPERTIES
    TakeoverSteps
    TakeoversEnd
    FramesResume
    RequestsReturn
    QueueDrains
