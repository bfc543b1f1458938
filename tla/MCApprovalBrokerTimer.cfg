SPECIFICATION Spec
CONSTANTS
    Approvals = {a1}
    TTL = 2
    MaxTime = 3
CHECK_DEADLOCK FALSE
INVARIANTS
    DeniedWasNotApproved
