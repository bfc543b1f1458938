SPECIFICATION FairSpec
CONSTANTS
    Clients = {c1, c2}
    Keys = {k1, k2}
    Scopes = {s1}
    Any = Any
    Expectations = {Any, 0, 1}
    Payloads = {p1}
    MaxCalls = 4
    MaxCrashes = 1
CHECK_DEADLOCK FALSE
INVARIANTS
    DispatchInv
PROPERTIES
    CommandsSettleOnce
    CommandsAreAtomic
