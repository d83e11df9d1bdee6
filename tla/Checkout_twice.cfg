SPECIFICATION Spec
CONSTANTS
    r1 = r1
    r2 = r2
    s1 = s1
    None = None
    Requests <- TwoRequests
    Sessions <- OneSession
    MaxResets = 0
CHECK_DEADLOCK FALSE
INVARIANTS
    OneSubscription
