SPECIFICATION Spec
CONSTANTS
    h1 = h1
    h2 = h2
    k1 = k1
    k2 = k2
    t1 = t1
    t2 = t2
    part = part
    star = star
    Star = star
    Keep = Keep
    NoHook = NoHook
    Gone = Gone
    Patterns <- MCPatterns
    Contains <- MCContains
    Hooks <- OneHook
    Types <- OneType
    Filters <- OneFilter
    UpdateOpts <- NoOpts
    Triggers <- TwoTriggers
    Untracked <- LastTrigger
    Admins <- NoAdmins
    MaxAttempts = 1
    ListLimit = 1
    MaxChanges <- OneEach
    Responsive <- OneHook
INVARIANTS
    NoSubmitAfterStop
CHECK_DEADLOCK FALSE
