SPECIFICATION MCFairSpec
CONSTANTS
    h1 = h1
    h2 = h2
    k1 = k1
    k2 = k2
    t1 = t1
    t2 = t2
    part = part
    star = star
    Star = star
    Keep = Keep
    NoHook = NoHook
    Gone = Gone
    Patterns <- MCPatterns
    Contains <- MCContains
    Hooks <- TwoHooks
    Types <- AllTypes
    Filters <- PartOrAll
    UpdateOpts <- Switches
    Triggers <- TwoTriggers
    Untracked <- NoTriggers
    Admins <- OneAdmin
    MaxAttempts = 2
    ListLimit = 2
    MaxChanges <- ThreeAndOne
    Responsive <- TwoHooks
INVARIANTS
    DeliveredInOrder
    TasksAccountedFor
    DrainCompletes
    EachSubscriberOnce
PROPERTIES
    AcknowledgedIsFinal
    DeletedIsSilent
    TasksEnd
    DrainEnds
CHECK_DEADLOCK FALSE
