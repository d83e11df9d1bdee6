SPECIFICATION FairSpec
CONSTANTS
    j1 = j1
    j2 = j2
    s1 = s1
    None = None
    Jobs <- TwoJobs
    Subs <- OneSub
    Kinds <- AllKinds
    MaxResets = 1
CHECK_DEADLOCK FALSE
INVARIANTS
    NothingHalfBilled
    EventsFollowStore
    StoriesAreTold
PROPERTIES
    InvoicesAdvance
    ResetForgets
    JobsEnd
