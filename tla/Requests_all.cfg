SPECIFICATION FairSpec
CONSTANTS
    Unset = Unset
    NoDoc = NoDoc
    NumRequests = 3
    MaxInFlight = 2
    MaxTime = 1
    Inputs <- MCInputs
CHECK_DEADLOCK FALSE
INVARIANTS
    RefusedLeavesNothing
    EventTellsAnswer
    StoreStaysBare
    UpdatesAccumulate
    ExpandedAsAsked
    EventsSort
PROPERTIES
    SuccessIsTold
