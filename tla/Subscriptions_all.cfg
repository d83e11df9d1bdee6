SPECIFICATION FairSpec
CONSTANTS
    p1 = p1
    p2 = p2
    Untouched = Untouched
    NoPrice = NoPrice
    Deleted = Deleted
    NoItem = NoItem
    NoDoc = NoDoc
    Prices <- MCPrices
    ItemIds <- OneId
    InitialItems <- OneItem
    UpdateArgs <- SomeUpdates
    NumRequests = 3
    MaxInFlight = 2
    MaxResets = 1
INVARIANTS
    DocumentsCoherent
    EventsOfSuccessOnly
    CreatedAnnouncedFirst
PROPERTIES
    SuccessIsAnnounced
    LifecycleCompletes
CHECK_DEADLOCK FALSE
