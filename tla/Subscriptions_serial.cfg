SPECIFICATION Spec
CONSTANTS
    p1 = p1
    p2 = p2
    Untouched = Untouched
    NoPrice = NoPrice
    Deleted = Deleted
    NoItem = NoItem
    NoDoc = NoDoc
    Prices <- MCPrices
    ItemIds <- TwoIds
    InitialItems <- TwoItemsOrOdd
    UpdateArgs <- WholeUpdates
    NumRequests = 4
    MaxInFlight = 1
    MaxResets = 1
INVARIANTS
    LastEventIsCurrent
PROPERTIES
    CanceledStaysCanceled
    OperationsAreAtomic
CHECK_DEADLOCK FALSE
