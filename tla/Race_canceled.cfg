SPECIFICATION Spec
CONSTANTS
    p1 = p1
    p2 = p2
    Untouched = Untouched
    NoPrice = NoPrice
    Deleted = Deleted
    NoItem = NoItem
    NoDoc = NoDoc
    Prices <- MCPrices
    ItemIds <- OneId
    InitialItems <- OneItem
    UpdateArgs <- NoUpdateBodies
    NumRequests = 2
    MaxInFlight = 2
    MaxResets = 0
PROPERTIES
    CanceledStaysCanceled
CHECK_DEADLOCK FALSE
