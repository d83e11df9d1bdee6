SPECIFICATION Spec
CONSTANTS
    basic = basic
    pro = pro
    yearly = yearly
    free = free
    lost = lost
    Keep = Keep
    Deleted = Deleted
    None = None
    Prices <- FivePrices
    Stored <- FourKnown
    Amount <- Amounts
    Cadence <- Cadences5
    Length <- Lengths
    Plans <- SomePlans
    Given <- SomeTimes
    Asked <- AnyUpdate
    Behaviors <- AllBehaviors
    Scale = 1000
    MaxTime = 8
    MaxChanges = 2
    MaxRenewals = 1
CHECK_DEADLOCK FALSE
INVARIANTS
    DueIsBounded
    DifferenceIsPaid
PROPERTIES
    ChangingBackRefunds
