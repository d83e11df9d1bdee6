SPECIFICATION FairSpec
CONSTANTS
    r1 = r1
    r2 = r2
    s1 = s1
    None = None
    Requests <- TwoRequests
    Sessions <- OneSession
    MaxResets = 1
CHECK_DEADLOCK FALSE
INVARIANTS
    RefusedStaysSilent
    LinksLead
PROPERTIES
    CompletionIsFinal
    CompletionIsAnnounced
    PurchaseIsBilled
