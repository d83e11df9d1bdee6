SPECIFICATION FairSpec
CONSTANTS
    g1 = g1
    g2 = g2
    i1 = i1
    i2 = i2
    b1 = b1
    b2 = b2
    None = None
    Nil = Nil
    NoLock = NoLock
    Procs <- TwoProcs
    Ids <- TwoIds
    Bodies <- TwoBodies
    Calls <- AllCalls
INVARIANTS
    NoDataRace
PROPERTIES
    Linearizable
    CallsReturn
