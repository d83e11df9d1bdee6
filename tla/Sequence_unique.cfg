SPECIFICATION Spec
CONSTANTS
    g1 = g1
    g2 = g2
    g3 = g3
    Goroutines <- TwoGoroutines
    MaxEvents = 3
    MaxTime = 2
CHECK_DEADLOCK FALSE
INVARIANTS
    Unique
