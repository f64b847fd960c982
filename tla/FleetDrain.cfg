CONSTANTS
    e1 = e1  e2 = e2  j1 = j1
    Epoch = {e1, e2}
    Job = {j1}
    Owner <- MCOwner
    EnqueuedAt <- MCEnqueuedAt
    Outcome = {"completed", "abandoned"}
    Buffer = 2
    Interval = 1
    StaleAfter = 4
    MaxMisses = 1
    Lag = 0
    StartDelay = 1
    Skew <- MCSkew
    MaxSkew = 1
    RetentionAge = 2
    MaxClock = 7
SPECIFICATION Spec
CHECK_DEADLOCK FALSE
INVARIANT InterruptedWasUnrecorded
