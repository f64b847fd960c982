CONSTANTS
    Worker = {w1}
    Starter = {s1}
    Closer = {c1, c2}
    JobCall = {}
    AttemptCall = {a1}
    Buffer = 2
    BatchSize = 2
    MaxStarts = 2
    Retention = TRUE
    StoreFails = TRUE
SPECIFICATION FairSpec
PROPERTIES CloseReturns BufferedSettles GoroutinesExit
