CONSTANTS
    Worker = {w1, w2}
    Starter = {s1}
    Closer = {c1, c2}
    JobCall = {j1}
    AttemptCall = {a1}
    Buffer = 2
    BatchSize = 2
    MaxStarts = 2
    Retention = FALSE
    StoreFails = FALSE
SYMMETRY MCSymmetry
SPECIFICATION Spec
INVARIANT CloseFlushesAlways
