CONSTANTS
    Worker = {w1, w2}
    Starter = {s1}
    Closer = {c1, c2}
    JobCall = {j1}
    AttemptCall = {a1}
    Buffer = 2
    BatchSize = 2
    MaxStarts = 2
    Retention = FALSE
    StoreFails = TRUE
SYMMETRY MCSymmetry
SPECIFICATION Spec
INVARIANTS TypeOK Accounting StoreInOrder CloseFlushes StrandedBound OkMeansRecording
PROPERTIES RetiredIsFinal RecorderSpec
