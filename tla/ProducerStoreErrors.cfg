\* leveldb Put and Delete may fail: logged losses and duplicate records.
CONSTANTS
    w1 = w1  w2 = w2  m1 = m1  m2 = m2  m3 = m3
    None = None
    Workers = {w1, w2}
    Msgs = {m1, m2}
    Big = {m2}
    PriorMsgs = {m1}
    QueueSize = 1
    BufSize = 1
    CachePaths = {TRUE}
    StoreMayFail = TRUE
    MaxFailures = 1
    MaxTicks = 1
SPECIFICATION Spec
SYMMETRY WorkerSymmetry
INVARIANT TypeOK
INVARIANT AtLeastOnce
INVARIANT ShutdownDrained
