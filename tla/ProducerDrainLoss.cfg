\* A transient failure answered while the worker is closing.
CONSTANTS
    w1 = w1  w2 = w2  m1 = m1  m2 = m2  m3 = m3
    None = None
    Workers = {w1, w2}
    Msgs = {m1, m2}
    Big = {}
    PriorMsgs = {}
    QueueSize = 1
    BufSize = 1
    CachePaths = {TRUE}
    StoreMayFail = FALSE
    MaxFailures = 1
    MaxTicks = 0
SPECIFICATION Spec
SYMMETRY WorkerSymmetry
INVARIANT NoSilentLoss
