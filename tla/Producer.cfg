\* With and without a cache path; with the store, one message left by a previous run; invariants and Close termination.
CONSTANTS
    w1 = w1  w2 = w2  m1 = m1  m2 = m2  m3 = m3
    None = None
    Workers = {w1, w2}
    Msgs = {m1, m2, m3}
    Big = {m3}
    PriorMsgs = {m1}
    QueueSize = 1
    BufSize = 1
    CachePaths = {TRUE, FALSE}
    StoreMayFail = FALSE
    MaxFailures = 2
    MaxTicks = 2
SPECIFICATION FairSpec
INVARIANT TypeOK
INVARIANT AtLeastOnce
INVARIANT NoSendOnClosedQueue
INVARIANT ShutdownDrained
INVARIANT StoreNotUsedAfterClose
INVARIANT MetricsAccountForDequeued
PROPERTY Termination
