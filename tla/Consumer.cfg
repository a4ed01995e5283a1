\* All three implementations, two messages, one client error, one rebalance.
CONSTANTS
    m1 = m1  m2 = m2  mNone = mNone
    Msgs = {m1, m2}
    None = mNone
    Versions <- MCVersions
    MaxErrors = 1
    MaxRebalances = 1
SPECIFICATION FairSpec
INVARIANT CommitCoversProcessed
PROPERTY ShutdownCompletes
