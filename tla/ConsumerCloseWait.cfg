\* Does Close wait for a process call in flight?
CONSTANTS
    m1 = m1  m2 = m2  mNone = mNone
    Msgs = {m1, m2}
    None = mNone
    Versions <- MCVersions
    MaxErrors = 1
    MaxRebalances = 1
SPECIFICATION Spec
INVARIANT NoProcessAfterClose
