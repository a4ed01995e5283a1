\* Replay order with two concurrent writers, no failures and no restart.
CONSTANTS
    w1 = w1  w2 = w2  m1 = m1  m2 = m2  m3 = m3
    None = None
    Corrupt = Corrupt
    Writers = {w1, w2}
    Msgs = {m1, m2, m3}
    StoreMayFail = FALSE
    MaxRestarts = 0
SPECIFICATION StoreSpec
PROPERTY ReplayInSeqOrder
