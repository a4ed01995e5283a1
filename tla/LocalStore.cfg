\* Two concurrent writers, three messages, one crash and reopen, failing writes.
CONSTANTS
    w1 = w1  w2 = w2  m1 = m1  m2 = m2  m3 = m3
    None = None
    Corrupt = Corrupt
    Writers = {w1, w2}
    Msgs = {m1, m2, m3}
    StoreMayFail = TRUE
    MaxRestarts = 1
SPECIFICATION StoreSpec
SYMMETRY WriterSymmetry
INVARIANT TypeOK
INVARIANT WrittenKept
PROPERTY ImplementsOverflowStore
