\* VisibleBytes for n <= 2 over draws that cross a refill of the cache; ceil8 up to 17;
\* two goroutines sharing a MapPool of two live maps, writing a key.
CONSTANTS
    MaxN = 2
    Chunks <- MCChunks
    MaxDraws = 12
    MaxBytesN = 17
    c1 = c1  c2 = c2  p1 = p1  p2 = p2  k1 = k1
    Callers = {c1, c2}
    Maps = {p1, p2}
    Keys = {k1}
    NoMap = NoMap
SPECIFICATION HelpersSpec
INVARIANT VisibleBytesCorrect
INVARIANT BytesCeil8Correct
