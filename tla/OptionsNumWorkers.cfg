\* WithNumWorkers against the worker count NewProducerV2 ends up with.
CONSTANTS
    Ints <- MCInts
    Durs <- MCDurs
    Hosts <- MCHosts
    v1 = v1  v2 = v2
    Vals = {v1, v2}
    MaxOpts = 3
    MaxCalls = 3
    Library = Library
SPECIFICATION DSpec
INVARIANT NumWorkersAsRequested
