\* Every constructor with up to three option calls; the redis and aerospike handles for up to three operations.
CONSTANTS
    Ints <- MCInts
    Durs <- MCDurs
    Hosts <- MCHosts
    v1 = v1  v2 = v2
    Vals = {v1, v2}
    MaxOpts = 3
    MaxCalls = 3
    Library = Library
SPECIFICATION DSpec
INVARIANT QueueSizeAsRequested
PROPERTY AsPoliciesAsRequested
