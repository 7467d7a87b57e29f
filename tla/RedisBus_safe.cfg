SPECIFICATION Spec
CONSTANTS
    e1 = e1  e2 = e2  e3 = e3
    s1 = s1  s2 = s2
    k1 = k1  k2 = k2
    w1 = w1  w2 = w2
    n1 = n1  n2 = n2
    a1 = a1  a2 = a2
    Streams = {s1, s2}
    Keys = {k1, k2}
    StreamRank <- Rank
    KeyOf <- SharedKey
    WorkerOf <- ByWorker
    StreamOf <- OneStream
    Events = {e1}
    Nodes = {n1, n2}
    Workers = {w1}
    Admins = {a1}
    Failing = {e1}
    MaxAttempts = 2
    QueueSize = 1
    ReadCount = 1
    MaxMsgs = 3
    MaxCrashes = 1
    MaxErrors = 1
    MaxExpiries = 1
    MaxDuplicates = 1
    MaxStops = 1
    MaxSlow = 1
    MaxAbandons = 1
    MaxFaults = 1
INVARIANTS NoEventLost DedupHasOwner HandlerExclusive DeliveryCountSound
SYMMETRY Symmetry
