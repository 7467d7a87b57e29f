SPECIFICATION BusSpec
CONSTANTS
    e1 = e1  e2 = e2
    c1 = c1  c2 = c2
    k1 = k1
    w1 = w1  w2 = w2
    t1 = t1  t2 = t2
    NoEvent = NoEvent
    Keys = {k1}
    KeyOf <- SharedKey
    WorkerOf <- ByWorker
    Events = {e1, e2}
    Consumers = {c1, c2}
    Order <- InOrder
    Accepts <- Wanted
    Workers = {w1, w2}
    Failing = {e1}
    Child <- Nested
    Callers = {t1, t2}
    MaxAttempts = 2
    QueueSize = 3
    MaxPublications <- Twice
    MaxRedrives = 1
    MaxStops = 1
INVARIANT DrainedStopLosesNothing
CHECK_DEADLOCK FALSE
