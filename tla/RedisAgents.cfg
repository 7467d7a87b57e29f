SPECIFICATION PartSpec
CONSTANTS
    e1 = e1  e2 = e2  e3 = e3
    s1 = s1  s2 = s2
    k1 = k1  k2 = k2
    w1 = w1  w2 = w2
    n1 = n1  n2 = n2
    a1 = a1  a2 = a2
    Streams = {s1, s2}
    Keys = {k1, k2}
    StreamRank <- Rank
    KeyOf <- SharedKey
    WorkerOf <- ByWorker
    StreamOf <- OneStream
    Events = {e1, e2}
    Nodes = {n1}
    Workers = {w1, w2}
    Admins = {a1}
    Failing = {e1, e2}
    MaxAttempts = 2
    QueueSize = 1
    ReadCount = 2
    MaxMsgs = 3
    MaxCrashes = 0
    MaxErrors = 0
    MaxExpiries = 0
    MaxDuplicates = 0
    MaxStops = 1
    MaxSlow = 0
    MaxAbandons = 0
    MaxFaults = 1
    x = x
    y = y
    None = None
    Exec = {x, y}
    Agent <- MCAgents
    Capability = {"gather", "documents", "memory", "weather", "note"}
    Skill = {"find", "recall", "remember"}
    Scope = {"read:d", "read:m", "write:m"}
    Goal = {"known", "obscure"}
    Manifest <- MCManifest
    ScopeOf <- MCScopeOf
    Granted = {"read:d", "read:m", "write:m"}
    Specs = {"gather", "documents", "memory", "note"}
    Offered <- MCOffered
    Registered0 <- MCRegistered0
    PlansOf <- MCPlansOf
    LLMPlans <- MCLLMPlans
    MinSteps = 2
    MaxChanges = 2
INVARIANTS KeyOrder StopDrains WithinScopes TreeWithinBudget OneProposal
PROPERTY PortSpec
