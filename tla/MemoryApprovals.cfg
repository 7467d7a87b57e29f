CONSTANTS
    k1 = k1
    Nil = Nil
    f = f
    secret = secret
    Conversation = {"c", "d"}
    Call = {k1}
    Id = {1, 2}
    Fact = {f, secret}
    Sensitive = {secret}
    Says <- MCSays
    Before <- MCBefore
    Already <- MCAlready
    Every = 2
    Window = 2
    Horizon = 2
    Postgres = TRUE
    Base = 1
    Full = 3
    Threshold = 2
    MaxAnswers <- MCAnswers
    MaxCalls = 1
    MaxAges = 1
    MaxCrashes = 1
    Nobody = Nobody
    write = write
    search = search
    learned = learned
    ana = ana
    rui = rui
    Requests <- MCRequests
    Proposals <- MCProposals
    Decisions <- MCDecisions
    Users <- MCUsers
    Owner <- MCOwner
    Title <- MCTitle
    Gated <- MCGated
    MaxFailures = 1
    MaxRestarts = 1
SPECIFICATION PartSpec
INVARIANTS OneMemoryPerFact ImportanceEarned  RunsAfterOneYes TrailBeforeRun YesIsExecuted
PROPERTY ConfirmingNeverWidens
CHECK_DEADLOCK FALSE
