SPECIFICATION MCSpec
CONSTANTS
    Turn = {1, 2}
    Users = {ana, rui}
    Owner = ana
    ana = ana
    rui = rui
    Patch = {p}
    Registered = {"local", "cloud"}
    Stores = {"memory", "postgres"}
    Window = 2
    None = None
    MaxPieces = 1
    Wanted <- MCWanted
INVARIANTS NoCloudWithoutConsent AnswerKept AsksWhatFits StopReaches
PROPERTY StopIsHeard
CHECK_DEADLOCK FALSE
