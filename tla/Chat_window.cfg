SPECIFICATION Spec
CONSTANTS
    Turn = {1, 2}
    Users = {ana, rui}
    Owner = ana
    ana = ana
    rui = rui
    Patch = {p}
    Registered = {"local", "cloud"}
    Stores = {"postgres"}
    Window = 2
    None = None
    MaxPieces = 1
    Wanted <- MCWanted
INVARIANT AsksItsQuestion
CHECK_DEADLOCK FALSE
