CONSTANTS
    None = None
    Scanned = {f}
    Direct = {g}
    Upload = {}
    Images = {g}
    Request = {r1, r2}
    Content = {a, b}
    Durable = TRUE
    MaxAttempts = 2
    MaxEdits = 1
    MaxCrashes = 0
    Fragile = {}
    Documents <- MCDocuments
    MaxChunk = 3
    MinChunk = 2
SPECIFICATION Spec
INVARIANT NeverStaleForGood
CHECK_DEADLOCK FALSE
