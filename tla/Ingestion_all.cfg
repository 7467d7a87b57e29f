CONSTANTS
    None = None
    Scanned = {f}
    Direct = {g}
    Upload = {u}
    Images = {g}
    Request = {r1, r2}
    Content = {a, b}
    Durable = TRUE
    MaxAttempts = 2
    MaxEdits = 1
    MaxCrashes = 1
    Fragile = {"extract", "embedding"}
    Documents <- MCDocuments
    MaxChunk = 3
    MinChunk = 2
SPECIFICATION Spec
SYMMETRY Symmetry
INVARIANTS IndexedIsCurrent NothingForgotten AttachmentHonest EveryLineKept TrailEncloses
CHECK_DEADLOCK FALSE
