SPECIFICATION Spec
CONSTANTS
    empty = empty
    one = one
    two = two
    alike = alike
    three = three
    Path = {p}
    Version = {empty, two, three}
    Piece = {"a", "b", "c", "d", "e", "f", "g"}
    Content <- ContentOf
    SegmentSize = 2
    NoFile = NoFile
    CarefulUser = FALSE
    MaxEdits = 2
    MaxRuns = 2
    MaxFailures = 1
CHECK_DEADLOCK FALSE
INVARIANTS
    StoredWasOnDisk
