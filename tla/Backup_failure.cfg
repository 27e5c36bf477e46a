SPECIFICATION Spec
CONSTANTS
    empty = empty
    one = one
    two = two
    alike = alike
    three = three
    Path = {p}
    Version = {one}
    Piece = {"a", "b", "c", "d", "e", "f", "g"}
    Content <- ContentOf
    SegmentSize = 1
    NoFile = NoFile
    CarefulUser = TRUE
    MaxEdits = 1
    MaxRuns = 1
    MaxFailures = 1
CHECK_DEADLOCK FALSE
INVARIANTS
    RecordedIsStored
