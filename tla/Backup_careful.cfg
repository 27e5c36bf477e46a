SPECIFICATION FairSpec
CONSTANTS
    empty = empty
    one = one
    two = two
    alike = alike
    three = three
    Path = {p}
    Version = {one, two}
    Piece = {"a", "b", "c", "d", "e", "f", "g"}
    Content <- ContentOf
    SegmentSize = 1
    NoFile = NoFile
    CarefulUser = TRUE
    MaxEdits = 3
    MaxRuns = 3
    MaxFailures = 0
CHECK_DEADLOCK FALSE
INVARIANTS
    RecordedIsStored
    RestoresComplete
PROPERTIES
    CatchesUp
