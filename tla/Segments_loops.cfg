SPECIFICATION Spec
CONSTANTS
    SegmentSize = 4
    ChunkSize = 3
    SumSize = 5
    IntWidth = 5
    Sizes <- SizesChosen
    NoFile = NoFile
    NoRow = NoRow
    NoSize = NoSize
    MaxUploads = 2
CHECK_DEADLOCK FALSE
INVARIANTS
    SegmentsAddUp
    RestoredIsGenuine
    RestoresWhatFits
