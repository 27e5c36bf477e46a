SPECIFICATION Spec
CONSTANTS
    empty = empty
    one = one
    two = two
    Path = {p, q}
    Version = {one, two}
    Segs <- SegsOf
    Worker = {w1, w2}
    NoFile = NoFile
    NoRow = NoRow
    NoMeta = NoMeta
    Torn = Torn
    SingleWriter = TRUE
    MaxJobs = 3
    MaxCrashes = 1
    MaxErrors = 1
CHECK_DEADLOCK FALSE
SYMMETRY StoreSymmetry
INVARIANTS
    TypeOK
    RowDescribesFile
    RowCountsSegments
    UploadedIsStored
PROPERTIES
    ImplementsStore
