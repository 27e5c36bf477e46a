SPECIFICATION FairSpec
CONSTANTS
    empty = empty
    one = one
    two = two
    Path = {p, q}
    Version = {two}
    Segs <- SegsOf
    Worker = {w1, w2}
    NoFile = NoFile
    NoRow = NoRow
    NoMeta = NoMeta
    Torn = Torn
    SingleWriter = FALSE
    MaxJobs = 3
    MaxCrashes = 0
    MaxErrors = 0
CHECK_DEADLOCK FALSE
INVARIANTS
    WriterKeepsDirectory
    GuardsReleased
PROPERTIES
    RequestsAnswered
