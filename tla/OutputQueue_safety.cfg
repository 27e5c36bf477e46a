SPECIFICATION Spec
CONSTANTS
    Path = {p1, p2}
    Sender = {s1, s2, s3}
    Watcher = watcher
    NoThread = nobody
    Capacity = 3
    NotifyBelow = 2
    MaxOps = 5
SYMMETRY SenderSymmetry
CHECK_DEADLOCK FALSE
INVARIANTS
    TypeOK
    HeldOpStaysQueued
    OneSenderPerPath
    ReservedPathsExact
    AbortIffSuperseded
    NewestSurvives
    WakeupsSuffice
    WatcherNotForgotten
PROPERTIES
    CompletedInOrder
    ImplementsMailbox
