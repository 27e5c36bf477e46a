SPECIFICATION FairSpec
CONSTANTS
    Path = {p1, p2}
    Sender = {s1, s2}
    Watcher = watcher
    NoThread = nobody
    Capacity = 3
    NotifyBelow = 2
    MaxOps = 4
CHECK_DEADLOCK FALSE
PROPERTIES
    QueuedIsServed
    AddReturns
    StopReleasesAwake
