SPECIFICATION FairSpec
CONSTANTS
    Senders = 2
    Worker = {w1, w2}
    Free = free
    Failing = {1}
    Pauses = FALSE
    ServerMayStop = FALSE
CHECK_DEADLOCK FALSE
INVARIANTS
    WatchdogNeverCollides
    OnePlacePerConnection
PROPERTIES
    RequestsAnswered
    IdleChannelsClosed
