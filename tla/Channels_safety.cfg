SPECIFICATION Spec
CONSTANTS
    Senders = 2
    Worker = {w1}
    Free = free
    Failing = {1, 2}
    Pauses = TRUE
    ServerMayStop = TRUE
CHECK_DEADLOCK FALSE
INVARIANTS
    AnswersGoToAsker
    OnePlacePerConnection
