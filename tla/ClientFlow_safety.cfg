SPECIFICATION FairSpec
CONSTANTS
    Senders = 2
    MaxAttempts = 1
    MaxPending = 1
    ServerAnswers = TRUE
CHECK_DEADLOCK FALSE
INVARIANTS
    ChannelNotTaken
PROPERTIES
    StopCompletes
