SPECIFICATION FairSpec
CONSTANTS
    Worker = {daemon, panel}
    Daemon = daemon
    daemon = daemon
    panel = panel
    MaxItems = 2
    MaxRetries = 1
    LateAnswers = TRUE
    MaxRows = 2
    MaxFaults = 1
PROPERTY
    OnlyAbortedAreStuck
INVARIANTS
    SentWasDelivered
    AttemptsAreBounded
