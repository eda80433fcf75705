SPECIFICATION FairSpec
CONSTANTS
    Worker = {daemon}
    Daemon = daemon
    daemon = daemon
    panel = panel
    MaxItems = 1
    MaxRetries = 1
    LateAnswers = FALSE
    MaxRows = 1
    MaxFaults = 1
PROPERTY
    EventuallyDecided
