SPECIFICATION DeliverySpec
CONSTANTS
    daemon = daemon
    panel = panel
    s1 = s1
    s2 = s2
    Worker = {daemon}
    Daemon = daemon
    MaxItems = 1
    MaxRetries = 1
    LateAnswers = FALSE
    MaxRows = 2
    MaxFaults = 1
    Rules = 2
    Evaluator <- DeliveryEvaluator
    PerSubject = {1, 2}
    Standing = {}
    Limited = {2}
    Limit = 1
    Threshold <- DeliveryThreshold
    Window <- DeliveryWindow
    Dedup <- DeliveryDedup
    Subject = {s1, s2}
    Runner = {daemon, panel}
    Period = 1
    Slack = 0
    MaxClock = 2
    MaxFacts = 2
    MaxDelay = 1
    MaxIncidents = 1
SYMMETRY Subjects
INVARIANTS
    TypeOK
    DeliveredAtMostOnce
    ToldOnce
    ToldInTime
PROPERTY
    ImplementsOutbox
CHECK_DEADLOCK FALSE
