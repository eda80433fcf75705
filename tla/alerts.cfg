SPECIFICATION Spec
CONSTANTS
    daemon = daemon
    panel = panel
    s1 = s1
    s2 = s2
    Rules = 2
    Evaluator <- AlertEvaluator
    PerSubject = {2}
    Standing = {1}
    Limited = {2}
    Limit = 1
    Threshold <- AlertThreshold
    Window <- AlertWindow
    Dedup <- AlertDedup
    Subject = {s1, s2}
    Runner = {daemon, panel}
    Daemon = daemon
    Period = 1
    Slack = 1
    MaxClock = 5
    MaxFacts = 2
    MaxDelay = 2
    MaxIncidents = 1
SYMMETRY Subjects
INVARIANTS
    TypeOK
    NoticedInTime
    RaisedIsQueued
PROPERTY
    AlertsApart
CHECK_DEADLOCK FALSE
