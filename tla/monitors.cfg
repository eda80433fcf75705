SPECIFICATION Spec
CONSTANTS
    daemon = daemon
    p1 = p1
    p2 = p2
    d1 = d1
    d2 = d2
    s1 = s1
    s2 = s2
    s3 = s3
    Panel = {p1, p2}
    Daemon = daemon
    Period = 1
    MaxClock <- MCMaxClock
    MaxCalls <- MCMaxCalls
    MaxChanges <- MCMaxChanges
    MaxFaults = 1
    MaxPresent = 1
    Path = {"cert"}
    Domain = {d1, d2}
    Expiry = {4, 8}
    DayLen = 2
    CriticalDays = 2
    WarnDays = 3
    Slack = 1
    Unit = {"sshd", "nginx"}
    Enabled = {"sshd"}
    Jail = {"sshd", "web"}
    MaxBans = 2
    IP = {"a", "b"}
    Known <- MCKnown
    Session = {s1, s2, s3}
    Skipped = 2
SYMMETRY Alike
CHECK_DEADLOCK FALSE
INVARIANTS
    TypeOK
    BadgeTrailsDays
    RowsFollowFiles
    WarnedBeforeLastDay
    LatestTellsState
    CachedIsComplete
    ListIsSandwiched
PROPERTY
    TotalsGrow
