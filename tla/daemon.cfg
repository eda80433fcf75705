SPECIFICATION FairSpec
CONSTANTS
    Pid = {p1, p2}
    NoFile = NoFile
    Empty = Empty
    Tasks = 2
    Interval <- TwoIntervals
    Longest = 2
INVARIANTS
    TypeOK
    OneDaemon
    StatusIsRight
PROPERTIES
    StopsWhenTold
    EveryTaskRuns
CHECK_DEADLOCK FALSE
