SPECIFICATION FairSpec
CONSTANTS
    failed = failed
    accepted = accepted
    undated = undated
    noise = noise
    root = root
    Line <- ReadLines
    EventType <- ReadEventType
    RootLogin = {}
    Dated = {failed, noise}
    Attacker = {root}
    Who <- ReadWho
    JournalFallback = TRUE
    MaxEntries = 1
    MaxLines = 2
    MaxRuns = 2
    MaxOutages = 0
    MaxRotations = 1
    MaxPeriods = 1
PROPERTY
    EventuallySettled
