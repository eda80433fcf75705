SPECIFICATION Spec
CONSTANTS
    failed = failed
    accepted = accepted
    undated = undated
    noise = noise
    root = root
    Line <- StoreLines
    EventType <- StoreEventType
    RootLogin = {accepted}
    Dated = {accepted}
    Attacker = {root}
    Who <- StoreWho
    JournalFallback = FALSE
    MaxEntries = 1
    MaxLines = 2
    MaxRuns = 2
    MaxOutages = 1
    MaxRotations = 1
    MaxPeriods = 2
INVARIANTS
    TypeOK
    SavedIsSettled
    StoredOncePerWindow
    StatsAreDeduplicated
PROPERTY
    ImplementsEventTable
