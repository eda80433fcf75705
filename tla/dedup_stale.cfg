SPECIFICATION Spec
CONSTANTS
    Key = {k1, k2}
    Window = 1
    MaxEntries = 2
    MaxClock = 3
INVARIANT
    DuplicatesAreRecent
