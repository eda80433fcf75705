SPECIFICATION Spec
CONSTANTS
    Key = {k1, k2, k3, k4}
    Window = 1
    MaxEntries = 1
    MaxClock = 3
INVARIANTS
    GrowsOnlyWithFreshEvents
PROPERTY
    PassesAreApart
