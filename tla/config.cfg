SPECIFICATION Spec
CONSTANTS
    Thread = {t1, t2, t3}
    NoThread = NoThread
    Key = {k1, k2}
    Value = {default, set}
    default = default
    set = set
    Default <- AllDefault
    Torn = Torn
    MaxFaults = 1
SYMMETRY Alike
INVARIANTS
    TypeOK
    SettingsSurvive
