SPECIFICATION Spec
CONSTANTS
    Thread = {t1, t2, t3}
    Conn = {c1, c2, c3}
    NoOne = NoOne
    PoolSize = 1
    Stmts = 2
SYMMETRY Alike
INVARIANTS
    TypeOK
    OneHolder
    NoSessionLost
    CleanWhenPooled
    AllOrNothing
CHECK_DEADLOCK FALSE
