SPECIFICATION Spec
CONSTANTS
    Threads = {t1, t2}
    Values = {a, b, c}
    Default = a
    Nobody = Nobody
    MaxListeners = 2
    MaxSets = 3
    MaxDepth = 2
CHECK_DEADLOCK FALSE
SYMMETRY Symmetry
INVARIANTS
    TypeOK
    OneHistory
    RemovedStaysSilent
PROPERTY
    EveryoneTold
