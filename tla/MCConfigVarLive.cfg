SPECIFICATION FairSpec
CONSTANTS
    Threads = {t1, t2}
    Values = {a, b}
    Default = a
    Nobody = Nobody
    MaxListeners = 2
    MaxSets = 2
    MaxDepth = 2
CHECK_DEADLOCK FALSE
PROPERTY
    CallsReturn
