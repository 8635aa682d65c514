SPECIFICATION Spec
CONSTANTS
    Threads = {t1, t2}
    Loaders = {t1}
    Names = {n1, n2}
    Types = {int}
    Texts <- ThreeTexts
    Paths <- OnePath
    MaxEvents = 2
    NoFile = NoFile
    f1 = f1
    f2 = f2
    n1 = n1
    n2 = n2
    int = int
    string = string
INVARIANTS
    RecordMeansApplied
    FailureRetried
