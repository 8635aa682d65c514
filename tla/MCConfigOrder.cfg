SPECIFICATION Spec
CONSTANTS
    Threads = {t1, t2}
    Loaders = {t1}
    Names = {n1, n2}
    Types = {int, string}
    Texts <- AllTexts
    Paths <- TwoPaths
    MaxEvents = 0
    NoFile = NoFile
    f1 = f1
    f2 = f2
    n1 = n1
    n2 = n2
    int = int
    string = string
INVARIANTS
    TypeOK
    OneObject
PROPERTY
    LastPathWins
