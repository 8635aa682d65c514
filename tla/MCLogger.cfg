SPECIFICATION Spec
CONSTANTS
    Threads = {t1, t2}
    Loggers = {net}
    Root = root
    Appenders = {out, file}
    Stdout = out
    Files = {file}
    Levels = {1, 5}
    Fatal = 5
    Nothing = Nothing
    MaxRecords = 1
    MaxChanges = 2
SYMMETRY Symmetry
INVARIANTS
    TypeOK
    LoopUndisturbed
    FatalFlushed
PROPERTIES
    WrittenExactly
    StayersServed
    OwnRecordsSafe
