SPECIFICATION Spec
CONSTANTS
    Fibers = {f1, f2}
    Threads = {t1, t2, t3}
    Reasons = {IO}
    NoReason = NoReason
    Nobody = Nobody
SYMMETRY Symmetry
INVARIANTS
    TypeOK
    SingleHolder
    CurrentIdentity
    ResumeReturns
    WaitReasonExact
    HandleMatchesState
    ExceptionKept
    NoCrash
    NoUseAfterFree
    CountExact
PROPERTY
    Refines
