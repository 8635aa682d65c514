SPECIFICATION LiveSpec
CONSTANTS
    Fibers = {f1, f2}
    Threads = {t1, t2}
    Reasons = {IO}
    NoReason = NoReason
    Nobody = Nobody
PROPERTIES
    CallsEnd
    Released
