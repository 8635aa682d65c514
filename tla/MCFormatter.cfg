SPECIFICATION Spec
CONSTANTS
    Threads = {t1, t2}
    Records <- SomeRecords
    Patterns <- SomePatterns
    FirstPattern <- PlainPattern
    Tokens <- Words
    Numeral <- ToString
    DateText <- SomeDateText
    Unrepresentable <- Refused
    DEFAULT_DATE_FORMAT <- Short
    MICROSECONDS_WIDTH = 1
    TicksPerMicro = 2
    TicksPerMilli = 5
    FirstCapacity = 4
    MAX_BUFFER_SIZE = 8
    RecordCapacity = 3
INVARIANTS
    TypeOK
PROPERTIES
    RecordExact
    FormatEnds
