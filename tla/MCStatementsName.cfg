SPECIFICATION Spec
CONSTANTS
    Characters <- SomeCharacters
    Texts <- SomeTexts
    Names <- SomeNames
    FirstNames <- SomeFirstNames
    DEFAULT_THREAD_NAME <- Default
    FormatError <- Error
    Unavailable <- NoMessage
    NativeLength = 2
    MessageCapacity = 2
    PrintfCapacity = 2
    MaxDepth = 3
    MaxLength = 3
    MaxRenames = 1
INVARIANTS
    ViewsValid
CHECK_DEADLOCK FALSE
