SPECIFICATION Spec
CONSTANTS
    DepthLimit = 2
    MaxLength <- SomeLengths
    Alphabet <- SomeAlphabet
    Nodes <- SomeNodes
    IntTypes <- SomeIntTypes
    Types <- SomeTypes
INVARIANTS
    Utf8Exact
    WideExact
    NumbersExact
    ConversionStable
    MembersExact
    ParseFaithful
CHECK_DEADLOCK FALSE
