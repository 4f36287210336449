SPECIFICATION FairSpec
CONSTANTS
    Keys = {"k1", "k2", "cn"}
    Blobs = {"x", "y", "z", "b", "t", "u"}
    Scripts <- MCScripts
    B = 2
    NoKey = "none"
    MaxFound = 1
INVARIANTS
    TypeOK
    TagsMatch
    TerminalLast
    RxMemoryValid
    PositionReported
PROPERTIES
    CommandsInOrder
    CloseEnds
CHECK_DEADLOCK FALSE
