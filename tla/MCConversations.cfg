SPECIFICATION Spec
CONSTANTS
    c1 = c1
    c2 = c2
    m1 = m1
    m2 = m2
    Convs <- MCConvs
    Messages <- MCMessages
    MaxRuns = 3
    Limit = 1
SYMMETRY Symmetric
INVARIANTS
    TypeOK
    OneWriter
    TurnsAndReportsKept
    PagesAreComplete
PROPERTIES
    RepeatReturnsTheRun
CHECK_DEADLOCK FALSE
