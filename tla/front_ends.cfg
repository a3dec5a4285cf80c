SPECIFICATION FrontSpec
CONSTANTS
    MaxU32 = 4
    Texts <- PageTexts
    SyncLimit = 1
    Sizes = {1, 4}
    Ids = {1, 2}
    Header = 3
    Marker = 2
    UnitCap = 1
    Cap = 2
    ErrCap = 1
    PipeSize = 2
    Buf = 2
    MaxOut = 4
    MaxErr = 3
INVARIANTS
    NoPanicAnywhere
    WaysAgreeAlways
    PdfiumReady
    SuccessIsComplete
    CapIsExact
    NoChildSurvives
    MessageIsWhole
PROPERTIES
    EveryMessageAnswered
    ExtractionEnds
CHECK_DEADLOCK FALSE
