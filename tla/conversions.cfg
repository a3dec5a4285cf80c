SPECIFICATION ConverterSpec
CONSTANTS
    MaxU32 = 2
    Selections <- PdfSelections
    Limits <- PdfLimits
    MaxFormDepth = 2
    MinSuspects = 2
    Width = 5
    Height = 4
    Rotations = {0, 90, 180, 270}
    Matrices <- PdfMatrices
    Boxes <- PdfBoxes
    Glyphs <- PdfGlyphs
    MaxPages = 2
    PdfFuel = 6
    MaxEntries = 15
    MaxEntrySize = 3
    MaxTotalSize = 23
    MaxRatio = 2
    Decks <- SampleDecks
    Attributes = {"size", "bold"}
    Default <- SlideDefault
    MaxTextLevel = 2
    AutoRow = 2
    MaxGroupDepth = 2
    Layers <- SlideLayers
    Placeholders <- SlidePlaceholders
    MasterStyles <- SlideMasterStyles
    Externals = {1}
    Shapes <- SlideShapes
    Pictures <- SlidePictures
    Frames <- SlideFrames
    Groups <- SlideGroups
    SlideFuel = 4
    MaxDepth = 4
    MaxNodes = 6
    MaxBranches = 1
    Supported = {"w"}
    Grammar <- XmlContent
    MaxEvents = 10
    TextsWithin = 3
    Documents <- MarkdownDocuments
    MaxRulings = 12
    MaxSeparators = 4
    MaxAlignLines = 30
    MaxBuckets = 300
    Numberings <- SampleNumberings
    MaxLevel = 2
    NumIds = {1, 2, 3, 4, 5, 6}
    AskedLevels = {0, 1, 2, 3}
    MaxNumber = 4000
    MaxItems = 4
    Pages <- FragmentedPages
    MinElements = 3
    MaxNesting = 1
    MaxSpan = 2
    Spans = {0, 1, 3}
    MaxColumn = 2
    TableFuel = 6
INVARIANTS
    PagesExact
    ObjectsExact
    TextGrouped
    PackageRead
    TextWritten
    TablesExact
    ReadingOrder
    LabelsCounted
CHECK_DEADLOCK FALSE
