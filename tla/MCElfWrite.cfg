SPECIFICATION WriteSpec
CONSTANTS
    Sections <- MCSections
    Segments <- MCSegments
    Objects <- MCObjects
    HeaderSize = 20
    EntrySize = 10
    Wrap = 1048576
    MaxPos = 4096
    MaxSaves = 3
    MaxEdits = 0
    EditedObjects <- MCEdited
    EditedSaves = 2
    EditedEdits = 2
    Names <- MCNames
    HashOf <- MCHashOf
    Loaded <- MCLoaded
    NoHash = NoHash
    NoName = "none"
    Values = {8}
    Offsets = {3}
    Addends = {1}
    Types = {2, 6}
    TypeSpan = 256
    InfoSpan = 16777216
    WordBits = 32
    MaxSymbols = 4
    MaxRelocs = 2
CHECK_DEADLOCK FALSE
INVARIANTS NoOverlapAbove AtTheirAddress PlacedRight
PROPERTIES SymbolsFollow WritesEnd
