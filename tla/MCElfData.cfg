SPECIFICATION DataSpec
CONSTANTS
    o1 = o1
    o2 = o2
    Bytes = {"a", "b", "z"}
    Zero = "z"
    Junk = "junk"
    Files <- SectionFiles
    Inputs <- Settings
    Words <- Added
    Ops = {"load", "get", "free", "set", "insert", "string", "save"}
    ReadFirst = TRUE
    MaxSize = 4
    MaxWord = 4
    Objs = {o1, o2}
    DiskFiles = {"a", "b"}
    Disk <- MCDisk
    Missing = Missing
    NoStream = NoStream
    Texts = {"text", "lost", "none", "empty", "new", "hole", "segment", "junk"}
    LazyModes = {TRUE, FALSE}
    MaxParts = 1
    MaxSaves = 1
    Given <- MCGiven
    Targets = {"out"}
    Garbage = "garbage"
    NoName = "none"
    Absent = Absent
    NameLength <- MCNameLength
    SymbolLength <- MCSymbolLength
    Size <- MCSize
    MaxMembers = 2
    MaxReloads = 1
    a1 = a1
    a2 = a2
    Accs = {a1, a2}
    Tables <- MCLoaded
    Numbers = {0, 3}
    Entries <- MCEntries
    Notes <- MCNotes
    Attributes <- MCAttributes
    Swap <- MCSwap
    Valueless = {0, 16}
    CountTag = 9
    MaxEntries = 3
INVARIANTS SectionKept ObjectReadsRight ArchiveReadsBack TablesRead
PROPERTIES SectionImplements
SYMMETRY Symmetric
CHECK_DEADLOCK FALSE
