SPECIFICATION BothSpec
CONSTANTS
    Versions = {"v1", "v2"}
    Catalogs <- MCCatalogs
    Members <- MCMembers
    Package = "pkg.zip"
    OldFiles <- MCOldFiles
    Attempts = 2
    LengthKnown = FALSE
    Chapters <- SomeChapters
    Directories <- SomeDirectories
    NextPage <- Links
    Blank <- BlankPages
    NoPage <- NoNext
    Limits <- SomeLimits
    InterruptSave = FALSE
INVARIANTS LeavesTheElf NoCutElf NovelIsKept
PROPERTIES SomeElfSurvives DownloadsEnd
