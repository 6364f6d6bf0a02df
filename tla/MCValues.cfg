SPECIFICATION ValueSpec
CONSTANTS
    Programs <- LookupPrograms
    Tables <- MCTables
    Queries <- LookupQueries
    Depth = 2
    Ends <- EndsWith
    NoName = ""
    NoRef <- NoReference
    NoLoc <- None
    NoSize <- None
    NoIndex <- None
    MaxChain = 2
INVARIANTS LookupsAgree HandleAnswersRight TextReadsBack
