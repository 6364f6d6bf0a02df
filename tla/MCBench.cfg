SPECIFICATION BenchSpec
CONSTANTS
    Channels = {1, 2}
    Retry = 2
    MaxCalls = 4
    Paced = TRUE
    None = None
    Types <- MCTypes
    Bytes = {0, 1}
    Chunk = 6
    Lists <- SomeLists
    Tails <- SomeTails
    Ids <- SomeIds
    Values <- SomeValues
    Cases <- Testcases
    Configs <- TestConfigs
    Alike <- Resembling
    Accepts <- Holds
CHECK_DEADLOCK FALSE
INVARIANTS OwnAnswer RecordIsKept PassMeansPassed
PROPERTIES BenchCallsEnd
