SPECIFICATION PanelSpec
CONSTANTS
    Items <- MCItems
    AddrOf <- MCAddrOf
    SizeOf <- MCSizeOf
    AddrSpace = 5
    Bytes = {0, 1}
    Encodings <- MCEncodings
    Chunk = 2
    MaxWatch <- MCMaxWatch
    Targets = {TRUE, FALSE}
    Word = 3
    CodecTypes <- MCTypes
    CodecDatas <- MCDatas
    CodecTexts <- MCTexts
INVARIANTS NumbersAccepted
