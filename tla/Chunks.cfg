SPECIFICATION ChunksSpec
CONSTANTS
    Size = 1
    MaxPeekSize = 2
    MaxLength = 7
    Files <- AllFiles
    MaxChunkSize = 2
    MaxLineSize = 3
    MaxFileDiffSize = 8
    MaxLines = 2
    Sizes = {1, 3, 4}
    Diffs <- SmallDiffs
INVARIANTS ChunksInOrder CutsAreSafe OffsetsFollowChunks ChunksAreBounded EveryLineIsEmitted FirstContentLinesAreExact
