SPECIFICATION EditSpec
CONSTANTS
    InputBytes <- Typed
    Candidates <- Offers
    HistFile <- SavedHistory
    BufMax = 4
    FoldMax = 2
    HistMax = 3
    PendMax = 4
    FoldLen = 3
    HistFoldLen = 4
    HistFoldLines = 3
    HistCtx = 1
    Cols = 3
    PromptWidth = 2
    FoldWidth = 1
    StatusRange = {0, 1}
    AddWhileEditing = TRUE
    MaxKeys = 3
INVARIANT LatestEntryIsEdit
CHECK_DEADLOCK FALSE
