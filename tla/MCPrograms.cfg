SPECIFICATION ProgramsSpec
CONSTANTS
    InputBytes <- Typed
    Candidates <- Offers
    HistFile <- SavedHistory
    BufMax = 5
    FoldMax = 2
    HistMax = 3
    PendMax = 4
    FoldLen = 3
    HistFoldLen = 4
    HistFoldLines = 3
    HistCtx = 1
    Cols = 3
    PromptWidth = 2
    FoldWidth = 1
    StatusRange = {0, 1}
    AddWhileEditing = FALSE
    MaxKeys = 4
    Replies <- ServerReplies
    MaxSegment = 6
    Calls = {0, 1}
    Tries = 1
    MaxPages = 2
    MaxWire = 1
    MaxLate = 1
    ContextIds = {5, 9}
    Letters = {"A", "B"}
    Digits = {"1", "2"}
    Lower = {"w", "not"}
    CoreCases <- CoreSuite
    HardCases <- HardSuite
    Runs <- EvalRuns
    MaxContext = 14
    ThinkMaxMin = 8
    KeyPresses = 3
    MaxRuns = 4
    Launches <- CliLaunches
    CtxSizes = {15, 21}
    ThinkMaxCtx = 16
    Predict = 2
    Images = {1}
    MaxTurns = 2
    MaxText <- TextLengths
    MaxChunk = 2
    Window = 7
    MinText = 3
    CheckEvery = 2
    MaxLines = 4
    ExactRun = 2
    NearRun = 3
    ExactMin = 1
    NearMin = 2
    NearSlack = 1
    Periods = {2, 3}
    Repeats = 2
    MinTotal = 4
    MinDistinct = 2
    ActionBudget = 1
    LeakEvery = 3
    Restarts = 2
    Inputs <- Ggufs
    Workers = {w1, w2}
    ChunkRows = 2
    Alignment = 4
    MetaSize = 5
    Q4Last = 1
    MaxCtx = 5
    MaxGen = 2
    MaxIncr = 2
    Draft = 2
    Muls <- StepMuls
    Setups <- Machines
    CtxBytes <- ContextBytes
    Gib = 4
    Max64 = 1023
    Max32 = 63
    Fixed = 10
    NExpert = 4
    NUsed = 2
    Margin = 4
    LockChunk = 5
    SessionIds = {1, 2, 3}
    Rooms = {0, 1, 2, 5, 63}
INVARIANTS
    FoldsExact ScreenIsPrompt
    ReplyAsSent OwnAnswer NothingLeftBehind
    CasesAccounted AnswerRoom RegradeAgrees
    ChatExact ScansExact OutputWhole RowsTrue MemoryKept
CHECK_DEADLOCK FALSE
