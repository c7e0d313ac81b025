SPECIFICATION StructuresSpec
CONSTANTS
    Jobs = {j1, j2, j3, j4}
    NoJob = NoJob
    Leaving = Leaving
    ScoreValues = {0, 1}
    SlotCount = 2
    k1 = k1
    k2 = k2
    k3 = k3
    s1 = s1
    s2 = s2
    Keys <- ThreeKeys
    NoKey = NoKey
    Servers <- Pids
    CtxOf <- Contexts
    Tokens <- KeyLength
    Bytes <- KeyLength
    MapBytes = 1
    Budget = 2
    Shared = FALSE
    MaxClock = 2
    MaxHits = 1
    Clients = {c1, c2, c3}
    Models = {m1, m2}
    NoModel = NoModel
    CallIds = {i1, i2, i3}
    Texts = {1, 4}
    NoText = NoText
    TextBytes <- TwoTexts
    EntryBytes = 1
    MaxEntries = 2
    MaxBytes = 6
    MaxCalls = 2
    MaxOps = 4
    Strings <- RaxKeys
    Ops <- RaxSeeks
    Null = 0
    Data = {0, 1}
    NoString = NoString
    InlineSlots = 2
    NodeMax = 3
    Spell <- Spelling
    TokensOf <- Greedy
    Histories <- SessionTokens
    StorePrompts <- Prompted
    Engines <- StoreEngines
    MinTokens = 1
    Trim = 0
    Align = 0
    Interval = 2
    Reject = TRUE
    StoreBudget = 14
    HeaderBytes = 1
    TokenBytes = 1
    TrailerBytes = 2
    MaxTime = 1
INVARIANTS
    JobHeldOnce
    BudgetKept OrphansSwept
    ServedByOneModel RecallExact
    TreeIsMap CursorOrdered NodesExact
    LoadSpellsPrompt StoredIsFound StoreWithinBudget
PROPERTY ServiceImplemented
CHECK_DEADLOCK FALSE
