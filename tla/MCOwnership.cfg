SPECIFICATION ServerSafety
CONSTANTS
    Convs = {0}
    Ctx = 2
    SlotCount = 1
    Jobs = {1}
    NoJob = 0
    Leaving = Leaving
    ScoreValues = {0}
    Conv <- MCConv
    PromptLen <- ShortPrompts
    MaxTokens = 1
    Quantum = 2
    MixedQuantum = 1
    Signals = TRUE
INVARIANT WorkerOwnsSession
