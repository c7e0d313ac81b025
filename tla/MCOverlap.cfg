SPECIFICATION ServerSafety
CONSTANTS
    Convs = {0}
    Ctx = 3
    SlotCount = 2
    Jobs = {1, 2}
    NoJob = 0
    Leaving = Leaving
    ScoreValues = {0}
    Conv <- MCConv
    PromptLen <- ShortPrompts
    MaxTokens = 1
    Quantum = 2
    MixedQuantum = 1
    Signals = FALSE
INVARIANT OneModelExecutor
