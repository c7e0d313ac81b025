SPECIFICATION ServerSpec
CONSTANTS
    Convs = {0, 1}
    Ctx = 3
    SlotCount = 1
    Jobs = {1, 2}
    NoJob = 0
    Leaving = Leaving
    ScoreValues = {0}
    Conv <- MCConv
    PromptLen <- MixedPrompts
    MaxTokens = 1
    Quantum = 2
    MixedQuantum = 1
    Signals = TRUE
PROPERTIES ShutdownCompletes TurnsImplemented
