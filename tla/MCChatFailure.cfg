SPECIFICATION CliSpec
CONSTANTS
    Launches <- CliLaunches
    CtxSizes = {15, 21}
    ThinkMaxCtx = 16
    Predict = 2
    Images = {1}
    MaxTurns = 2
INVARIANTS AbandonedUndone
CHECK_DEADLOCK FALSE
