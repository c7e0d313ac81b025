SPECIFICATION RaxMapSpec
CONSTANTS
    Strings <- RaxKeys
    Ops <- RaxSeeks
    Null = 0
    Data = {0, 1}
    NoString = NoString
    InlineSlots = 2
    NodeMax = 3
INVARIANTS RecompressionFits
CHECK_DEADLOCK FALSE
