SPECIFICATION PartsSpec
CONSTANTS
    Convs = {c1}
    Ctx = 2
    SlotCount = 2
    k1 = k1
    k2 = k2
    k3 = k3
    s1 = s1
    s2 = s2
    Keys <- TwoKeys
    NoKey = NoKey
    Servers <- Pids
    CtxOf <- Contexts
    Tokens <- KeyLength
    Bytes <- KeyLength
    MapBytes = 1
    Budget = 1
    Shared = TRUE
    MaxClock = 1
    MaxHits = 0
INVARIANTS
    TypeOK TurnExclusive PendingCounted RequestInOnePlace AnswerMatchesSession InFlightOwned
    CheckpointsWhole WriterKeepsTmp
PROPERTIES TurnsApproach FreshOutlivesOlder
CHECK_DEADLOCK FALSE
SYMMETRY KeySymmetry
VIEW Guards
