SPECIFICATION KvSpec
CONSTANTS
    k1 = k1
    k2 = k2
    k3 = k3
    s1 = s1
    s2 = s2
    Keys <- TwoKeys
    NoKey = NoKey
    Servers <- Pids
    CtxOf <- Contexts
    Tokens <- KeyLength
    Bytes <- KeyLength
    MapBytes = 1
    Budget = 1
    Shared = FALSE
    MaxClock = 1
    MaxHits = 1
PROPERTY FreshKept
