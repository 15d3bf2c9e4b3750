SPECIFICATION FairSpec
CONSTANTS
    k1 = k1
    k2 = k2
    k3 = k3
    k4 = k4
    None = None
    Tokens <- FourTokens
    Settings <- OneRole
    MaxStale = 1
    Faults <- DownFault
    Term = 2
    Margin = 1
    Nap = 1
    Budget = 2
PROPERTIES TokenReturns
CHECK_DEADLOCK FALSE
