SPECIFICATION FairSpec
CONSTANTS
    k1 = k1
    k2 = k2
    k3 = k3
    k4 = k4
    None = None
    Tokens <- FourTokens
    Settings <- AnyBackend
    MaxStale = 1
    Faults <- BothFaults
    Term = 2
    Margin = 1
    Nap = 1
    Budget = 3
INVARIANTS TypeOK TokensAgree StoresAgree FewTokens UnmixedLogsIn
PROPERTIES RenewerServes
CHECK_DEADLOCK FALSE
