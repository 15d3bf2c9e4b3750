SPECIFICATION FairSpec
CONSTANTS
    n1 = n1
    n2 = n2
    s1 = s1
    s2 = s2
    w1 = w1
    w2 = w2
    None = None
    Foreign = Foreign
    Names <- One
    Secrets <- OneSecret
    Target <- SingleTarget
    Defs <- PlainDef
    Rollouts <- NoRollouts1
    Faults <- WriteFault
    Excluded = {}
    Labels = {}
    Workloads = {}
    DbUsers = {}
    Bare = {}
    DefaultTTL = 0
    MaxTTL = 1
    MaxErr = 1
    Budget = 1
PROPERTIES Converges
CHECK_DEADLOCK FALSE
