SPECIFICATION FairSpec
CONSTANTS
    n1 = n1
    n2 = n2
    s1 = s1
    s2 = s2
    w1 = w1
    w2 = w2
    None = None
    Foreign = Foreign
    Names <- One
    Secrets <- OneSecret
    Target <- SingleTarget
    Defs <- LabelDefs
    Rollouts <- Rollouts1
    Faults <- NoFaults
    Excluded = {}
    Labels = {"team"}
    Workloads = {w1}
    DbUsers = {}
    Bare = {}
    DefaultTTL = 0
    MaxTTL = 1
    MaxErr = 1
    Budget = 3
PROPERTIES RolloutOnlyOnChange
CHECK_DEADLOCK FALSE
