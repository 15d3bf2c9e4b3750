SPECIFICATION FairSpec
CONSTANTS
    n1 = n1
    n2 = n2
    s1 = s1
    s2 = s2
    w1 = w1
    w2 = w2
    None = None
    Foreign = Foreign
    Names <- Two
    Secrets <- TwoSecrets
    Target <- OwnTarget
    Defs <- TwoDefs
    Rollouts <- Rollouts12
    Faults <- RetriedFaults
    Excluded = {n2}
    Labels = {}
    Workloads = {w1}
    DbUsers = {n1}
    Bare = {w1}
    DefaultTTL = 0
    MaxTTL = 1
    MaxErr = 1
    Budget = 3
INVARIANTS NoLostWork
PROPERTIES Converges DeletionCompletes
CHECK_DEADLOCK FALSE
