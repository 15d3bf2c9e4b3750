SPECIFICATION Spec
CONSTANTS
    n1 = n1
    n2 = n2
    s1 = s1
    s2 = s2
    w1 = w1
    w2 = w2
    None = None
    Foreign = Foreign
    Names <- Two
    Secrets <- OneSecret
    Target <- SharedTarget
    Defs <- PlainDef
    Rollouts <- Rollouts12
    Faults <- SafetyFaults
    Excluded = {}
    Labels = {}
    Workloads = {w1}
    DbUsers = {n1}
    Bare = {}
    DefaultTTL = 0
    MaxTTL = 1
    MaxErr = 1
    Budget = 4
INVARIANTS TypeOK NoOrphan NoErrorCountLeft LifeInv
PROPERTIES NeverRegresses NoTakeover ImplementsSync
CHECK_DEADLOCK FALSE
