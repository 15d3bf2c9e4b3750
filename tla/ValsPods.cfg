SPECIFICATION SpecRollouts
CONSTANTS
    n1 = n1
    s1 = s1
    w1 = w1
    w2 = w2
    None = None
    Foreign = Foreign
    Names <- One
    Secrets <- OneSecret
    Target <- SingleTarget
    Defs <- PlainDef
    Rollouts <- Rollouts2
    Faults <- CutShortFaults
    Excluded = {}
    Labels = {"team"}
    Workloads = {w1, w2}
    DbUsers = {n1}
    Bare = {w2}
    DefaultTTL = 0
    MaxTTL = 0
    MaxErr = 0
    Budget = 3
PROPERTIES PodsCatchUp DatabasesCatchUp RolloutsCease SettledIsLeftAlone
CHECK_DEADLOCK FALSE
