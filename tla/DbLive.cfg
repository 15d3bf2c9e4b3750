SPECIFICATION FairSpec
CONSTANTS
    n1 = n1
    n2 = n2
    s1 = s1
    w1 = w1
    l1 = l1
    l2 = l2
    l3 = l3
    r1 = r1
    r2 = r2
    a = a
    b = b
    bad = bad
    Foreign = Foreign
    None = None
    Names <- One
    Secrets <- OneSecret
    Target <- SingleTarget
    Defs <- PlainDefs
    Rollouts <- Rollouts1
    Leases <- ThreeLeases
    Faults <- RetriedFaults
    Excluded = {}
    Roles = {r1, r2}
    TemplateKeys = {a, b, bad}
    Broken = {bad}
    Workloads = {w1}
    Bare = {}
    Term = 2
    Grace = 1
    Budget = 2
PROPERTIES CredentialsReturn DeletionCompletes PodsCatchUp TemplateApplied
CHECK_DEADLOCK FALSE
