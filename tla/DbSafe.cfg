SPECIFICATION Spec
CONSTANTS
    n1 = n1
    n2 = n2
    s1 = s1
    w1 = w1
    l1 = l1
    l2 = l2
    l3 = l3
    r1 = r1
    r2 = r2
    a = a
    b = b
    bad = bad
    Foreign = Foreign
    None = None
    Names <- Two
    Secrets <- OneSecret
    Target <- SharedTarget
    Defs <- MixedDefs
    Rollouts <- Rollouts12
    Leases <- ThreeLeases
    Faults <- SafetyFaults
    Excluded = {}
    Roles = {r1, r2}
    TemplateKeys = {a, b, bad}
    Broken = {bad}
    Workloads = {w1}
    Bare = {w1}
    Term = 2
    Grace = 1
    Budget = 2
INVARIANTS TypeOK NoOrphan ExpiryIsHonest NoStaleLogin
PROPERTIES CredentialsStay ImplementsCredentials
CHECK_DEADLOCK FALSE
