SPECIFICATION Spec
CONSTANTS
    MapKeys = {"updated", "applied", "team", "app"}
    MapValues = {"a", "b"}
    LastUpdated = "updated"
    LastApplied = "applied"
    Now = "b"
    Second = 4
    minBackoff = 12
    maxBackoff = 480
    Limit = 2048
    Beyond = 19
    MaxErrors = 24
    Spaces = {"a", "b", "c"}
    NoName = "none"
INVARIANTS
    MatchIsEquality MatchIsFair DelayInRange NamespaceTable
    FailuresAreReported SomeHostSuffices DatabasesAreIndependent LeaseIdReturns
PROPERTIES SettlesUnlessStale DelayGrows
CHECK_DEADLOCK FALSE
