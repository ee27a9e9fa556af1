SPECIFICATION FairSpec
CONSTANTS
    v1 = v1  v2 = v2  v3 = v3  p1 = p1  p2 = p2  r1 = r1  r2 = r2
    s1 = s1  s2 = s2  w1 = w1  w2 = w2
    None = None  Nothing = Nothing  Empty = Empty
    VPAs = {v1}
    Policies = {p1, p2}
    Requests = {r1, r2}
    Selectors = {s1, s2}
    Workers = {w1}
    InitialVPAs <- AllFresh
    InitialPolicies <- AllPolicies
    InitialTargets <- AllTargets
    FirstUid = 3
    Coverage = 2
    Allowed = {"vpa", "assign", "policy", "invalid", "target", "fault", "restart"}
    MaxSteps = 2
PROPERTIES HistoryKept ImplementsContract Converges
