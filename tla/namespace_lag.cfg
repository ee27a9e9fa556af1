SPECIFICATION Spec
CONSTANTS
    n1 = n1  n2 = n2  d1 = d1  d2 = d2  g1 = g1  g2 = g2  m1 = m1
    p1 = p1  p2 = p2  u1 = u1  u2 = u2  r1 = r1  r2 = r2  i1 = i1  w1 = w1  w2 = w2
    Present = Present  Absent = Absent  None = None
    NoTarget = NoTarget  InvalidPattern = InvalidPattern
    Namespaces = {n1}
    Deployments = {d1}
    VPANames = {g1}
    ManualVPANames = {}
    RegexNames = {r1}
    IgnoreRules = {}
    Policies = {p1}
    Modes = {u1}
    Workers = {w1}
    Timestamps = {1}
    Patterns <- FirstOnly
    NamespaceOf <- AllInFirst
    VPANamespace <- VPAsInFirst
    GeneratedName <- OwnName
    Scenarios <- FromNothing
    MaxRetries = 1
    MaxBacklog = 2
INVARIANTS QuiescentConverged
CHECK_DEADLOCK FALSE
