SPECIFICATION FairSpec
CONSTANTS
    p1 = p1  p2 = p2  p3 = p3
    Pods = {p1, p2, p3}
    Tolerance <- Half
    DeferredTimeout = 0
    InProgressTimeout = 1
    None = None
    Scenarios <- Updates
INVARIANTS TypeOK
PROPERTIES DisruptionsWithinBudget Converges
