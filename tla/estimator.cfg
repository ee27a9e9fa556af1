SPECIFICATION Spec
CONSTANTS
    c1 = c1
    p1 = p1
    p2 = p2
    None = None
    Containers = {c1}
    Specs <- MCSpecs
    Usages <- MCUsages
    Requests = {0, 25}
    Minima = {25}
    RoundsUp <- MCRoundsUp
    RoundsDown <- MCRoundsDown
    MaxTime = 4
    MaxFed = 3
    Pods = {p1, p2}
INVARIANTS
    TypeOK
    WindowExact
    LearnsFromCoveredWindow
    NearestRank
    BoundsOrdered
    RulesInOrder
