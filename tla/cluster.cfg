SPECIFICATION Spec
CONSTANTS
    a = a
    b = b
    v1 = v1
    v2 = v2
    g1 = g1
    g2 = g2
    i1 = i1
    i2 = i2
    i3 = i3
    i4 = i4
    Pods = {a, b}
    VPAs = {v1, v2}
    Groups = {g1, g2}
    Ids = {i1, i2, i3, i4}
    Proxy = Proxy
    None = None
    Scenarios <- Anything
SYMMETRY Symmetry
INVARIANTS
    TypeOK
    PodCountExact
    LinksExact
    PodCountListed
    ObservedRequestListed
    MarkedIsControlled
