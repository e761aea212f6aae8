SPECIFICATION Spec
CONSTANTS
    Sessions = {s1, s2}
    States = {x1, x2}
    r1 = r1
    r2 = r2
    Roots = {r1}
    o1 = o1
    o2 = o2
    Objects = {o1, o2}
    FileObjects = {}
    Reach <- MCReach1
    Paths = {p1}
    Levels = {0}
    Times = {0}
    MaxEventSeq = 3
    Clients = {c1, c2}
    None = None
SYMMETRY Symmetry
INVARIANTS
    LineageResolves
    ReadsStayValid
PROPERTIES
    EvidenceIsKept
    ImplementsTimeline
CHECK_DEADLOCK FALSE
