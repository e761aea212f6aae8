SPECIFICATION Spec
CONSTANTS
    Sessions = {s1}
    States = {x1, x2, x3}
    r1 = r1
    r2 = r2
    Roots = {r1, r2}
    o1 = o1
    o2 = o2
    Objects = {o1, o2}
    FileObjects = {o1}
    Reach <- MCReach
    Paths = {p1}
    Levels = {0}
    Times = {0, 1}
    MaxEventSeq = 5
    Clients = {c1}
    None = None
SYMMETRY Symmetry
INVARIANTS
    TypeOK
    OrderedLog
    StateLineage
    TerminalClosesSession
    ArtifactProvenance
CHECK_DEADLOCK FALSE
