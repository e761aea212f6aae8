SPECIFICATION Spec
CONSTANTS
    p1 = p1
    p2 = p2
    s1 = s1
    s2 = s2
    Procs = {p1, p2}
    States = {s1, s2}
    Wanted <- MCWanted
    Parts = 2
    MaxChanges = 2
INVARIANTS
    NeverPartial
    UserDataIsKept
    NoLitter
    ExactBranch
PROPERTIES
    OnlyForceReplaces
