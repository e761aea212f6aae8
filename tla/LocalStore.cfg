SPECIFICATION Spec
CONSTANTS
    Procs = {p1, p2, p3}
INVARIANTS
    CommitIsDurable
PROPERTIES
    ImplementsContentStore
