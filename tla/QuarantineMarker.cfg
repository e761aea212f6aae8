SPECIFICATION Spec
CONSTANTS
    Procs = {p1, p2}
INVARIANTS
    NoSilentHeal
