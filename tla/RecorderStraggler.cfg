SPECIFICATION Spec
CONSTANTS
    Options <- MCDeaf
    Faults = FALSE
    MaxOut = 1
    MaxWrites = 0
    MaxTime = 1
    MaxEmits = 1
INVARIANTS
    EndIsNeverOvertaken
