SPECIFICATION Spec
CONSTANTS
    root = root
    left = left
    right = right
    one = one
    two = two
    small = small
    link = link
    fifo = fifo
    Root = root
    Blocks = 2
    MaxChanges = 2
    Inodes <- MCInodes
    Large <- MCLarge
    Names <- MCNames
    Initial <- MCInitial
INVARIANTS
    DirectoriesAreInstants
    TreesAreAccepted
    NoFalseAlarm
