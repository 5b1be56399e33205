CONSTANTS
    a = a
    b = b
    c1 = c1
    c2 = c2
    c3 = c3
    NoCmd = NoCmd
    Cmds <- Pair
    Scenarios <- Onlookers
SPECIFICATION Spec
CHECK_DEADLOCK FALSE
PROPERTIES
    OrphanSpares
