CONSTANTS
    a = a
    b = b
    c1 = c1
    c2 = c2
    c3 = c3
    NoCmd = NoCmd
    Cmds <- Quintet
    Scenarios <- Turns
SPECIFICATION Spec
CHECK_DEADLOCK FALSE
INVARIANTS
    OneRunAtATime
    KilledIsAimed
PROPERTIES
    DeletesSpare
