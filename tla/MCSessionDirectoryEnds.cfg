CONSTANTS
    a = a
    b = b
    c1 = c1
    c2 = c2
    c3 = c3
    NoCmd = NoCmd
    Cmds <- Trio
    Scenarios <- Rivals
SPECIFICATION FairSpec
CHECK_DEADLOCK FALSE
PROPERTIES
    EveryCommandEnds
