CONSTANTS
    Conns = {1, 2, 3}
    InputCapacity = 1
    ControlCapacity = 2
    ViewerCapacity = 1
    MaxConnections = 2
    MaxEpoch = 3
    PtyRoom = 1
    Setups <- EverySetup
SPECIFICATION Spec
CHECK_DEADLOCK FALSE
INVARIANTS
    ControlTold
    InputAccounted
PROPERTIES
    SupersededIsSilent
    SuccessorKeepsViewer
    ControlNeverStuck
