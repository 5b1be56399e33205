CONSTANTS
    r1 = r1
    r2 = r2
    k1 = k1
    k2 = k2
    Reconcilers <- TwoReconcilers
    Killers <- NoOne
    LaunchSpecs <- EverySpec
    Faults <- AllFaults
SPECIFICATION Spec
CHECK_DEADLOCK FALSE
SYMMETRY ReconcilerSymmetry
INVARIANTS
    OneWriter
    TypeOK
    ChildAccounted
    LogDecides
    ObservedMeansReaped
    AnswerHolds
PROPERTIES
    TerminalFinal
    ImplementsLifecycle
