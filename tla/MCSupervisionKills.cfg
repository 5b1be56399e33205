CONSTANTS
    r1 = r1
    r2 = r2
    k1 = k1
    k2 = k2
    Reconcilers <- OneReconciler
    Killers <- TwoKillers
    LaunchSpecs <- TimedSpecs
    Faults <- KillFaults
SPECIFICATION Spec
CHECK_DEADLOCK FALSE
CONSTRAINT TwoAtATime
SYMMETRY KillerSymmetry
INVARIANTS
    KillClassified
