CONSTANTS
    r1 = r1
    r2 = r2
    k1 = k1
    k2 = k2
    Reconcilers <- OneReconciler
    Killers <- NoOne
    LaunchSpecs <- EverySpec
    Faults <- ReadyFaults
SPECIFICATION FairSpec
CHECK_DEADLOCK FALSE
PROPERTIES
    AlwaysAnswered
    RunsSettle
