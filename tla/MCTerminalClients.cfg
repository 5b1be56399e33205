CONSTANTS
    OutboxLimit = 1
    SocketRoom = 1
    Users <- MCUsers
    Scripts <- MCScripts
    MaxSequence = 5
    Inputs <- MCInputs
    FrameRoom = 2
    PtyRuns = {1, 2}
    PtySessions = {"a", "b"}
    NoCrumb = NoCrumb
    NoSessionDir = NoSessionDir
SPECIFICATION MCSpec
CHECK_DEADLOCK FALSE
INVARIANTS NeverLeftRaw CutsDontMatter ChildSeesPairs PushTells SweepExact
PROPERTIES AttachLeaves
