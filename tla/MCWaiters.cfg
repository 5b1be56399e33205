CONSTANTS
    After <- MCAfter
    Scenarios <- MCScenarios
    Queries <- MCQueries
    NoTail = NoTail
    MaxLines = 3
    Execs = {1, 2}
    Plans <- MCPlans
    DrainMargin = 5
    Parts = {"wait", "log", "exec"}
SPECIFICATION MCSpec
CHECK_DEADLOCK FALSE
INVARIANTS DependencyJustified WaitHonest FollowFaithful ShellNotShared AnswerIsOwn
PROPERTIES NobodyWaitsForever
