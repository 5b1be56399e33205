CONSTANTS
    After <- MCAfter
    Scenarios <- MCScenarios
    Queries <- MCQueries
    NoTail = NoTail
    MaxLines = 3
    Execs = {1, 2}
    Plans <- MCPlans
    DrainMargin = 5
    Parts = {"log"}
SPECIFICATION MCSpec
CHECK_DEADLOCK FALSE
INVARIANTS FollowDrains
