CONSTANTS
    Writers = {1, 2}
    Names = {1, 2}
    Accepted = {1, 2}
    BookmarkEvery = 1
    Setups <- EverySetup
    WatchOptions <- MCWatchOptions
    WatchRuns = 2
    WatchLines = 2
    WatchEvents = 2
SPECIFICATION MCSpec
CHECK_DEADLOCK FALSE
INVARIANTS
    CursorExact
    LogSound
    WatchFaithful
