CONSTANTS
    Parts = {"recorder", "effects"}
    Limits <- MCLimits
    MaxSequence = 4
    MaxOutput = 3
    MaxResizes = 2
    MaxFailures = 2
    MaxChanges = 3
    MaxFaults = 1
SPECIFICATION MCSpec
CHECK_DEADLOCK FALSE
INVARIANTS
    CrashReadable
    ReportedEnd
    ResizeFirst
    MetaFollows
PROPERTIES
    KeepsContract
