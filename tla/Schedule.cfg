SPECIFICATION Spec
CONSTANTS
    j1 = j1
    j2 = j2
    r1 = r1
    r2 = r2
    None = None
    Job <- TwoJobs
    Run <- TwoRuns
    JobOf <- OfTheFirst
    Refusable <- TheSecond
    Team <- TheSecond
SYMMETRY Symmetry
CHECK_DEADLOCK FALSE
INVARIANTS
    TimersFollowRecords
    OneRunAtATime
    StopHolds
    ChannelsShut
    NothingLeftPaused
