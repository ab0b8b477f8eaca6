SPECIFICATION FairSpec
CONSTANTS
    DefaultInterval = 2
    DefaultExpiry = 9
    SlowDown = 2
    HttpTimeout = 1
    Intervals = {0, 1, 3}
    Lifetimes = {4, 9, 10}
    MaxTime = 24
INVARIANTS TypeOK LoopIsBounded ApprovalIsSeen
PROPERTIES PollsArePaced LoopEnds
CHECK_DEADLOCK FALSE
