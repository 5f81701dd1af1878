\* One handler at a time, and no symmetry, which liveness would not bear.
CONSTANTS
    Announcements = {a1}
    Commands = {c1, c2, c3}
    Approvers = {s1}
    Prefixes <- FullRefs
    Worker = worker
    None = none
    Concurrency = 1
    MaxAttempts = 2
    MaxStalls = 1
    MaxTime = 1
    MaxFaults = 1
SPECIFICATION FairSpec
PROPERTIES
    CommandsEnd
    ApprovedIsSent
CHECK_DEADLOCK FALSE
