\* Two handlers and no fault at all.
CONSTANTS
    Announcements = {a1}
    Commands = {c1, c2, c3}
    Approvers = {s1}
    Prefixes <- FullRefs
    Worker = worker
    None = none
    Concurrency = 2
    MaxAttempts = 3
    MaxStalls = 1
    MaxTime = 1
    MaxFaults = 0
SPECIFICATION Spec
PROPERTY StatusMovesForward
CHECK_DEADLOCK FALSE
