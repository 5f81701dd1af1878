\* One fault, one handler at a time.
CONSTANTS
    Announcements = {a1}
    Commands = {c1, c2, c3}
    Approvers = {s1}
    Prefixes <- FullRefs
    Worker = worker
    None = none
    Concurrency = 1
    MaxAttempts = 3
    MaxStalls = 1
    MaxTime = 1
    MaxFaults = 1
SPECIFICATION Spec
INVARIANT BroadcastIsAudited
CHECK_DEADLOCK FALSE
