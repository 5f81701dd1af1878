\* Three messages handled one after the other; no fault.
CONSTANTS
    Messages = {m1, m2, m3}
    Refs <- ShortRefs
    Concurrency = 1
    MaxAttempts = 3
    MaxStalls = 1
    MaxFaults = 0
SPECIFICATION Spec
PROPERTY EscalationsMoveForward
CHECK_DEADLOCK FALSE
