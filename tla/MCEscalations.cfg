\* Three messages, two handled at a time; one fault.
CONSTANTS
    Messages = {m1, m2, m3}
    Refs <- ShortRefs
    Concurrency = 2
    MaxAttempts = 2
    MaxStalls = 1
    MaxFaults = 1
SPECIFICATION Spec
SYMMETRY Symmetric
INVARIANTS
    TypeOK
    EscalationsCostFaults
    OmissionsCostFaults
    BlocksOnRecord
    RepliesTruthful
    ChangesOnRecord
    DoneMeansHeard
CHECK_DEADLOCK FALSE
