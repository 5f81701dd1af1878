\* Two handlers at once; every command may be a draft or an approval.
CONSTANTS
    Announcements = {a1}
    Commands = {c1, c2, c3}
    Approvers = {s1}
    Prefixes <- FullRefs
    Worker = worker
    None = none
    Concurrency = 2
    MaxAttempts = 2
    MaxStalls = 1
    MaxTime = 1
    MaxFaults = 2
SPECIFICATION Spec
SYMMETRY Symmetric
INVARIANTS
    TypeOK
    NeverUnapproved
    BroadcastMeansSent
    AuditsMatchFanouts
    RepliesTruthful
    JobsAreApproved
    FanoutsHaveCauses
    MissingAuditsHaveCauses
PROPERTIES
    ApprovalIsFinal
    KeepsContract
CHECK_DEADLOCK FALSE
