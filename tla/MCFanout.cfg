\* Three recipients, two at a time, a text with one attachment, one retry.
CONSTANTS
    Count = 3
    Parts = 2
    Limit = 2
    MaxRetries = 1
SPECIFICATION FairSpec
INVARIANTS
    TypeOK
    ReportedOnce
    PartsInOrder
    RepeatsAreLostAnswers
PROPERTIES
    FanoutEnds
    KeepsContract
CHECK_DEADLOCK FALSE
