\* Two payloads, two handled at a time; one fault; a removal.
CONSTANTS
    a = a
    p1 = p1
    p2 = p2
    Payloads = {p1, p2}
    Phones = {a}
    Contents <- SomeContents
    MaxDeliveries = 2
    MaxResidents = 2
    Answers = {"security", "prose"}
    Scores = {20, 80}
    MinConfidence = 50
    Concurrency = 2
    MaxAttempts = 2
    MaxStalls = 1
    MaxFaults = 1
SPECIFICATION Spec
INVARIANTS
    TypeOK
    PrivateThreads
    AttemptsHaveCauses
    RepeatsCostTries
    CompletedMeansAnswered
    GuardedIsEscalated
SYMMETRY PayloadSymmetry
CHECK_DEADLOCK FALSE
