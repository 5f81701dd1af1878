\* Three complaints, two handled at a time; one New Year; one fault.
CONSTANTS
    Messages = {m1, m2, m3}
    Concurrency = 2
    MaxAttempts = 3
    MaxStalls = 1
    MaxYear = 1
    MaxFaults = 1
SPECIFICATION Spec
SYMMETRY Symmetric
INVARIANTS
    TypeOK
    NumberedInOrder
    AttemptsCostFaultsOrTickets
    TicketsAndAuditsCostFaults
    RacesLoseNothing
CHECK_DEADLOCK FALSE
