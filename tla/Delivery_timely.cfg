\* Workers that return before their claim goes stale; every fault.
CONSTANTS
    m1 = m1  w1 = w1  w2 = w2
    Messages = {m1}
    Workers = {w1, w2}
    NoMessage = NoMessage
    VisibilityTimeout = 2
    StaleAfter = 2
    MaxReceiveCount = 3
    ClaimWithin = 0
    HandleWithin = 2
    Faults = {"database", "transport", "crash"}
SPECIFICATION Spec
SYMMETRY WorkerSymmetry
INVARIANTS
    TypeOK
    UnclaimedIsPristine
    AuditTrail
    Exclusive
    SubmittedIsNewest
PROPERTIES
    SettledStays
    ImplementsLifecycle
