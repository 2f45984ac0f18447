\* No fault but the answers of the provider.
CONSTANTS
    m1 = m1  w1 = w1  w2 = w2
    Messages = {m1}
    Workers = {w1}
    NoMessage = NoMessage
    VisibilityTimeout = 2
    StaleAfter = 2
    MaxReceiveCount = 3
    ClaimWithin = 1
    HandleWithin = 1
    Faults = {}
SPECIFICATION Spec
INVARIANT TransientNotRefused
