\* Overlapping receipts with slack between the three timeouts; failing
\* statements and dying pods.
CONSTANTS
    m1 = m1  w1 = w1  w2 = w2
    Messages = {m1}
    Workers = {w1, w2}
    NoMessage = NoMessage
    VisibilityTimeout = 3
    StaleAfter = 1
    MaxReceiveCount = 2
    ClaimWithin = 1
    HandleWithin = 0
    Faults = {"database", "crash"}
SPECIFICATION FairSpec
INVARIANT NoLoss
PROPERTY ComesToRest
