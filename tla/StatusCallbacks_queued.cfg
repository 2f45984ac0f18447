\* Queue mode: one outcome posted, and perhaps queued, twice.
CONSTANTS
    m1 = m1  sent = sent  delivered = delivered  undelivered = undelivered
    h1 = h1  h2 = h2  p1 = p1  p2 = p2
    Messages = {m1}
    SidOf <- OneSid
    About <- AllAbout
    Sid <- AllSid
    Status <- AllStatus
    NoCallback = NoCallback
    Callbacks = {delivered}
    Handlers = {h1, h2}
    Processors = {p1, p2}
    UseQueue = TRUE
    MaxUpdates = 1
    MaxPosts = 2
    MaxReceive = 2
    MaxFaults = 2
SPECIFICATION FairSpec
INVARIANT AckedIsKept
PROPERTY QueueDrains
CHECK_DEADLOCK FALSE
