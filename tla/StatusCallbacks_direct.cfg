\* Direct mode: a callback on the way and two outcomes, each posted twice.
CONSTANTS
    m1 = m1  sent = sent  delivered = delivered  undelivered = undelivered
    h1 = h1  h2 = h2  p1 = p1  p2 = p2
    Messages = {m1}
    SidOf <- OneSid
    About <- AllAbout
    Sid <- AllSid
    Status <- AllStatus
    NoCallback = NoCallback
    Callbacks = {sent, delivered, undelivered}
    Handlers = {h1, h2}
    Processors = {}
    UseQueue = FALSE
    MaxUpdates = 2
    MaxPosts = 2
    MaxReceive = 1
    MaxFaults = 1
SPECIFICATION FairSpec
INVARIANTS
    TypeOK
    AckedIsApplied
    AppliedIsStored
PROPERTY StoredIsApplied
CHECK_DEADLOCK FALSE
