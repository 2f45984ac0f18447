\* A request and its repetition, all the way to the outcome.  VisibilityTimeout exceeds
\* StaleAfter + ClaimWithin, unlike in main.go:129, for AcceptedEnds.
CONSTANTS
    r1 = r1  r2 = r2  t1 = t1  k1 = k1  p1 = p1
    delivered = delivered
    Requests = {r1, r2}
    Tenant <- OneTenant
    IdemKey <- OneKey
    To <- OnePhone
    MaxPerDay = 2
    LastDay = 0
    ApiFaults = {"database", "crash"}
    Workers = {w1}
    NoMessage = NoMessage
    VisibilityTimeout = 3
    StaleAfter = 1
    MaxReceiveCount = 2
    ClaimWithin = 1
    HandleWithin = 1
    WorkerFaults = {}
    Callbacks = {delivered}
    About <- AllAbout
    Sid <- AllSid
    Status <- AllStatus
    Handlers = {h1}
    Processors = {}
    NoCallback = NoCallback
    UseQueue = FALSE
    MaxUpdates = 1
    MaxPosts = 1
    MaxReceive = 1
    MaxFaults = 1
SPECIFICATION FairSpec
INVARIANTS
    OneSendPerKey
    RefusedIsNotSent
    OutcomeIsApplied
    DeliveredIsConfirmed
PROPERTIES
    ImplementsLifecycle
    AcceptedEnds
CHECK_DEADLOCK FALSE
