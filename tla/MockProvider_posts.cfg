\* Two sends to a process that may die, every mode, the failures of the deployment.
CONSTANTS
    s1 = s1  s2 = s2  i1 = i1
    Sends = {s1, s2}
    Instances = {i1}
    NoInstance = NoInstance
    Outcomes <- Rotation
    FailureKinds = {"undelivered", "failed", "rate_limit", "bad_request", "server_error", "timeout"}
    IncludeQueued = TRUE
    MaxRetries = 1
SPECIFICATION FairSpec
INVARIANTS
    TypeOK
    DistinctSids
    KeepsToProtocol
PROPERTY OutcomeIsPosted
CHECK_DEADLOCK FALSE
