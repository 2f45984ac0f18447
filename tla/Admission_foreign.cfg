\* Two tenants that choose one key; no fault.
CONSTANTS
    r1 = r1  r2 = r2  r3 = r3  t1 = t1  t2 = t2  k1 = k1  k2 = k2  p1 = p1
    NoMessage = NoMessage
    To <- OnePhone
    Requests = {r1, r2}
    Tenant <- ForeignTenant
    IdemKey <- ForeignKey
    MaxPerDay = 1
    LastDay = 0
    Faults = {}
SPECIFICATION Spec
INVARIANT QueuedIsSent
CHECK_DEADLOCK FALSE
