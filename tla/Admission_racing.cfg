\* Two requests race for a key, a third for the last place under the cap; every fault.
CONSTANTS
    r1 = r1  r2 = r2  r3 = r3  t1 = t1  t2 = t2  k1 = k1  k2 = k2  p1 = p1
    NoMessage = NoMessage
    To <- OnePhone
    Requests = {r1, r2, r3}
    Tenant <- RacingTenant
    IdemKey <- RacingKey
    MaxPerDay = 1
    LastDay = 1
    Faults = {"database", "queue", "crash"}
SPECIFICATION Spec
INVARIANTS
    TypeOK
    OneJobPerKey
    WithinDailyCap
    SuppressedIsNotSent
    StrandedIsKnown
PROPERTIES
    WithdrawnIsNotSent
    ImplementsLifecycle
CHECK_DEADLOCK FALSE
