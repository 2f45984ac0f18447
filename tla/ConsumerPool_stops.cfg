\* Both pools, two goroutines, a message and a poison one, two stops.
CONSTANTS
    m1 = m1  m2 = m2  w1 = w1  w2 = w2
    Messages = {m1, m2}
    Poison = {m2}
    Workers = {w1, w2}
    NoReceipt = NoReceipt
    ChannelSize = 1
    MaxMessages = 2
    MaxReceiveCount = 2
    MaxStops = 2
SPECIFICATION FairSpec
INVARIANTS
    TypeOK
    DeletedIsDone
    ReturnedIsQuiet
PROPERTIES
    PoolEnds
    Drains
