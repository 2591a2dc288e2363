SPECIFICATION RuntimeFairSpec
CONSTANTS
    Capacity = 0
    Senders = {late}
    Receivers = {kept, ran}
    Pushers = {}
    Pollers = {}
    Closers = {closer}
    Driven = {late, ran}
    Late = {late}
    NoValue = NoValue
    Workers = {w1, w2}
    Nothing = Nothing
    late = late
    kept = kept
    ran = ran
    closer = closer
    w1 = w1
    w2 = w2
INVARIANTS
    WakeupsAreHandles
    OneHandle
PROPERTIES
    ImplementsChannel
    QueuedEnds
CHECK_DEADLOCK FALSE
