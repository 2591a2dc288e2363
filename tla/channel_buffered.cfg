SPECIFICATION FairSpec
CONSTANTS
    Capacity = 1
    Senders = {s1, s2}
    Receivers = {r1, r2}
    Pushers = {p1, p2}
    Pollers = {q1}
    Closers = {k1, k2}
    Driven = {r1}
    NoValue = NoValue
INVARIANTS
    TypeOK
    ExactlyOnce
    NothingLost
    WaiterIsSuspended
    WokenOnce
    RecvTruth
PROPERTIES
    ClosedAdmitsNothing
    KeepsContract
CHECK_DEADLOCK FALSE
