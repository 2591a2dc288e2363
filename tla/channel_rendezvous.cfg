SPECIFICATION FairSpec
CONSTANTS
    Capacity = 0
    Senders = {s1, s2}
    Receivers = {r1, r2}
    Pushers = {p1}
    Pollers = {q1}
    Closers = {k1, k2}
    Driven = {s1, r1}
    NoValue = NoValue
INVARIANTS
    OneSideWaits
    ClosedQuiet
PROPERTIES
    ClosedReleases
CHECK_DEADLOCK FALSE
