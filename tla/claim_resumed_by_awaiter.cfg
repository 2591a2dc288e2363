SPECIFICATION Spec
CONSTANTS
    Capacity = 1
    Senders = {}
    Receivers = {r1}
    Pushers = {p1}
    Pollers = {}
    Closers = {}
    Driven = {r1}
    NoValue = NoValue
INVARIANTS
    ResumedByAwaiter
CHECK_DEADLOCK FALSE
