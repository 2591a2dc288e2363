SPECIFICATION OrderSpec
CONSTANTS
    Capacity = 1
    Senders = {}
    Receivers = {r1}
    Pushers = {p1, p2}
    Pollers = {}
    Closers = {}
    Driven = {}
    NoValue = NoValue
INVARIANTS
    Fifo
CHECK_DEADLOCK FALSE
