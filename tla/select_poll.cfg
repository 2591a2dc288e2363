SPECIFICATION FairSpec
CONSTANTS
    x1 = x1
    x2 = x2
    x3 = x3
    a1 = a1
    b1 = b1
    b2 = b2
    b3 = b3
    Capacity = 1
    Senders = {s1}
    Receivers = {r1}
    Pushers = {b1, b2}
    Pollers = {a1, b3}
    Closers = {k1, k2}
    Driven = {}
    NoValue = NoValue
    OnB = {b1, b2, b3, r1, k2}
    Selects = {x1, x2, x3}
    Awaited = {x2}
    Cases <- CasesOfThree
    WithDefault = {x3}
    Default = Default
INVARIANTS
    OneEffect
    MissesOnlyWithRivals
PROPERTIES
    SelectReturns
CHECK_DEADLOCK FALSE
