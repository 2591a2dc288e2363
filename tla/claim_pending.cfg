SPECIFICATION Spec
CONSTANTS
    Workers = {w1}
    Main = main
    Wakers = {k1}
    Spawners = {p1, p2}
    Coroutines = {c1, c2, c3}
    Finished = {c3}
    Void = {c2}
    Target <- TargetAll
    Yielders = {c2}
    Turns = 1
    MaxNoProgress = 1
    DrainRounds = 1
    Nobody = Nobody
    None = None
    w1 = w1
    main = main
    k1 = k1
    p1 = p1
    p2 = p2
    c1 = c1
    c2 = c2
    c3 = c3
INVARIANTS
    CountedWhilePending
CHECK_DEADLOCK FALSE
