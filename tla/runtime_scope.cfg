SPECIFICATION TimelyFairSpec
CONSTANTS
    Users = {u1}
    Workers = {w1, w2}
    Late = {l1}
    Scopes = {s1, s2, s3}
    MaxSchedulers = 3
    u1 = u1
    w1 = w1
    w2 = w2
    l1 = l1
    s1 = s1
    s2 = s2
    s3 = s3
INVARIANTS
    NoCallIntoDeleted
    SchedulerWhileScope
    NoOrphan
PROPERTIES
    UserGoesOn
CHECK_DEADLOCK FALSE
