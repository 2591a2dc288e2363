SPECIFICATION FairSpec
CONSTANTS
    Descriptors = {f1, f2}
    Sources = {s1, s2, s3}
    Fd <- FdShared
    Masks = {{"read", "timeout"}}
    Signals = {"read"}
    Reused = {f1}
    NoSource = NoSource
    Timers = {t1, t2}
    Delay <- DelayTwo
    Tick = 2
    MaxScan = 1
    IntMax = 3
    NoTimer = NoTimer
    f1 = f1
    f2 = f2
    s1 = s1
    s2 = s2
    s3 = s3
    t1 = t1
    t2 = t2
PROPERTIES
    EveryTimerFires
CHECK_DEADLOCK FALSE
