SPECIFICATION FairSpec
CONSTANTS
    Frames = {1, 2}
    Variables = {v1, v2}
    Client = client
    Executors = {e1, e2}
    Turns = 2
    MaxQueued = 2
    NoFrame = 0
    v1 = v1
    v2 = v2
    client = client
    e1 = e1
    e2 = e2
INVARIANTS
    OneOwner
    OnlyStopLeavesOwners
    
PROPERTIES
    DrivenEnds
CHECK_DEADLOCK FALSE
