\* Both clients decide as AgenticHub does.
SPECIFICATION Spec
CONSTANTS
    Clients = {c1, c2}
    Tasks = {t1}
    Hubs = {c1, c2}
    Browsers = {}
    Headers = {}
    Address = ip
    Wired = TRUE
    Burst = 2
    Rate = 2
    MaxAttempts = 2
    MaxPolls = 2
    RingMax = 1
    MaxTime = 1
    MaxCalls = 2
    Loop = Loop
    NoTask = NoTask
    NoBucket = NoBucket
INVARIANTS
    ApprovedByIntent
CHECK_DEADLOCK FALSE
