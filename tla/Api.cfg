\* An application and a browser behind one address.
SPECIFICATION FairSpec
CONSTANTS
    Clients = {c1, c2}
    Tasks = {t1}
    Hubs = {}
    Browsers = {c2}
    Headers = {}
    Address = ip
    Wired = TRUE
    Burst = 2
    Rate = 2
    MaxAttempts = 2
    MaxPolls = 2
    RingMax = 1
    MaxTime = 2
    MaxCalls = 2
    Loop = Loop
    NoTask = NoTask
    NoBucket = NoBucket
INVARIANTS
    RateIsKept
    ApprovedByIntent
    HistoryIsTrue
PROPERTIES
    EveryCallReturns
CHECK_DEADLOCK FALSE
