\* One process that may die and restart, under fairness.
SPECIFICATION FairSpec
CONSTANTS
    Gates = {g1}
    Procs = {p1}
    People = {alice, bob}
    MaxSeq = 2
    NoRow = NoRow
    Clean = Clean
    NoConn = NoConn
    NoEntry = NoEntry
    Nobody = Nobody
    NoProc = NoProc
    Nothing = Nothing
PROPERTIES DecidedTaskEnds
CHECK_DEADLOCK FALSE
