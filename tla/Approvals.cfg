\* Three processes and one gate, under fairness.
SPECIFICATION FairSpec
CONSTANTS
    Gates = {g1}
    Procs = {p1, p2, p3}
    People = {alice, bob}
    MaxSeq = 2
    NoRow = NoRow
    Clean = Clean
    NoConn = NoConn
    NoEntry = NoEntry
    Nobody = Nobody
    NoProc = NoProc
    Nothing = Nothing
INVARIANTS OneWinner EngineFollowsRow
PROPERTIES DecidedIsFinal AnswerReachesEngine IsOneDecision
CHECK_DEADLOCK FALSE
