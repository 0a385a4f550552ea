\* Two processes whose thread pools share the connections of their event loops.
SPECIFICATION SharedSpec
CONSTANTS
    Gates = {g1}
    Procs = {p1, p2}
    People = {alice, bob}
    MaxSeq = 2
    NoRow = NoRow
    Clean = Clean
    NoConn = NoConn
    NoEntry = NoEntry
    Nobody = Nobody
    NoProc = NoProc
    Nothing = Nothing
INVARIANTS OneWinner
SYMMETRY MCSymmetry
CHECK_DEADLOCK FALSE
