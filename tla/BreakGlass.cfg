\* Two threads of one process and a process beside them, one request, three people, two tenants.
SPECIFICATION Spec
CONSTANTS
    Requests = {r1}
    People = {p1, p2, p3}
    Tenants = {t1, t2}
    Workers = {w1, w2, w3}
    Pool = {w1, w2}
    PoolConn = c1
    Conns = {c1, w3}
    ConnOf <- PooledConn
    HardMax = 2
    DefaultWindow = 1
    NoWindow = NoWindow
    WindowInputs <- MCWindows
    MaxTime = 3
    NoRow = NoRow
    Clean = Clean
    NoConn = NoConn
    Nobody = Nobody
SYMMETRY MCSymmetry
INVARIANTS TypeOK TwoPersonControl AnswersKept
PROPERTIES TerminalIsFinal ExpiresWhenDue IsTwoPersonGrant
CONSTRAINT MixedBound
CHECK_DEADLOCK FALSE
