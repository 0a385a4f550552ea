--------------------------- MODULE BreakGlassMC ---------------------------
(* Instances of BreakGlass for TLC. *)
EXTENDS BreakGlass, TLC

\* The workers of Pool are threads of one process and share its connection; every other
\* worker is a process of its own, whose connection has the worker's name.
CONSTANTS Pool, PoolConn
PooledConn == [w \in Workers |-> IF w \in Pool THEN PoolConn ELSE w]

\* A window above the hard cap, one below 1 and none at all.
MCWindows == {HardMax + 1, 0, NoWindow}

MCSymmetry == Permutations(People) \cup Permutations(Tenants) \cup Permutations(Pool)

\* A mixed request is followed until the clock has moved, an event is logged or the third
\* caller has been answered: of such a request only the applicant's part is promised.
\* Requests that are not mixed are explored without this bound.
MixedBound ==
    mixed # {} => /\ now = 0
                  /\ \A r \in Requests : Cardinality(told[r]) <= 2 /\ audit[r] = {}
=============================================================================
