---------------------------- MODULE BreakGlass ----------------------------
(***************************************************************************)
(* Break-glass requests: BreakGlassService (orchestra/enterprise/          *)
(* break_glass.py), its EventStore methods and its /admin/breakglass       *)
(* handlers.  A worker is one thread serving one call; ConnOf says which   *)
(* process's connection it uses.  A call is a sequence of transactions and *)
(* each transaction a sequence of statements; pc says which comes next.    *)
(***************************************************************************)
EXTENDS Integers, FiniteSets

CONSTANTS Requests,      \* request ids
          People,        \* verified identities: applicants, approvers, revokers
          Tenants,
          Workers, Conns,
          ConnOf,        \* ConnOf[w]: the connection of worker w's process
          WindowInputs,  \* the window_seconds a caller may pass; NoWindow: none
          DefaultWindow, HardMax,  \* DEFAULT_ and HARD_MAX_WINDOW_SECONDS
          MaxTime,       \* bound on the clock
          NoRow, Clean, NoConn, Nobody, NoWindow

ASSUME ConnOfType == ConnOf \in [Workers -> Conns]
ASSUME WindowType == /\ WindowInputs \subseteq Int \cup {NoWindow}
                     /\ HardMax \in Nat \ {0}
                     /\ DefaultWindow \in 1..HardMax
                     /\ MaxTime \in Nat

VARIABLES rows, dirty, lock,  \* the table break_glass_requests, see EventStoreTx
          job,    \* job[w]: what worker w is in the middle of
          told,   \* told[r]: the outcomes reported to callers, <<kind, person>>
          audit,  \* audit[r]: the break-glass events in the audit log
          now,    \* the database clock
          mixed   \* the requests one of whose transactions another thread came into

vars == <<rows, dirty, lock, job, told, audit, now, mixed>>

INSTANCE EventStoreTx WITH Keys <- Requests

-----------------------------------------------------------------------------
(* States, rows and jobs. *)

States == {"requested", "first-approved", "active", "expired", "revoked"}
Terminal == {"expired", "revoked"}

Row == [tenant : Tenants, by : People, state : States,
        first : People \cup {Nobody}, second : People \cup {Nobody},
        window : 1..HardMax, expires : Nat]

ASSUME Sentinels == /\ Nobody \notin People
                    /\ NoConn \notin Conns
                    /\ NoWindow \notin Int
                    /\ NoRow \notin Row
                    /\ Clean \notin Row \cup {NoRow}

\* The outcome a transaction reports; "denied" stands for every applied=False.
Outcomes == States \cup {"denied"}

PCs == {"idle", "insert", "sign", "revoke", "commit", "emit"}

Job == [pc : PCs, out : Outcomes, ids : SUBSET Requests, who : People \cup {Nobody}]

Idle == [pc |-> "idle", out |-> "denied", ids |-> {}, who |-> Nobody]

TypeOK == /\ rows \in [Requests -> Row \cup {NoRow}]
          /\ dirty \in [Conns -> [Requests -> Row \cup {Clean}]]
          /\ lock \in [Requests -> Conns \cup {NoConn}]
          /\ job \in [Workers -> Job]
          /\ \A w \in Workers : job[w].pc \in {"insert", "sign", "revoke"} => job[w].who \in People
          /\ told \in [Requests -> SUBSET (Outcomes \X (People \cup {Nobody}))]
          /\ audit \in [Requests -> SUBSET (Outcomes \X (People \cup {Nobody}))]
          /\ now \in Nat
          /\ mixed \in SUBSET Requests

Init == /\ TxInit
        /\ job = [w \in Workers |-> Idle]
        /\ told = [r \in Requests |-> {}]
        /\ audit = [r \in Requests |-> {}]
        /\ now = 0
        /\ mixed = {}

-----------------------------------------------------------------------------
(* Helpers. *)

Least(a, b) == IF a < b THEN a ELSE b

\* Mutant: the hard cap is forgotten when the caller names a window.
ClampWindow_NoCap(requested) ==
    IF requested = NoWindow THEN DefaultWindow
    ELSE IF requested < 1 THEN 1 ELSE requested

\* _clamp_window with the tenant override _resolve_tenant_max_window gives: none.
ClampWindow(requested) ==
    IF requested = NoWindow THEN DefaultWindow
    ELSE IF requested < 1 THEN 1 ELSE Least(requested, HardMax)

\* Mutants: one of the guards of record_break_glass_approval is dropped.
SignRefused_SameTwice(row, p, t) ==
    \/ row.tenant # t
    \/ row.state \notin {"requested", "first-approved"}
    \/ row.by = p
SignRefused_AnyState(row, p, t) ==
    \/ row.tenant # t
    \/ row.by = p
    \/ row.first = p

\* The early returns of record_break_glass_approval.
SignRefused(row, p, t) ==
    \/ row.tenant # t
    \/ row.state \notin {"requested", "first-approved"}
    \/ row.by = p
    \/ row.first = p

\* The early returns of revoke_break_glass.
RevokeRefused(row, t) == row.tenant # t \/ row.state \in Terminal

\* Mutant: one signature is enough.
SignedRow_OneSignature(row, p, out) ==
    [row EXCEPT !.state = "active", !.first = p, !.expires = now + row.window]

\* The row as an approver's UPDATE leaves it.
SignedRow(row, p, out) ==
    IF out = "first-approved"
    THEN [row EXCEPT !.state = "first-approved", !.first = p]
    ELSE [row EXCEPT !.state = "active", !.second = p, !.expires = now + row.window]

Goto(w, pc, out, ids, who) ==
    job' = [job EXCEPT ![w] = [pc |-> pc, out |-> out, ids |-> ids, who |-> who]]

\* Worker w is between the statements of a transaction of its own.
InTx(w) == job[w].pc \in {"sign", "revoke", "commit"}

\* The other threads of w's process that have a transaction open, on the one connection.
Threads(w) == {v \in Workers \ {w} : ConnOf[v] = ConnOf[w] /\ InTx(v)}

\* mixed is a history variable: no guard reads it, the properties do.  A statement,
\* commit or rollback of w while another thread is in its transaction belongs to, or
\* ends, that transaction too.  From then on the requests the two work on are mixed.
Mixing(w) ==
    mixed' = mixed \cup {r \in Requests :
                           \/ \E v \in Threads(w) : r \in job[v].ids
                           \/ Threads(w) # {} /\ InTx(w)' /\ r \in job'[w].ids}

-----------------------------------------------------------------------------
(* Requesting: the audit anchor in one transaction, the row in the next.  A request
   the effect ceiling refuses changes nothing and is no step. *)

\* The anchor's task row only gives events a foreign key: Emit and EmitLost stand for
\* its presence.  Its transaction ends the connection's: committed for a tenant-scoped
\* request, rolled back when the upsert raises, none for a task-scoped request.
RequestStart(w, r, p) ==
    /\ job[w].pc = "idle"
    /\ rows[r] = NoRow /\ told[r] = {} /\ \A v \in Workers : r \notin job[v].ids
    /\ \A c \in Conns : dirty[c][r] = Clean
    /\ Goto(w, "insert", "requested", {r}, p)
    /\ \/ CommitConn(ConnOf[w])
       \/ RollbackConn(ConnOf[w])
       \/ UNCHANGED <<rows, dirty, lock>>
    /\ Mixing(w)
    /\ UNCHANGED <<told, audit, now>>

RequestInsert(w, t, window) ==
    /\ job[w].pc = "insert"
    /\ WriteRows(ConnOf[w], job[w].ids,
                 [r \in Requests |->
                    [tenant |-> t, by |-> job[w].who, state |-> "requested",
                     first |-> Nobody, second |-> Nobody,
                     window |-> ClampWindow(window), expires |-> 0]])
    /\ Goto(w, "commit", "requested", job[w].ids, job[w].who)
    /\ Mixing(w)
    /\ UNCHANGED <<told, audit, now>>

-----------------------------------------------------------------------------
(* Signing and revoking: SELECT ... FOR UPDATE and the checks, then the UPDATE. *)

ApproveSelect(w, r, p, t) ==
    /\ job[w].pc = "idle"
    /\ View(ConnOf[w], r) # NoRow
    /\ SelectForUpdate(ConnOf[w], r)
    /\ LET row == View(ConnOf[w], r)
       IN IF SignRefused(row, p, t)
          THEN Goto(w, "commit", "denied", {r}, p)
          ELSE Goto(w, "sign", IF row.state = "requested" THEN "first-approved" ELSE "active",
                    {r}, p)
    /\ Mixing(w)
    /\ UNCHANGED <<told, audit, now>>

\* The UPDATEs name only the request_id: they do not check the state again, and one
\* that finds no row still reports success.
Found(w) == {r \in job[w].ids : View(ConnOf[w], r) # NoRow}

ApproveUpdate(w) ==
    /\ job[w].pc = "sign"
    /\ WriteRows(ConnOf[w], Found(w),
                 [r \in Found(w) |->
                    SignedRow(View(ConnOf[w], r), job[w].who, job[w].out)])
    /\ Goto(w, "commit", job[w].out, job[w].ids, job[w].who)
    /\ Mixing(w)
    /\ UNCHANGED <<told, audit, now>>

RevokeSelect(w, r, p, t) ==
    /\ job[w].pc = "idle"
    /\ View(ConnOf[w], r) # NoRow
    /\ SelectForUpdate(ConnOf[w], r)
    /\ IF RevokeRefused(View(ConnOf[w], r), t)
       THEN Goto(w, "commit", "denied", {r}, p)
       ELSE Goto(w, "revoke", "revoked", {r}, p)
    /\ Mixing(w)
    /\ UNCHANGED <<told, audit, now>>

RevokeUpdate(w) ==
    /\ job[w].pc = "revoke"
    /\ WriteRows(ConnOf[w], Found(w),
                 [r \in Found(w) |-> [View(ConnOf[w], r) EXCEPT !.state = "revoked"]])
    /\ Goto(w, "commit", "revoked", job[w].ids, job[w].who)
    /\ Mixing(w)
    /\ UNCHANGED <<told, audit, now>>

-----------------------------------------------------------------------------
(* The sweep: one UPDATE over every active row whose window has passed. *)

\* Mutant: the sweep's WHERE clause forgets the clock.
Overdue_Early(row) == row.state = "active"

\* now() in SQL is the time the transaction began; the model reads the clock at the
\* statement, and a transaction that began earlier is one whose Tick comes later.
Overdue(row) == /\ row.state = "active"
                /\ row.expires < now

SweepUpdate(w) ==
    LET c == ConnOf[w]
        due == {r \in Requests : View(c, r) # NoRow /\ Overdue(View(c, r))}
    IN /\ job[w].pc = "idle"
       /\ due # {}
       /\ WriteRows(c, due, [r \in due |-> [View(c, r) EXCEPT !.state = "expired"]])
       /\ Goto(w, "commit", "expired", due, Nobody)
       /\ Mixing(w)
       /\ UNCHANGED <<told, audit, now>>

-----------------------------------------------------------------------------
(* Ending a transaction, and the audit events the service appends afterwards. *)

\* The caller is answered from the UPDATE's outcome, not from the row.
Report(ids, out, who) ==
    told' = [r \in Requests |-> IF r \in ids THEN told[r] \cup {<<out, who>>} ELSE told[r]]

Commit(w) ==
    /\ job[w].pc = "commit"
    /\ CommitConn(ConnOf[w])
    /\ IF job[w].out = "denied"
       THEN Goto(w, "idle", "denied", {}, Nobody) /\ UNCHANGED told
       ELSE /\ Goto(w, "emit", job[w].out, job[w].ids, job[w].who)
            /\ Report(job[w].ids, job[w].out, job[w].who)
    /\ Mixing(w)
    /\ UNCHANGED <<audit, now>>

\* A statement or the commit fails: _tx rolls the connection back, the call raises.
Fail(w) ==
    /\ job[w].pc \in {"insert", "sign", "revoke", "commit"}
    /\ RollbackConn(ConnOf[w])
    /\ Goto(w, "idle", "denied", {}, Nobody)
    /\ Mixing(w)
    /\ UNCHANGED <<told, audit, now>>

\* What is left to do once the event of r is written or given up.
AfterEmit(w, r) == IF job[w].ids = {r} THEN Goto(w, "idle", "denied", {}, Nobody)
                   ELSE Goto(w, "emit", job[w].out, job[w].ids \ {r}, job[w].who)

Emit(w, r) ==
    /\ job[w].pc = "emit" /\ r \in job[w].ids
    /\ CommitConn(ConnOf[w])
    /\ audit' = [audit EXCEPT ![r] = @ \cup {<<job[w].out, job[w].who>>}]
    /\ AfterEmit(w, r)
    /\ Mixing(w)
    /\ UNCHANGED <<told, now>>

\* _emit swallows every exception: the event is lost, the call succeeds.
EmitLost(w, r) ==
    /\ job[w].pc = "emit" /\ r \in job[w].ids
    /\ RollbackConn(ConnOf[w])
    /\ AfterEmit(w, r)
    /\ Mixing(w)
    /\ UNCHANGED <<told, audit, now>>

\* get, list and is_active change nothing, but their _tx commits the connection.
ReadOnly(w) ==
    /\ job[w].pc = "idle"
    /\ CommitConn(ConnOf[w])
    /\ UNCHANGED <<job, told, audit, now>>
    /\ Mixing(w)

\* A process dies: PostgreSQL rolls its connection back.
Crash(c) ==
    /\ RollbackConn(c)
    /\ job' = [w \in Workers |-> IF ConnOf[w] = c THEN Idle ELSE job[w]]
    /\ UNCHANGED <<told, audit, now, mixed>>

Tick == /\ now < MaxTime
        /\ now' = now + 1
        /\ UNCHANGED <<rows, dirty, lock, job, told, audit, mixed>>

-----------------------------------------------------------------------------

\* The steps that finish a call already begun.
Continue(w) ==
    \/ \E t \in Tenants, window \in WindowInputs : RequestInsert(w, t, window)
    \/ ApproveUpdate(w)
    \/ RevokeUpdate(w)
    \/ Commit(w)
    \/ \E r \in Requests : Emit(w, r)

Next ==
    \/ \E w \in Workers, r \in Requests, p \in People : RequestStart(w, r, p)
    \/ \E w \in Workers, r \in Requests, p \in People, t \in Tenants :
          ApproveSelect(w, r, p, t) \/ RevokeSelect(w, r, p, t)
    \/ \E w \in Workers : SweepUpdate(w)
    \/ \E w \in Workers : Continue(w)
    \/ \E w \in Workers : Fail(w) \/ ReadOnly(w)
    \/ \E w \in Workers, r \in Requests : EmitLost(w, r)
    \/ \E c \in Conns : Crash(c)
    \/ Tick

Spec == Init /\ [][Next]_vars

-----------------------------------------------------------------------------
(* Properties. *)

\* Threads of one process share its connection, so nothing in the database keeps their
\* statements apart; what is promised of a request beyond its applicant is promised as
\* long as none of its transactions was entered by another thread (r \notin mixed).

\* Two-person control (BreakGlassService.approve, ADR-0012): nobody signs their own
\* request, mixed or not.  A request that was never mixed and waits for its second
\* signature has exactly one, and its row, if it is or has been active, was signed by two
\* different people.
SignedByTwo(row) == row.first # Nobody /\ row.second # Nobody /\ row.first # row.second

WellSigned(row) ==
    /\ row.by \notin {row.first, row.second}
    /\ row.state = "requested" => row.first = Nobody /\ row.second = Nobody
    /\ row.state = "first-approved" => row.first # Nobody /\ row.second = Nobody
    /\ row.state \in {"active", "expired"} => SignedByTwo(row)
    /\ row.second # Nobody => SignedByTwo(row)

TwoPersonControl ==
    \A r \in Requests : rows[r] # NoRow =>
       /\ rows[r].by \notin {rows[r].first, rows[r].second}
       /\ r \in mixed \/ WellSigned(rows[r])

\* The answers of approve, revoke and sweep_expired, and the audit events that record
\* them, are kept: whoever is named as the first or second signer is that signer in the
\* row, and a request reported revoked or expired is in that state, whatever other calls do.
AnswersKept ==
    \A r \in Requests \ mixed : \A a \in told[r] \cup audit[r] :
       /\ rows[r] # NoRow
       /\ a[1] = "requested" => rows[r].by = a[2]
       /\ a[1] = "first-approved" => rows[r].first = a[2]
       /\ a[1] = "active" => rows[r].second = a[2]
       /\ a[1] \in Terminal => rows[r].state = a[1]

\* A revoked or expired row is never changed again (record_break_glass_approval and
\* revoke_break_glass refuse it, sweep_expired_break_glass selects active rows only).
TerminalIsFinal ==
    [][\A r \in Requests :
         rows[r] # NoRow /\ rows[r].state \in Terminal /\ r \notin mixed'
           => rows'[r] = rows[r]]_rows

\* A grant lasts as long as it was given (sweep_expired_break_glass): a row turns expired
\* only from active, and only when the clock has passed its expires_at.
ExpiresWhenDue ==
    [][\A r \in Requests :
         (/\ rows[r] # NoRow /\ r \notin mixed'
          /\ rows'[r].state = "expired" /\ rows[r].state # "expired")
           => /\ rows[r].state = "active"
              /\ rows[r].expires < now]_rows

\* The committed rows implement TwoPersonGrant, a mixed request as a void grant.
Phase(row) == CASE row = NoRow -> "none"
                [] row # NoRow /\ row.state \in {"requested", "first-approved"} -> "open"
                [] row # NoRow /\ row.state = "active" -> "live"
                [] OTHER -> "closed"

ApplicantOf(row) == IF row = NoRow THEN Nobody ELSE row.by
SignersOf(row) == IF row = NoRow THEN {} ELSE {row.first, row.second} \ {Nobody}

Grant == INSTANCE TwoPersonGrant WITH
            Grants <- Requests,
            phase <- [r \in Requests |-> IF r \in mixed THEN "void" ELSE Phase(rows[r])],
            applicant <- [r \in Requests |-> IF r \in mixed THEN Nobody ELSE ApplicantOf(rows[r])],
            signers <- [r \in Requests |-> IF r \in mixed THEN {} ELSE SignersOf(rows[r])]

\* What the calls, transactions, sweeps and crashes do to the table of requests is a
\* behaviour of TwoPersonGrant; in particular a grant is void only from the step at which
\* a second thread comes into one of its transactions.
IsTwoPersonGrant == Grant!Spec
=============================================================================
