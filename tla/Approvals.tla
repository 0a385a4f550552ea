---------------------------- MODULE Approvals ----------------------------
(***************************************************************************)
(* The human-approval gate: ApprovalService and its EventStore methods     *)
(* (the rows), Coordinator._default_approval_handler, decide_approval and  *)
(* _reload_pending_approvals (the in-process wake-up entries), and the     *)
(* part of Coordinator.run that waits at the gate and acts on the answer.  *)
(*                                                                         *)
(* A process has one event loop and one database connection, both named    *)
(* by the process.  The loop runs one handler at a time up to its next     *)
(* await, so the calls below are sequences of database statements that the *)
(* loop does not interleave, but other processes and crashes do.  The sync *)
(* endpoints of a process run in a thread pool on the same connection:     *)
(* SharedSpec adds them.                                                   *)
(***************************************************************************)
EXTENDS Integers, FiniteSets

CONSTANTS Gates,    \* task runs: each has one node that needs approval
          Procs,    \* server processes on one database
          People,   \* deciders
          MaxSeq,   \* bound on the decisions recorded for one gate
          NoRow, Clean, NoConn, NoEntry, Nobody, NoProc, Nothing

ASSUME MaxSeqType == MaxSeq \in Nat \ {0}

VARIABLES rows, dirty, lock,  \* the tables approvals and approval_decisions
          entry,  \* entry[p][g]: what p's _approval_events holds for g
          loop,   \* loop[p]: the handler p's event loop is in the middle of
          run,    \* run[g]: the coroutine of Coordinator.run for g
          told,   \* told[g]: decisions whose callers heard applied=True
          up      \* up[p]: process p is running

vars == <<rows, dirty, lock, entry, loop, run, told, up>>

\* Key <<g, 0>> is the approvals row of g, key <<g, n>> its n-th decision row.
Seqs == 1..MaxSeq
RowKeys == Gates \X (0..MaxSeq)

INSTANCE EventStoreTx WITH Keys <- RowKeys, Conns <- Procs

Choices == {"approve", "reject"}
GateStates == {"pending", "approved", "rejected"}

\* state and version of an approvals row, by: the person of its decision_payload;
\* a decision row has the choice for state.
Row == [state : GateStates \cup Choices, by : People \cup {Nobody}, version : Nat]

Entry == [id : BOOLEAN,    \* the bucket has an approval_id: the row was created
          set : BOOLEAN,   \* event.is_set()
          decision : Choices \cup {"none"}, by : People \cup {Nobody}]

ASSUME Sentinels == /\ NoConn \notin Procs
                    /\ NoRow \notin Row
                    /\ Clean \notin Row \cup {NoRow}
                    /\ NoEntry \notin Entry
                    /\ Nothing \notin Choices \X People

Call == [pc : {"idle", "created", "register", "deny", "insert", "update", "commit"},
         gate : Gates \cup {Nothing}, id : BOOLEAN,
         decision : Choices \cup {"none"}, by : People \cup {Nobody}, seq : 0..MaxSeq + 1]

IdleCall == [pc |-> "idle", gate |-> Nothing, id |-> FALSE,
             decision |-> "none", by |-> Nobody, seq |-> 0]

\* "lost": the process died while the coroutine waited.
Run == [home : Procs \cup {NoProc}, id : BOOLEAN,
        pc : {"none", "creating", "waiting", "acted", "failed", "lost"},
        decision : Choices \cup {"none"}, by : People \cup {Nobody}]

NoRun == [home |-> NoProc, id |-> FALSE, pc |-> "none", decision |-> "none", by |-> Nobody]

TypeOK == /\ rows \in [RowKeys -> Row \cup {NoRow}]
          /\ dirty \in [Procs -> [RowKeys -> Row \cup {Clean}]]
          /\ lock \in [RowKeys -> Procs \cup {NoConn}]
          /\ entry \in [Procs -> [Gates -> Entry \cup {NoEntry}]]
          /\ loop \in [Procs -> Call]
          /\ run \in [Gates -> Run]
          /\ told \in [Gates -> SUBSET (Choices \X People)]
          /\ up \in [Procs -> BOOLEAN]

Init == /\ TxInit
        /\ entry = [p \in Procs |-> [g \in Gates |-> NoEntry]]
        /\ loop = [p \in Procs |-> IdleCall]
        /\ run = [g \in Gates |-> NoRun]
        /\ told = [g \in Gates |-> {}]
        /\ up = [p \in Procs |-> TRUE]

-----------------------------------------------------------------------------
(* Helpers. *)

Free(p) == up[p] /\ loop[p].pc = "idle"

\* An UPDATE or INSERT of one row.
WriteRow(p, k, row) == WriteRows(p, {k}, [x \in {k} |-> row])

\* The decisions of g that a statement of p counts.
Seen(p, g) == Cardinality({n \in Seqs : View(p, <<g, n>>) # NoRow})

\* record_approval_decision's new state where one approver is required, which is what
\* create_for_node asks for when the engine calls it.
NewState(decision) == IF decision = "reject" THEN "rejected" ELSE "approved"

\* Mutants: the state check is gone, or forgets the rejected state.
Refused_Never(row) == FALSE
Refused_Approved(row) == row.state = "approved"

\* record_approval_decision's early returns.  The tenant is the process's own on both
\* sides and the choice is the endpoint's, so cross_tenant and bad_decision cannot occur.
Refused(row) == row.state # "pending"

\* Mutant: the event is created set.
NewEntry_Set(id) == [id |-> id, set |-> TRUE, decision |-> "none", by |-> Nobody]

NewEntry(id) == [id |-> id, set |-> FALSE, decision |-> "none", by |-> Nobody]

-----------------------------------------------------------------------------
(* _default_approval_handler: create the row, register the entry, announce, wait. *)

\* create_approval: SELECT ... FOR UPDATE finds no row, so it locks nothing; then INSERT.
CreateInsert(p, g) ==
    /\ Free(p)
    /\ run[g].pc = "none" /\ View(p, <<g, 0>>) = NoRow
    /\ WriteRow(p, <<g, 0>>, [state |-> "pending", by |-> Nobody, version |-> 0])
    /\ loop' = [loop EXCEPT ![p] = [IdleCall EXCEPT !.pc = "created", !.gate = g]]
    /\ run' = [run EXCEPT ![g].pc = "creating", ![g].home = p]
    /\ UNCHANGED <<entry, told, up>>

\* The create commits, or fails and its exception is swallowed: no approval_id then.
CreateEnd(p) ==
    /\ loop[p].pc = "created"
    /\ \E ok \in BOOLEAN :
          /\ IF ok THEN CommitConn(p) ELSE RollbackConn(p)
          /\ loop' = [loop EXCEPT ![p].pc = "register", ![p].id = ok]
    /\ UNCHANGED <<entry, run, told, up>>

\* The entry is registered; then, in transactions of their own, the legacy approvals row
\* (when there is no approval_id) and the event are written.  If that raises, run ends
\* FAILED and the entry stays.
Register(p) ==
    LET g == loop[p].gate
        id == loop[p].id
    IN /\ loop[p].pc = "register"
       /\ entry' = [entry EXCEPT ![p][g] = NewEntry(id)]
       /\ \/ CommitConn(p) /\ run' = [run EXCEPT ![g].pc = "waiting", ![g].id = id]
          \/ RollbackConn(p) /\ run' = [run EXCEPT ![g].pc = "failed", ![g].id = id]
       /\ loop' = [loop EXCEPT ![p] = IdleCall]
       /\ UNCHANGED <<told, up>>

-----------------------------------------------------------------------------
(* decide_approval, from the approve and reject endpoints of process p.  A call for a gate
   without an entry raises and changes nothing. *)

DecideSelect(p, g, d, who) ==
    LET k == <<g, 0>>
        row == View(p, k)
        call == [IdleCall EXCEPT !.gate = g, !.decision = d, !.by = who]
        deny == [call EXCEPT !.pc = "deny"]
    IN /\ Free(p) /\ entry[p][g] # NoEntry /\ entry[p][g].id
       /\ \/ /\ row = NoRow
             /\ UNCHANGED <<rows, dirty, lock>>
             /\ loop' = [loop EXCEPT ![p] = deny]
          \/ /\ row # NoRow
             /\ SelectForUpdate(p, k)
             /\ loop' = [loop EXCEPT ![p] =
                           IF Refused(row) THEN deny
                           ELSE [call EXCEPT !.pc = "insert", !.seq = Seen(p, g) + 1]]
       /\ UNCHANGED <<entry, run, told, up>>

\* UNIQUE (approval_id, decision_seq): waits for another transaction's row, then fails.
Unused(p, k) == LockFree(p, k) /\ View(p, k) = NoRow

\* The INSERT of the decision also needs a share lock on the approvals row it refers to.
DecideInsert(p) ==
    LET g == loop[p].gate
        k == <<g, loop[p].seq>>
    IN /\ loop[p].pc = "insert" /\ loop[p].seq \in Seqs
       /\ LockFree(p, <<g, 0>>) /\ View(p, <<g, 0>>) # NoRow
       /\ Unused(p, k)
       /\ WriteRow(p, k, [state |-> loop[p].decision, by |-> loop[p].by, version |-> 0])
       /\ loop' = [loop EXCEPT ![p].pc = "update"]
       /\ UNCHANGED <<entry, run, told, up>>

\* The UPDATE names only the approval_id: it does not check the state again.
DecideUpdate(p) ==
    LET k == <<loop[p].gate, 0>>
    IN /\ loop[p].pc = "update" /\ View(p, k) # NoRow
       /\ WriteRow(p, k, [state |-> NewState(loop[p].decision), by |-> loop[p].by,
                          version |-> View(p, k).version + 1])
       /\ loop' = [loop EXCEPT ![p].pc = "commit"]
       /\ UNCHANGED <<entry, run, told, up>>

\* Mutants: the waiting coroutine is not woken; the bucket gets the row's new state.
Answered_NotSet(e, d, who) == [e EXCEPT !.decision = d, !.by = who]
Answered_State(e, d, who) == [e EXCEPT !.decision = NewState(d), !.by = who, !.set = TRUE]

\* The bucket and the event after a decision.
Answered(e, d, who) == [e EXCEPT !.decision = d, !.by = who, !.set = TRUE]

DecideCommit(p) ==
    LET c == loop[p]
    IN /\ c.pc = "commit"
       /\ CommitConn(p)
       /\ told' = [told EXCEPT ![c.gate] = @ \cup {<<c.decision, c.by>>}]
       /\ entry' = [entry EXCEPT ![p][c.gate] = Answered(@, c.decision, c.by)]
       /\ loop' = [loop EXCEPT ![p] = IdleCall]
       /\ UNCHANGED <<run, up>>

\* Mutant: a call that was not applied wakes the coroutine with its own decision.
DecideDenied_Wakes(p) ==
    /\ loop[p].pc = "deny"
    /\ CommitConn(p)
    /\ entry' = [entry EXCEPT ![p][loop[p].gate] = Answered(@, loop[p].decision, loop[p].by)]
    /\ loop' = [loop EXCEPT ![p] = IdleCall]
    /\ UNCHANGED <<run, told, up>>

\* Not applied: the transaction ends, the endpoint still answers 200, nobody is woken.
DecideDenied(p) == /\ loop[p].pc = "deny"
                   /\ CommitConn(p)
                   /\ loop' = [loop EXCEPT ![p] = IdleCall]
                   /\ UNCHANGED <<entry, run, told, up>>

\* A statement or the commit raises, a unique violation among them.
DecideFail(p) == /\ loop[p].pc \in {"deny", "insert", "update", "commit"}
                 /\ RollbackConn(p)
                 /\ loop' = [loop EXCEPT ![p] = IdleCall]
                 /\ UNCHANGED <<entry, run, told, up>>

\* Without an approval_id the bucket is overwritten first, then save_approval writes a
\* row of its own and, if that succeeds, the event is set.
DecideLegacy(p, g, d, who) ==
    /\ Free(p) /\ entry[p][g] # NoEntry /\ ~entry[p][g].id
    /\ \/ CommitConn(p) /\ entry' = [entry EXCEPT ![p][g] = Answered(@, d, who)]
       \/ RollbackConn(p) /\ entry' = [entry EXCEPT ![p][g].decision = d, ![p][g].by = who]
    /\ UNCHANGED <<loop, run, told, up>>

-----------------------------------------------------------------------------
(* The coroutine wakes and acts; processes and threads. *)

\* event.wait() returns: the bucket is read now.  The engine appends NODE_APPROVED or
\* NODE_REJECTED and goes on to the sink or to CANCELLED; if that raises, to FAILED.
Resume(p, g) ==
    /\ Free(p) /\ run[g].home = p /\ run[g].pc = "waiting"
    /\ entry[p][g] # NoEntry /\ entry[p][g].set
    /\ \/ /\ CommitConn(p)
          /\ run' = [run EXCEPT ![g].pc = "acted", ![g].decision = entry[p][g].decision,
                                ![g].by = entry[p][g].by]
       \/ /\ RollbackConn(p)
          /\ run' = [run EXCEPT ![g].pc = "failed"]
    /\ UNCHANGED <<entry, loop, told, up>>

Crash(p) ==
    /\ up[p]
    /\ RollbackConn(p)
    /\ up' = [up EXCEPT ![p] = FALSE]
    /\ entry' = [entry EXCEPT ![p] = [g \in Gates |-> NoEntry]]
    /\ loop' = [loop EXCEPT ![p] = IdleCall]
    /\ run' = [g \in Gates |-> IF run[g].home = p /\ run[g].pc \in {"creating", "waiting"}
                               THEN [run[g] EXCEPT !.pc = "lost"] ELSE run[g]]
    /\ UNCHANGED told

Pending(g) == rows[<<g, 0>>] # NoRow /\ rows[<<g, 0>>].state = "pending"

\* A new Coordinator: _reload_pending_approvals registers an entry for every pending row
\* of the tenant, and starts no coroutine.  A database error leaves the cache empty.
Restart(p) ==
    /\ ~up[p]
    /\ up' = [up EXCEPT ![p] = TRUE]
    /\ \/ entry' = [entry EXCEPT ![p] =
                      [g \in Gates |-> IF Pending(g) THEN NewEntry(TRUE) ELSE NoEntry]]
       \/ UNCHANGED entry
    /\ UNCHANGED <<rows, dirty, lock, loop, run, told>>

-----------------------------------------------------------------------------

Continue(p) == CreateEnd(p) \/ Register(p) \/ DecideInsert(p) \/ DecideUpdate(p)
               \/ DecideCommit(p) \/ DecideDenied(p) \/ DecideFail(p)

Next == \E p \in Procs :
          \/ \E g \in Gates : CreateInsert(p, g) \/ Resume(p, g)
          \/ \E g \in Gates, d \in Choices, who \in People :
                DecideSelect(p, g, d, who) \/ DecideLegacy(p, g, d, who)
          \/ Continue(p)
          \/ Crash(p) \/ Restart(p)

Spec == Init /\ [][Next]_vars

\* A sync endpoint in p's thread pool ends its transaction, which is p's connection's.
OtherThread(p) == /\ up[p]
                  /\ CommitConn(p)
                  /\ UNCHANGED <<entry, loop, run, told, up>>

SharedSpec == Init /\ [][Next \/ \E p \in Procs : OtherThread(p)]_vars

\* A handler that runs is carried on, a crashed process is restarted, and the loop's
\* queue is first in, first out: a coroutine that was woken gets its turn however often
\* other handlers run before it (strong fairness).
FairSpec == /\ Spec
            /\ \A p \in Procs : WF_vars(Continue(p)) /\ WF_vars(Restart(p))
            /\ \A p \in Procs, g \in Gates : SF_vars(Resume(p, g))

-----------------------------------------------------------------------------
(* Properties. *)

Decided(g) == rows[<<g, 0>>] # NoRow /\ rows[<<g, 0>>].state # "pending"

\* ADR-0013, "exactly one state transition": however many processes decide a gate at the
\* same time, one caller at most hears applied=True, and the row keeps that decision.
OneWinner ==
    \A g \in Gates :
       /\ Cardinality(told[g]) <= 1
       /\ \A a \in told[g] : /\ Decided(g)
                             /\ rows[<<g, 0>>].state = NewState(a[1])
                             /\ rows[<<g, 0>>].by = a[2]

\* The row is the source of truth (decide_approval): when the engine has acted on a gate
\* that has a row, it acted as the committed row says.
EngineFollowsRow ==
    \A g \in Gates : run[g].pc = "acted" /\ run[g].id =>
       /\ Decided(g)
       /\ rows[<<g, 0>>].state = NewState(run[g].decision)
       /\ rows[<<g, 0>>].by = run[g].by

\* A decided row never changes again (record_approval_decision's already_terminal).
DecidedIsFinal == [][\A g \in Gates : Decided(g) => rows'[<<g, 0>>] = rows[<<g, 0>>]]_rows

\* While no process dies, a caller who hears applied=True gets the engine to act or fail.
AnswerReachesEngine ==
    [](\A p \in Procs : up[p]) =>
       \A g \in Gates : (told[g] # {}) ~> (run[g].pc \in {"acted", "failed"})

\* ADR-0013's restart guarantee: a task whose gate is decided gets on, although processes
\* die and are restarted between the submission and the decision.
DecidedTaskEnds ==
    \A g \in Gates : Decided(g) ~> (run[g].pc \in {"acted", "failed"})

\* The rows and the engine implement OneDecision.
Gate == INSTANCE OneDecision WITH
          verdict <- [g \in Gates |->
                        IF ~Decided(g) THEN Nothing
                        ELSE <<IF rows[<<g, 0>>].state = "approved" THEN "approve" ELSE "reject",
                               rows[<<g, 0>>].by>>],
          acted <- [g \in Gates |-> IF run[g].pc = "acted" /\ run[g].id
                                    THEN <<run[g].decision, run[g].by>> ELSE Nothing]

IsOneDecision == Gate!Spec
=============================================================================
