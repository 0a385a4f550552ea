------------------------------ MODULE Runtime ------------------------------
(***************************************************************************)
(* The runtime services around a node run (orchestra/runtime/): leases     *)
(* with fencing tokens and the guard that compares them, the credential    *)
(* broker's keys, the reconciler, and the outbox whose dispatcher appends  *)
(* the events to the event store, where append_event takes two             *)
(* transactions: one reads the next sequence number, one inserts.          *)
(*                                                                         *)
(* Nothing in the repository calls these services together.  Their caller  *)
(* is taken from their docstrings: a worker presents its token and grant   *)
(* on every write, an accepted write enqueues an event, and a node run     *)
(* gets a new lease only when the one before has ended.  The actions of    *)
(* that caller are marked external.  A worker that lost its lease may go   *)
(* on writing at any time; what is refused raises and changes nothing.     *)
(***************************************************************************)
EXTENDS Integers, Sequences, FiniteSets

CONSTANTS Cells,        \* tenants; each has one task run
          Runs,         \* node runs
          CellOf,       \* the cell of a node run
          Dispatchers,  \* threads that flush the outbox
          MaxLeases,    \* bound: leases ever issued
          MaxEvents,    \* bound: events ever enqueued
          MaxTries,     \* bound: attempts are counted up to here
          MaxKids,      \* bound: keys of a cell
          MaxFaults     \* bound: failures of the database and interrupted flushes

ASSUME RuntimeAssumption == /\ CellOf \in [Runs -> Cells]
                            /\ MaxLeases \in Nat /\ MaxEvents \in Nat
                            /\ MaxTries \in Nat /\ MaxKids \in Nat \ {0} /\ MaxFaults \in Nat

VARIABLES leases,     \* the leases; the token of a lease is its index
          running,    \* the node runs whose state is "running"
          unknown,    \* unknown_node_runs of the last report
          cellHigh,   \* _high_water_per_cell
          nodeHigh,   \* _high_water_per_node_run
          kids,       \* how many keys a cell has; the last one is current
          revoked,    \* the revoked keys
          entries,    \* the outbox
          rows,       \* the events table
          flush,      \* where each dispatcher is
          faults

vars == <<leases, running, unknown, cellHigh, nodeHigh, kids, revoked, entries, rows, flush, faults>>
workerVars == <<leases, running, unknown, cellHigh, nodeHigh, kids, revoked>>

LeaseStates == {"pending", "active", "expired", "revoked", "completed"}
Lease == [run : Runs, state : LeaseStates, due : BOOLEAN, kid : 1..MaxKids]
Entry == [token : 1..MaxLeases, run : Runs, attempts : 0..MaxTries, delivered : BOOLEAN]
Row == [event : 1..MaxEvents, cell : Cells, seq : Nat]
Steps == {"read", "insert", "mark"}
Flush == [step : Steps \cup {"idle"}, batch : SUBSET (1..MaxEvents), seq : Nat]
Idle == [step |-> "idle", batch |-> {}, seq |-> 0]

\* No token yet: the high-water is -1.
Unset == 0 - 1
Live(l) == l.state \in {"pending", "active"}

Init == /\ leases = <<>>
        /\ running = {}
        /\ unknown = {}
        /\ cellHigh = [c \in Cells |-> Unset]
        /\ nodeHigh = [r \in Runs |-> Unset]
        /\ kids = [c \in Cells |-> 1]
        /\ revoked = {}
        /\ entries = <<>>
        /\ rows = <<>>
        /\ flush = [d \in Dispatchers |-> Idle]
        /\ faults = 0

-----------------------------------------------------------------------------
(* CredentialBroker *)

\* verify signs the grant anew with each key of its cell and takes any that is not revoked.
Verifies(l) == \E k \in 1..kids[CellOf[l.run]] : <<CellOf[l.run], k>> \notin revoked

Rotate(c) ==
    /\ kids[c] < MaxKids
    /\ kids' = [kids EXCEPT ![c] = @ + 1]
    /\ UNCHANGED <<leases, running, unknown, cellHigh, nodeHigh, revoked, entries, rows, flush, faults>>

Revoke(c, k) ==
    /\ k <= kids[c]
    /\ revoked' = revoked \cup {<<c, k>>}
    /\ UNCHANGED <<leases, running, unknown, cellHigh, nodeHigh, kids, entries, rows, flush, faults>>

-----------------------------------------------------------------------------
(* Leases and the reconciler *)

\* External: a lease with the next token, and a grant under the current key.
IssueLease(r) ==
    /\ Len(leases) < MaxLeases
    /\ \A i \in DOMAIN leases : leases[i].run = r => leases[i].state \in {"expired", "completed"}
    /\ leases' = Append(leases, [run |-> r, state |-> "pending", due |-> FALSE,
                                 kid |-> kids[CellOf[r]]])
    /\ UNCHANGED <<running, unknown, cellHigh, nodeHigh, kids, revoked, entries, rows, flush, faults>>

\* The clock passes expires_at; that of an ended lease matters to nobody.
FallDue(i) ==
    /\ Live(leases[i]) /\ ~leases[i].due
    /\ leases' = [leases EXCEPT ![i].due = TRUE]
    /\ UNCHANGED <<running, unknown, cellHigh, nodeHigh, kids, revoked, entries, rows, flush, faults>>

\* External: an administrator revokes a lease.
RevokeLease(i) ==
    /\ Live(leases[i])
    /\ leases' = [leases EXCEPT ![i].state = "revoked"]
    /\ UNCHANGED <<running, unknown, cellHigh, nodeHigh, kids, revoked, entries, rows, flush, faults>>

\* The report changes no lease; node runs of overdue leases that still run are Unknown.
Reconcile ==
    /\ unknown' = {leases[i].run : i \in {i \in DOMAIN leases : /\ Live(leases[i])
                                                               /\ leases[i].due
                                                               /\ leases[i].run \in running}}
    /\ UNCHANGED <<leases, running, cellHigh, nodeHigh, kids, revoked, entries, rows, flush, faults>>

\* Mutant: the high-water of the cell goes as well.
ResetNodeRun_Cell(r) ==
    /\ nodeHigh' = [nodeHigh EXCEPT ![r] = Unset]
    /\ cellHigh' = [cellHigh EXCEPT ![CellOf[r]] = Unset]

ResetNodeRun(r) ==
    /\ nodeHigh' = [nodeHigh EXCEPT ![r] = Unset]
    /\ UNCHANGED cellHigh

\* External: somebody has decided about an Unknown node run; its worker counts as dead.
ConfirmDead(r) ==
    /\ r \in unknown
    /\ leases' = [i \in DOMAIN leases |->
                    IF leases[i].run = r /\ Live(leases[i]) /\ leases[i].due
                    THEN [leases[i] EXCEPT !.state = "expired"] ELSE leases[i]]
    /\ unknown' = unknown \ {r}
    /\ ResetNodeRun(r)
    /\ UNCHANGED <<running, kids, revoked, entries, rows, flush, faults>>

-----------------------------------------------------------------------------
(* FencingGuard.check and what an accepted write does *)

AtLeast(a, b) == IF a >= b THEN a ELSE b

\* The token of lease i is below no high-water of its cell or its node run.
Accepted(i, r) == i >= cellHigh[CellOf[r]] /\ i >= nodeHigh[r]

\* External: the worker of lease i, alive or not, writes; the last write ends the lease.
Write(i, r, last) ==
    /\ leases[i].run = r
    /\ Len(entries) < MaxEvents
    /\ Verifies(leases[i])
    /\ Accepted(i, r)
    /\ cellHigh' = [cellHigh EXCEPT ![CellOf[r]] = AtLeast(i, @)]
    /\ nodeHigh' = [nodeHigh EXCEPT ![r] = AtLeast(i, @)]
    /\ entries' = Append(entries, [token |-> i, run |-> r, attempts |-> 0, delivered |-> FALSE])
    /\ running' = IF last THEN running \ {r} ELSE running \cup {r}
    /\ leases' = IF Live(leases[i])
                 THEN [leases EXCEPT ![i].state = IF last THEN "completed" ELSE "active"]
                 ELSE leases
    /\ UNCHANGED <<unknown, kids, revoked, rows, flush, faults>>

-----------------------------------------------------------------------------
(* Outbox and Dispatcher.flush *)

\* Mutant: an entry that was tried MaxTries times is given up.
Pending_GivesUp == {e \in DOMAIN entries : ~entries[e].delivered /\ entries[e].attempts < MaxTries}

Pending == {e \in DOMAIN entries : ~entries[e].delivered}

\* A flush works on the pending entries of its start, the oldest first.
Oldest(S) == CHOOSE e \in S : \A f \in S : e <= f
Now(d) == Oldest(flush[d].batch)

Tried(e) == [entries EXCEPT ![e].attempts = IF @ < MaxTries THEN @ + 1 ELSE MaxTries]

\* What the dispatcher goes on with after one entry of its batch.
Rest(d) == IF flush[d].batch = {Now(d)} THEN Idle
           ELSE [step |-> "read", batch |-> flush[d].batch \ {Now(d)}, seq |-> 0]

\* Mutant: what a flush takes counts as delivered at once.
Begin_Marks(d) ==
    /\ flush[d] = Idle
    /\ Pending # {}
    /\ flush' = [flush EXCEPT ![d] = [step |-> "read", batch |-> Pending, seq |-> 0]]
    /\ entries' = [e \in DOMAIN entries |-> [entries[e] EXCEPT !.delivered = TRUE]]
    /\ UNCHANGED <<workerVars, rows, faults>>

Begin(d) ==
    /\ flush[d] = Idle
    /\ Pending # {}
    /\ flush' = [flush EXCEPT ![d] = [step |-> "read", batch |-> Pending, seq |-> 0]]
    /\ UNCHANGED <<workerVars, entries, rows, faults>>

\* Mutant: the next number is the highest one.
NextSeq_Same(c) == LET used == {rows[k].seq : k \in {k \in DOMAIN rows : rows[k].cell = c}}
                   IN CHOOSE s \in used \cup {1} : \A t \in used : s >= t

NextSeq(c) == LET used == {rows[k].seq : k \in {k \in DOMAIN rows : rows[k].cell = c}} \cup {0}
              IN 1 + CHOOSE s \in used : \A t \in used : s >= t

\* append_event, first transaction: SELECT MAX(seq) + 1.
ReadSeq(d) ==
    /\ flush[d].step = "read"
    /\ flush' = [flush EXCEPT ![d].step = "insert",
                              ![d].seq = NextSeq(CellOf[entries[Now(d)].run])]
    /\ UNCHANGED <<workerVars, entries, rows, faults>>

Stored(e) == \E k \in DOMAIN rows : rows[k].event = e

\* Second transaction: INSERT, unless the event's primary key is there already.
Insert(d) ==
    /\ flush[d].step = "insert"
    /\ ~Stored(Now(d))
    /\ rows' = Append(rows, [event |-> Now(d),
                             cell |-> CellOf[entries[Now(d)].run],
                             seq |-> flush[d].seq])
    /\ flush' = [flush EXCEPT ![d].step = "mark"]
    /\ UNCHANGED <<workerVars, entries, faults>>

\* The sink raised: the event is there already, or the database did not answer.
MarkFailed(d) ==
    /\ \/ flush[d].step = "insert" /\ Stored(Now(d)) /\ UNCHANGED faults
       \/ flush[d].step \in {"read", "insert"} /\ faults < MaxFaults /\ faults' = faults + 1
    /\ entries' = Tried(Now(d))
    /\ flush' = [flush EXCEPT ![d] = Rest(d)]
    /\ UNCHANGED <<workerVars, rows>>

MarkDelivered(d) ==
    /\ flush[d].step = "mark"
    /\ entries' = [Tried(Now(d)) EXCEPT ![Now(d)].delivered = TRUE]
    /\ flush' = [flush EXCEPT ![d] = Rest(d)]
    /\ UNCHANGED <<workerVars, rows, faults>>

\* flush catches Exception only: an interrupt ends it between any two calls.
Abort(d) ==
    /\ flush[d] # Idle
    /\ faults < MaxFaults
    /\ faults' = faults + 1
    /\ flush' = [flush EXCEPT ![d] = Idle]
    /\ UNCHANGED <<workerVars, entries, rows>>

-----------------------------------------------------------------------------
Next == \/ \E c \in Cells : Rotate(c) \/ \E k \in 1..MaxKids : Revoke(c, k)
        \/ \E r \in Runs : IssueLease(r) \/ ConfirmDead(r)
        \/ \E i \in DOMAIN leases : \/ FallDue(i) \/ RevokeLease(i)
                                    \/ \E r \in Runs, last \in BOOLEAN : Write(i, r, last)
        \/ Reconcile
        \/ \E d \in Dispatchers : \/ Begin(d) \/ ReadSeq(d) \/ Insert(d)
                                  \/ MarkFailed(d) \/ MarkDelivered(d) \/ Abort(d)

Spec == Init /\ [][Next]_vars

\* The dispatcher is called at a fixed interval and goes through its batch; faults end.
Fairness == \A d \in Dispatchers :
    WF_vars(Begin(d) \/ ReadSeq(d) \/ Insert(d) \/ MarkFailed(d) \/ MarkDelivered(d))
LiveSpec == Spec /\ Fairness

-----------------------------------------------------------------------------
TypeOK == /\ leases \in Seq(Lease)
          /\ running \subseteq Runs /\ unknown \subseteq Runs
          /\ cellHigh \in [Cells -> Int] /\ nodeHigh \in [Runs -> Int]
          /\ kids \in [Cells -> 1..MaxKids] /\ revoked \subseteq Cells \X (1..MaxKids)
          /\ entries \in Seq(Entry) /\ rows \in Seq(Row)
          /\ flush \in [Dispatchers -> Flush]
          /\ \A d \in Dispatchers : \/ flush[d] = Idle
                                    \/ /\ flush[d].step \in Steps /\ flush[d].batch # {}
                                       /\ flush[d].batch \subseteq DOMAIN entries
          /\ faults \in 0..MaxFaults

\* Once a worker with a younger token has written in a cell, no older one writes there
\* again, whatever was confirmed dead and reset in between (FencingGuard.check).
NoZombieWrites ==
    \A i, j \in DOMAIN entries :
        i < j /\ CellOf[entries[i].run] = CellOf[entries[j].run]
          => entries[i].token <= entries[j].token

\* What the outbox calls delivered is in the events table, and nothing is there twice,
\* however often a flush is interrupted and repeated (Dispatcher.flush).
DeliveredIsStored ==
    /\ \A e \in DOMAIN entries : entries[e].delivered => Stored(e)
    /\ \A j, k \in DOMAIN rows : rows[j].event = rows[k].event => j = k

\* The events of a task are numbered without a tie, in the order they were stored,
\* as long as one thread flushes: append_event reads the number in a transaction of its own.
SeqsAreDistinct ==
    \A j, k \in DOMAIN rows : j < k /\ rows[j].cell = rows[k].cell => rows[j].seq < rows[k].seq

\* An accepted write gets into the events table, after failures and interrupted flushes.
EveryEventArrives == \A e \in 1..MaxEvents : e \in DOMAIN entries ~> Stored(e)
=============================================================================
