--------------------------- MODULE Coordinator ---------------------------
(***************************************************************************)
(* One server process that runs contract reviews: Coordinator.run and      *)
(* _exec_node (orchestra/coordinator/engine.py), the rows and the audit    *)
(* timeline they write, the live bus they publish to and the SSE endpoint  *)
(* that reads it.                                                          *)
(*                                                                         *)
(* The coroutine of a task is suspended only while an adapter is called    *)
(* and while a human decides.  From one suspension to the next it makes    *)
(* its store calls and emits in a fixed order, here a sequence of Ops,     *)
(* and any of them may raise.  The loop runs one coroutine at a time; the  *)
(* process may die between any two store calls.                            *)
(***************************************************************************)
EXTENDS Integers, Sequences

CONSTANTS Tasks,    \* task run ids
          Subs,     \* SSE connections
          Replay, QueueMax,
          MaxFaults,  \* bound on the ops that raise, in one behaviour
          NoTask, Done, Idle

VARIABLES row,     \* row[t]: state of the task_runs row
          node,    \* node[t][n]: state of the node_runs row of node n
          log,     \* log[t]: the events of t, in the order they were appended
          signed,  \* signed[t]: nodes with a row in receipts
          at,      \* at[t]: where the coroutine of t is suspended, or how it ended
          loop,    \* the coroutine that runs now and what it has left to do
          inputs,  \* self._initial_inputs, shared by all runs: whose they are
          read,    \* read[t]: whose inputs the ingest_contract node of t took
          faults,  \* how many ops have raised so far
          sunk,    \* tasks whose sink adapter has been called
          client,  \* client[s]: the SSE client of s
          got,     \* got[s]: what it has received
          hist, closed, topic, attached, queue

INSTANCE EventBus WITH Topics <- Tasks, NoTopic <- NoTask

runVars == <<row, node, log, signed, at, loop, inputs, read, faults, sunk>>
clientVars == <<client, got>>
bus == <<hist, closed, topic, attached, queue>>
vars == <<runVars, clientVars, bus>>

Adapted == {"extract_facts_local", "public_research", "write_sink"}
InProcess == {"ingest_contract", "merge"}
Nodes == Adapted \cup InProcess

\* The manifest of public_research may declare an egress view.
Egress == {"public_research"}

RowStates == {"none", "created", "planned", "running", "succeeded", "cancelled", "failed"}
NodeStates == {"none", "running", "succeeded", "failed"}
Places == {"none", "queued", "gate", "over", "escaped", "lost"} \cup Adapted

\* Ops: what one store call, emit or assignment does.
Row(s) == [op |-> "row", node |-> "-", to |-> s]
NodeRow(n, s) == [op |-> "node", node |-> n, to |-> s]
Event(k, n) == [op |-> "event", node |-> n, to |-> k]
Save(what, n) == [op |-> what, node |-> n, to |-> "-"]
Do(what) == Save(what, "-")

\* What the timeline tells, and of whom.
Kinds == {"task.received", "task.completed", "task.failed", "plan.created", "plan.signed",
          "policy.decision", "grant.issued", "receipt.signed", "io.intent", "io.sent",
          "io.received", "node.started", "node.succeeded", "node.failed",
          "node.awaiting-approval", "node.approved", "node.rejected"}
Subjects == Nodes \cup {"human_approval", "-"}

\* Statements that change nothing the model keeps, but for the borders of the try block.
Passing == {"plan", "grant", "merge", "verify", "try", "untry", "egress"}

\* What a coroutine that runs has to do.
Ops == [op : {"row", "node", "event", "receipt", "inputs", "lift", "close", "raise"} \cup Passing,
        node : Subjects, to : RowStates \cup NodeStates \cup Kinds \cup {"-"}]
Work == [task : Tasks, todo : Seq(Ops), next : Places, guarded : BOOLEAN]

ASSUME CoordinatorAssumption == /\ {Replay, QueueMax} \subseteq Nat \ {0} /\ MaxFaults \in Nat
                                /\ NoTask \notin Tasks /\ Idle \notin Work
                                /\ Done \notin Kinds \X Subjects

\* The plan binds the six nodes of the template in their order.
Plan == Do("plan")

\* A grant is signed, stored and announced; a receipt of an answer is signed and stored.
Grant(n) == <<Save("grant", n), Event("grant.issued", n)>>
Receipt(n) == Save("receipt", n)

TypeOK == /\ row \in [Tasks -> RowStates]
          /\ node \in [Tasks -> [Nodes -> NodeStates]]
          /\ signed \in [Tasks -> SUBSET Adapted]
          /\ at \in [Tasks -> Places]
          /\ loop = Idle \/ (loop.task \in Tasks /\ loop.next \in Places)
          /\ inputs \in Tasks \cup {NoTask}
          /\ read \in [Tasks -> Tasks \cup {NoTask}]
          /\ sunk \subseteq Tasks
          /\ faults \in 0..MaxFaults
          /\ client \in [Subs -> {"away", "reading", "done"}]
          /\ closed \subseteq Tasks
          /\ topic \in [Subs -> Tasks \cup {NoTask}]
          /\ \A t \in Tasks : Len(hist[t]) <= Replay
          /\ \A s \in Subs : Len(queue[s]) <= QueueMax

Init == /\ row = [t \in Tasks |-> "none"]
        /\ node = [t \in Tasks |-> [n \in Nodes |-> "none"]]
        /\ log = [t \in Tasks |-> <<>>]
        /\ signed = [t \in Tasks |-> {}]
        /\ at = [t \in Tasks |-> "none"]
        /\ loop = Idle
        /\ inputs = NoTask
        /\ read = [t \in Tasks |-> NoTask]
        /\ sunk = {}
        /\ faults = 0
        /\ client = [s \in Subs |-> "away"]
        /\ got = [s \in Subs |-> <<>>]
        /\ BusInit

-----------------------------------------------------------------------------
(* What the coroutine does between two suspensions. *)

\* The head of _exec_node.
Enter(n) == <<NodeRow(n, "running"), Event("node.started", n)>>

\* ingest_contract and merge are computed in the process.
Inline(n, compute) == Enter(n) \o <<Do(compute), NodeRow(n, "succeeded"),
                                    Event("node.succeeded", n)>>

\* _deterministic_merge computes only with what it is given, and may raise.
Merge == Inline("merge", "merge")

\* The other nodes get a grant and pass the egress check; then the adapter is called.
Request(n) == Enter(n) \o Grant(n) \o <<Save("egress", n)>>

\* Mutant: the running state is not written.
Opening_NoRunning == <<Do("inputs"), Row("created"), Event("task.received", "-"), Plan,
                       Row("planned"), Event("plan.created", "-"), Event("plan.signed", "-"),
                       Do("try")>>

\* From the start of run to the first node.
Opening == <<Do("inputs"), Row("created"), Event("task.received", "-"), Plan,
             Row("planned"), Event("plan.created", "-"), Event("plan.signed", "-"),
             Row("running"), Do("try")>>

\* Mutant: the node is reported before its receipt is stored.
Answer_NoReceipt(n) == <<Event("io.intent", n), Event("io.sent", n), Event("io.received", n),
                         NodeRow(n, "succeeded"), Event("receipt.signed", n),
                         Event("node.succeeded", n)>>

\* The adapter has answered.
Answer(n) == <<Event("io.intent", n), Event("io.sent", n), Event("io.received", n),
               NodeRow(n, "succeeded"), Receipt(n), Event("receipt.signed", n),
               Event("node.succeeded", n)>>

\* The adapter has raised, or the egress check has refused the inputs.
Failure(n) == <<NodeRow(n, "failed"), Event("node.failed", n), Do("raise")>>
Denied(n) == <<Event("policy.decision", n)>> \o Failure(n)

\* Mutants: the handler writes a state that is not one, or none at all.
Handler_Aborted == <<Row("aborted"), Event("task.failed", "-"), Do("close")>>
Handler_NoRow == <<Event("task.failed", "-"), Do("close")>>

\* The handler of the try block.
Handler == <<Row("failed"), Event("task.failed", "-"), Do("close")>>

\* Mutant: whatever the human answers, the sink is called.
Decision_Ignored(d) ==
    [todo |-> <<Event(IF d = "approve" THEN "node.approved" ELSE "node.rejected",
                      "human_approval")>> \o Request("write_sink"),
     next |-> "write_sink"]

\* The human's answer; a rejection ends the task inside the try block.
Decision(d) ==
    IF d = "approve"
    THEN [todo |-> <<Event("node.approved", "human_approval")>> \o Request("write_sink"),
          next |-> "write_sink"]
    ELSE [todo |-> <<Event("node.rejected", "human_approval"), Row("cancelled"),
                     Event("task.failed", "-"), Do("close")>>,
          next |-> "over"]

\* Receipts are verified, and the bus is closed, after the try block.
Closing == <<Row("succeeded"), Event("task.completed", "-"), Do("untry"), Do("verify"),
             Do("close")>>

\* What the coroutine of t may do when it runs again, and where that leaves it.
Resumed(t) ==
    CASE at[t] = "queued" ->
           {[todo |-> Opening \o Inline("ingest_contract", "lift")
                              \o Request("extract_facts_local"),
             next |-> "extract_facts_local"]}
      [] at[t] = "extract_facts_local" ->
           {[todo |-> Answer(at[t]) \o Request("public_research"), next |-> "public_research"]}
      [] at[t] = "public_research" ->
           {[todo |-> Answer(at[t]) \o Merge
                                    \o <<Event("node.awaiting-approval", "human_approval")>>,
             next |-> "gate"]}
      [] at[t] = "gate" -> {Decision("approve"), Decision("reject")}
      [] at[t] = "write_sink" -> {[todo |-> Answer(at[t]) \o Closing, next |-> "over"]}
      [] OTHER -> {}

-----------------------------------------------------------------------------
(* The event loop. *)

\* POST /tasks: the row is written up front and the coroutine is scheduled.
Submit(t) == /\ loop = Idle /\ at[t] = "none"
             /\ row' = [row EXCEPT ![t] = "created"]
             /\ at' = [at EXCEPT ![t] = "queued"]
             /\ UNCHANGED <<node, log, signed, loop, inputs, read, faults, sunk, clientVars, bus>>

Guarded(t) == at[t] # "queued"

\* The coroutine of t is started, its adapter answers, or a human decides.
Resume(t) == /\ loop = Idle
             /\ \E r \in Resumed(t) :
                   loop' = [task |-> t, todo |-> r.todo, next |-> r.next, guarded |-> Guarded(t)]
             /\ UNCHANGED <<row, node, log, signed, at, inputs, read, faults, sunk, clientVars, bus>>

\* The adapter raises, or times out.
AdapterFails(t) == /\ loop = Idle /\ at[t] \in Adapted
                   /\ loop' = [task |-> t, todo |-> Failure(at[t]), next |-> "over",
                               guarded |-> TRUE]
                   /\ UNCHANGED <<row, node, log, signed, at, inputs, read, faults, sunk, clientVars,
                                  bus>>

Busy == loop # Idle /\ loop.todo # <<>>
Op == Head(loop.todo)
Popped == [loop EXCEPT !.todo = Tail(@)]

SetRow == /\ Busy /\ Op.op = "row"
          /\ row' = [row EXCEPT ![loop.task] = Op.to]
          /\ loop' = Popped
          /\ UNCHANGED <<node, log, signed, at, inputs, read, faults, sunk, clientVars, bus>>

SetNode == /\ Busy /\ Op.op = "node"
           /\ node' = [node EXCEPT ![loop.task][Op.node] = Op.to]
           /\ loop' = Popped
           /\ UNCHANGED <<row, log, signed, at, inputs, read, faults, sunk, clientVars, bus>>

\* _emit: append_event, then publish.
Emit == LET e == <<Op.to, Op.node>>
        IN /\ Busy /\ Op.op = "event"
           /\ log' = [log EXCEPT ![loop.task] = Append(@, e)]
           /\ Publish(loop.task, e)
           /\ loop' = Popped
           /\ UNCHANGED <<row, node, signed, at, inputs, read, faults, sunk, clientVars>>

SaveReceipt == /\ Busy /\ Op.op = "receipt"
               /\ signed' = [signed EXCEPT ![loop.task] = @ \cup {Op.node}]
               /\ loop' = Popped
               /\ UNCHANGED <<row, node, log, at, inputs, read, faults, sunk, clientVars, bus>>

\* Mutant: inputs that are there already are kept.
NewInputs_Once(t) == IF inputs = NoTask THEN t ELSE inputs

NewInputs(t) == t

KeepInputs == /\ Busy /\ Op.op = "inputs"
              /\ inputs' = NewInputs(loop.task)
              /\ loop' = Popped
              /\ UNCHANGED <<row, node, log, signed, at, read, faults, sunk, clientVars, bus>>

\* ingest_contract lifts the shared inputs into the results of its task.
LiftInputs == /\ Busy /\ Op.op = "lift"
              /\ read' = [read EXCEPT ![loop.task] = inputs]
              /\ loop' = Popped
              /\ UNCHANGED <<row, node, log, signed, at, inputs, faults, sunk, clientVars, bus>>

\* Planning, grants, the merge, the verification of receipts, the borders of the try block,
\* and an egress check that passes.
Pass == /\ Busy /\ Op.op \in Passing
        /\ loop' = [Popped EXCEPT !.guarded = IF Op.op = "try" THEN TRUE
                                              ELSE IF Op.op = "untry" THEN FALSE ELSE @]
        /\ UNCHANGED <<row, node, log, signed, at, inputs, read, faults, sunk, clientVars, bus>>

Deny == /\ Busy /\ Op.op = "egress" /\ Op.node \in Egress
        /\ loop' = [loop EXCEPT !.todo = Denied(Op.node), !.next = "over"]
        /\ UNCHANGED <<row, node, log, signed, at, inputs, read, faults, sunk, clientVars, bus>>

CloseBus == /\ Busy /\ Op.op = "close"
            /\ Close(loop.task)
            /\ loop' = Popped
            /\ UNCHANGED <<row, node, log, signed, at, inputs, read, faults, sunk, clientVars>>

Raising == {"row", "node", "event", "receipt", "plan", "grant", "merge", "verify",
            "egress"}

\* The op raises: into the handler of the try block, or out of the coroutine.  An egress
\* op that raises stands for a capability without an adapter.
Raise == /\ Busy
         /\ \/ Op.op = "raise" /\ UNCHANGED faults
            \/ Op.op \in Raising /\ faults < MaxFaults /\ faults' = faults + 1
         /\ IF loop.guarded
            THEN loop' = [loop EXCEPT !.todo = Handler, !.next = "over", !.guarded = FALSE]
                 /\ UNCHANGED at
            ELSE loop' = Idle /\ at' = [at EXCEPT ![loop.task] = "escaped"]
         /\ UNCHANGED <<row, node, log, signed, inputs, read, sunk, clientVars, bus>>

\* The coroutine awaits, which calls the adapter of the node it is at, or returns.
Suspend == /\ loop # Idle /\ loop.todo = <<>>
           /\ at' = [at EXCEPT ![loop.task] = loop.next]
           /\ sunk' = IF loop.next = "write_sink" THEN sunk \cup {loop.task} ELSE sunk
           /\ loop' = Idle
           /\ UNCHANGED <<row, node, log, signed, inputs, read, faults, clientVars, bus>>

\* The process dies and is started again: rows and events stay, nobody resumes the tasks.
Crash == /\ \E t \in Tasks : at[t] # "none"
         /\ at' = [t \in Tasks |-> IF at[t] \in {"queued", "gate"} \cup Adapted
                                   THEN "lost" ELSE at[t]]
         /\ loop' = Idle
         /\ inputs' = NoTask
         /\ client' = [s \in Subs |-> "away"]
         /\ got' = [s \in Subs |-> <<>>]
         /\ hist' = [t \in Tasks |-> <<>>]
         /\ closed' = {}
         /\ topic' = [s \in Subs |-> NoTask]
         /\ attached' = {}
         /\ queue' = [s \in Subs |-> <<>>]
         /\ UNCHANGED <<row, node, log, signed, read, faults, sunk>>

-----------------------------------------------------------------------------
(* GET /tasks/{id}/events/stream: one SSE connection. *)

Connect(s, t) == /\ loop = Idle /\ client[s] = "away"
                 /\ Subscribe(s, t)
                 /\ client' = [client EXCEPT ![s] = "reading"]
                 /\ UNCHANGED <<runVars, got>>

\* The events before the sentinel.
Lines(q) ==
    LET ends == {i \in DOMAIN q : q[i] = Done}
    IN IF ends = {} THEN q ELSE SubSeq(q, 1, (CHOOSE i \in ends : \A j \in ends : i <= j) - 1)

\* The read loop takes what is in the queue: a data line for each event, up to the sentinel,
\* and for that "event: done" and the end of the connection.
Receive(s) == /\ loop = Idle /\ client[s] = "reading" /\ queue[s] # <<>>
              /\ got' = [got EXCEPT ![s] = @ \o Lines(queue[s])]
              /\ Drain(s)
              /\ IF \A i \in DOMAIN queue[s] : queue[s][i] # Done
                 THEN UNCHANGED <<client, attached>>
                 ELSE /\ client' = [client EXCEPT ![s] = "done"]
                      /\ attached' = attached \ {s}
              /\ UNCHANGED runVars

\* The client goes away in the middle.
Disconnect(s) == /\ loop = Idle /\ client[s] = "reading"
                 /\ Unsubscribe(s)
                 /\ client' = [client EXCEPT ![s] = "away"]
                 /\ got' = [got EXCEPT ![s] = <<>>]
                 /\ UNCHANGED runVars

-----------------------------------------------------------------------------

RunOp == SetRow \/ SetNode \/ Emit \/ SaveReceipt \/ KeepInputs \/ LiftInputs \/ Pass \/ Deny
         \/ CloseBus \/ Raise \/ Suspend

Next == \/ RunOp
        \/ Crash
        \/ \E t \in Tasks : Submit(t) \/ Resume(t) \/ AdapterFails(t)
        \/ \E s \in Subs : Receive(s) \/ Disconnect(s) \/ \E t \in Tasks : Connect(s, t)

Spec == Init /\ [][Next]_vars

-----------------------------------------------------------------------------
(* Properties. *)

Logged(t, k, n) == \E i \in DOMAIN log[t] : log[t][i] = <<k, n>>

\* Invariant 7 of spec/security/26-invariants.md: the sink, the one node with an effect
\* outside, is called only after a human approved, and the timeline already says so.
SinkNeedsApproval ==
    \A t \in sunk : /\ Logged(t, "node.approved", "human_approval")
                    /\ Logged(t, "grant.issued", "write_sink")

\* _derive_node_runs: what the review console shows of a node is what the timeline said last.
ShownAs == [k \in {"node.started", "node.succeeded", "node.failed", "node.awaiting-approval"} |->
              CASE k = "node.started" -> "running"
                [] k = "node.succeeded" -> "succeeded"
                [] k = "node.failed" -> "failed"
                [] OTHER -> "awaiting-approval"]
Shown(t, n) ==
    LET told == {i \in DOMAIN log[t] : log[t][i][2] = n /\ log[t][i][1] \in DOMAIN ShownAs}
    IN IF told = {} THEN "pending"
       ELSE ShownAs[log[t][CHOOSE i \in told : \A j \in told : j <= i][1]]

\* The end of a run is told alike by the row, the timeline, the console and the bus: whatever
\* raised where, when run returns the last event fits the row and the stream is closed after
\* it.  The console never shows a node as ended that its row does not call ended alike, and a
\* run that succeeded has all nodes done, for the console too, and a stored receipt for each
\* adapter call.
EndIsToldAlike ==
    \A t \in Tasks : at[t] = "over" =>
       /\ <<row[t], log[t][Len(log[t])][1]>> \in {<<"succeeded", "task.completed">>,
                                                 <<"cancelled", "task.failed">>,
                                                 <<"failed", "task.failed">>}
       /\ \A n \in Nodes : Shown(t, n) \in {"succeeded", "failed"} => node[t][n] = Shown(t, n)
       /\ row[t] = "succeeded" => /\ \A n \in Nodes : /\ node[t][n] = "succeeded"
                                                     /\ Shown(t, n) = "succeeded"
                                  /\ signed[t] = Adapted

\* A receipt is announced only when it is stored, and a node that is told to have succeeded
\* outside the process has one.
ReceiptsAreStored ==
    \A t \in Tasks, n \in Adapted :
       Logged(t, "receipt.signed", n) \/ Logged(t, "node.succeeded", n) => n \in signed[t]

\* self._initial_inputs is shared by all runs of the process; still every run reads its
\* own, because nothing is awaited between the write and the read.
OwnInputs == \A t \in Tasks : read[t] \in {NoTask, t}

\* The tables of orchestra/runtime/state_machine.py, among the states the engine writes.
\* The engine does not consult them; what it adds is a task that fails after its end was
\* recorded, when recording the end raises.
TaskTransitions == {<<"none", "created">>, <<"created", "planned">>, <<"planned", "running">>,
                    <<"running", "succeeded">>, <<"running", "failed">>,
                    <<"running", "cancelled">>}
NodeTransitions == {<<"none", "running">>, <<"running", "succeeded">>, <<"running", "failed">>}
LateFailures == {<<"succeeded", "failed">>, <<"cancelled", "failed">>}

\* No interleaving of runs, failures and restarts moves a task or a node against the tables,
\* but for those late failures; a run that has returned never moves again.
StatesFollowTables ==
    [][\A t \in Tasks :
          /\ row'[t] # row[t] => /\ <<row[t], row'[t]>> \in TaskTransitions \cup LateFailures
                                 /\ at[t] \notin {"over", "escaped", "lost"}
          /\ \A n \in Nodes : node'[t][n] # node[t][n]
                               => <<node[t][n], node'[t][n]>> \in NodeTransitions]_vars

\* What a client has received and what waits for it are the timeline of its task from the
\* first event on, without gap or repetition, however late it came (after a restart, of
\* nothing); "done" comes after the last event.
StreamIsTimeline ==
    \A s \in Subs :
       /\ client[s] = "reading" => /\ got[s] \o Lines(queue[s]) = hist[topic[s]]
                                   /\ hist[topic[s]] \in {log[topic[s]], <<>>}
       /\ client[s] = "done" => got[s] \in {log[topic[s]], <<>>} /\ at[topic[s]] = "over"

\* Whichever comes first, the close or the subscription: a client on a closed topic has the
\* sentinel in its queue, and behind everything else.
ClosedStreamEnds ==
    \A s \in Subs : client[s] = "reading" /\ topic[s] \in closed =>
       queue[s] # <<>> /\ queue[s][Len(queue[s])] = Done
=============================================================================
