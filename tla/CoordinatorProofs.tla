------------------------- MODULE CoordinatorProofs -------------------------
(***************************************************************************)
(* Proofs about Coordinator, for any number of tasks, connections and      *)
(* faults, every interleaving, failure and crash.                          *)
(*                                                                         *)
(* A coroutine that runs has a fixed list of ops before it.  What is true  *)
(* of its task after each of them is told by an automaton: a set of moves  *)
(* <<op, state before, state after>>.  The inductive invariants say that   *)
(* the ops that are left take the task from the state it is in to one that *)
(* is right for the place where the coroutine is suspended next.           *)
(***************************************************************************)
EXTENDS Coordinator, SequenceTheorems, WellFoundedInduction, TLAPS

-----------------------------------------------------------------------------
(* Lists of ops as the words of an automaton. *)

\* With moves M among states S, the ops s lead from state a into a state of B.
Leads(M, S, s, a, B) ==
    \E path \in [1..(Len(s) + 1) -> S] :
       /\ path[1] = a /\ path[Len(s) + 1] \in B
       /\ \A i \in 1..Len(s) : <<s[i], path[i], path[i + 1]>> \in M

\* Nothing is left to do.
LEMMA LeadsNowhere ==
  ASSUME NEW M, NEW S, NEW a, NEW B
  PROVE  Leads(M, S, <<>>, a, B) <=> a \in S /\ a \in B
<1>1. ASSUME Leads(M, S, <<>>, a, B) PROVE a \in S /\ a \in B
  BY <1>1 DEF Leads
<1>2. ASSUME a \in S, a \in B PROVE Leads(M, S, <<>>, a, B)
  <2> DEFINE path == [i \in 1..1 |-> a]
  <2>1. Len(<<>>) = 0 /\ 1..0 = {}
    OBVIOUS
  <2>2. path \in [1..(Len(<<>>) + 1) -> S] /\ path[1] = a /\ path[Len(<<>>) + 1] = a
    BY <1>2, <2>1
  <2> HIDE DEF path
  <2> QED BY <1>2, <2>1, <2>2 DEF Leads
<1> QED BY <1>1, <1>2

\* The first op is done.
LEMMA LeadsOn ==
  ASSUME NEW M, NEW S, NEW R, NEW s \in Seq(R), s # <<>>, NEW a, NEW B, Leads(M, S, s, a, B)
  PROVE  /\ Head(s) \in R /\ Tail(s) \in Seq(R) /\ a \in S
         /\ \E b \in S : <<Head(s), a, b>> \in M /\ Leads(M, S, Tail(s), b, B)
<1>1. PICK path \in [1..(Len(s) + 1) -> S] :
         /\ path[1] = a /\ path[Len(s) + 1] \in B
         /\ \A i \in 1..Len(s) : <<s[i], path[i], path[i + 1]>> \in M
  BY DEF Leads
<1>2. /\ Len(s) \in Nat /\ Len(s) >= 1 /\ Head(s) = s[1] /\ Head(s) \in R
      /\ Tail(s) \in Seq(R) /\ Len(Tail(s)) = Len(s) - 1
      /\ \A i \in 1..(Len(s) - 1) : Tail(s)[i] = s[i + 1]
  BY HeadTailProperties, EmptySeq, LenProperties
<1> DEFINE rest == [i \in 1..Len(s) |-> path[i + 1]]
<1>3. rest \in [1..(Len(Tail(s)) + 1) -> S]
  BY <1>2
<1>4. /\ rest[1] = path[2] /\ rest[Len(Tail(s)) + 1] \in B
      /\ \A i \in 1..Len(Tail(s)) : <<Tail(s)[i], rest[i], rest[i + 1]>> \in M
  BY <1>1, <1>2
<1>5. Leads(M, S, Tail(s), path[2], B)
  BY <1>3, <1>4 DEF Leads
<1> QED BY <1>1, <1>2, <1>5

\* One list after the other.
LEMMA LeadsAlong ==
  ASSUME NEW M, NEW S, NEW R, NEW s \in Seq(R), NEW r \in Seq(R), NEW a, NEW B, NEW C,
         Leads(M, S, s, a, C), \A b \in C \cap S : Leads(M, S, r, b, B)
  PROVE  Leads(M, S, s \o r, a, B)
<1>1. PICK p \in [1..(Len(s) + 1) -> S] :
         /\ p[1] = a /\ p[Len(s) + 1] \in C
         /\ \A i \in 1..Len(s) : <<s[i], p[i], p[i + 1]>> \in M
  BY DEF Leads
<1> PICK b : b = p[Len(s) + 1]
  OBVIOUS
<1>0. b \in C \cap S
  BY <1>1, LenProperties
<1>2. PICK q \in [1..(Len(r) + 1) -> S] :
         /\ q[1] = b /\ q[Len(r) + 1] \in B
         /\ \A i \in 1..Len(r) : <<r[i], q[i], q[i + 1]>> \in M
  BY <1>0 DEF Leads
<1>3. /\ Len(s) \in Nat /\ Len(r) \in Nat /\ Len(s \o r) = Len(s) + Len(r)
      /\ \A i \in 1..(Len(s) + Len(r)) : (s \o r)[i] = IF i <= Len(s) THEN s[i] ELSE r[i - Len(s)]
  BY ConcatProperties, LenProperties
<1> DEFINE path == [i \in 1..(Len(s) + Len(r) + 1) |-> IF i <= Len(s) THEN p[i] ELSE q[i - Len(s)]]
<1>4. path \in [1..(Len(s \o r) + 1) -> S]
  BY <1>3
<1>5. path[1] = a
  BY <1>1, <1>2, <1>3
<1>6. path[Len(s \o r) + 1] \in B
  BY <1>2, <1>3
<1>7. ASSUME NEW i \in 1..Len(s \o r) PROVE <<(s \o r)[i], path[i], path[i + 1]>> \in M
  <2>1. CASE i < Len(s)
    BY <1>1, <1>3, <2>1
  <2>2. CASE i = Len(s)
    BY <1>1, <1>2, <1>3, <2>2
  <2>3. CASE i > Len(s)
    <3>1. i - Len(s) \in 1..Len(r) /\ (i + 1) - Len(s) = (i - Len(s)) + 1
      BY <1>3, <2>3
    <3>2. /\ i \in 1..(Len(s) + Len(r) + 1) /\ ~(i <= Len(s))
          /\ i + 1 \in 1..(Len(s) + Len(r) + 1) /\ ~(i + 1 <= Len(s))
      BY <1>3, <2>3
    <3>3. path[i] = q[i - Len(s)] /\ path[i + 1] = q[(i - Len(s)) + 1]
      BY <3>1, <3>2
    <3> HIDE DEF path
    <3>4. <<r[i - Len(s)], q[i - Len(s)], q[(i - Len(s)) + 1]>> \in M
      BY <1>2, <3>1
    <3>5. (s \o r)[i] = r[i - Len(s)]
      BY <1>3, <3>2
    <3> QED BY <3>3, <3>4, <3>5
  <2>4. i < Len(s) \/ i = Len(s) \/ i > Len(s)
    BY <1>3
  <2> QED BY <2>1, <2>2, <2>3, <2>4
<1> QED BY <1>4, <1>5, <1>6, <1>7 DEF Leads

LEMMA LeadsJoined ==
  ASSUME NEW M, NEW S, NEW R, NEW s \in Seq(R), NEW r \in Seq(R), NEW a, NEW b, NEW B,
         Leads(M, S, s, a, {b}), Leads(M, S, r, b, B)
  PROVE  Leads(M, S, s \o r, a, B)
  BY LeadsAlong

\* One op.
LEMMA LeadsByOne ==
  ASSUME NEW M, NEW S, NEW o, NEW a \in S, NEW b \in S, NEW B, b \in B, <<o, a, b>> \in M
  PROVE  Leads(M, S, <<o>>, a, B)
<1> DEFINE path == [i \in 1..2 |-> IF i = 1 THEN a ELSE b]
<1>1. Len(<<o>>) = 1 /\ <<o>>[1] = o /\ 1..1 = {1} /\ 1 + 1 = 2
  OBVIOUS
<1>2. path \in [1..2 -> S] /\ path[1] = a /\ path[2] = b
  OBVIOUS
<1> HIDE DEF path
<1>3. \A i \in 1..Len(<<o>>) : i = 1
  BY <1>1
<1> QED BY <1>1, <1>2, <1>3 DEF Leads

\* Ops that have nothing to do with the automaton.
LEMMA LeadsBack ==
  ASSUME NEW M, NEW S, NEW s, NEW a \in S, NEW B, a \in B, Len(s) \in Nat,
         \A i \in 1..Len(s) : <<s[i], a, a>> \in M
  PROVE  Leads(M, S, s, a, B)
<1> DEFINE path == [i \in 1..(Len(s) + 1) |-> a]
<1>1. path \in [1..(Len(s) + 1) -> S] /\ path[1] = a /\ path[Len(s) + 1] = a
  OBVIOUS
<1>2. \A i \in 1..Len(s) : path[i] = a /\ path[i + 1] = a
  OBVIOUS
<1> HIDE DEF path
<1> QED BY <1>1, <1>2 DEF Leads

LEMMA LeadsWider ==
  ASSUME NEW M, NEW S, NEW s, NEW a, NEW B, NEW C, B \subseteq C, Leads(M, S, s, a, B)
  PROVE  Leads(M, S, s, a, C)
  BY DEF Leads

-----------------------------------------------------------------------------
(* Types. *)

\* An op that writes to a row or to the receipts names what it writes.
Legal == {o \in Ops : /\ o.op = "row" => o.to \in RowStates
                      /\ o.op = "node" => o.node \in Nodes /\ o.to \in NodeStates
                      /\ o.op = "receipt" => o.node \in Adapted
                      /\ o.op = "event" => o.to \in Kinds}
Job == [task : Tasks, todo : Seq(Legal), next : Places, guarded : BOOLEAN]

\* Where a coroutine may be suspended.
Suspended == {"queued", "gate"} \cup Adapted

TInv == /\ row \in [Tasks -> RowStates]
        /\ node \in [Tasks -> [Nodes -> NodeStates]]
        /\ log \in [Tasks -> Seq(Kinds \X Subjects)]
        /\ signed \in [Tasks -> SUBSET Adapted]
        /\ at \in [Tasks -> Places]
        /\ loop \in Job \cup {Idle}
        /\ loop # Idle => at[loop.task] \in Suspended
        /\ inputs \in Tasks \cup {NoTask}
        /\ read \in [Tasks -> Tasks \cup {NoTask}]
        /\ sunk \subseteq Tasks
        /\ faults \in 0..MaxFaults
        /\ closed \subseteq Tasks

LEMMA OpTypes ==
  ASSUME NEW n \in Subjects
  PROVE  /\ \A k \in Kinds : Event(k, n) \in Legal
         /\ \A k \in Passing \cup {"inputs", "lift", "close", "raise"} :
               Save(k, n) \in Legal /\ Do(k) \in Legal
         /\ \A s \in RowStates : Row(s) \in Legal
         /\ n \in Nodes => \A s \in NodeStates : NodeRow(n, s) \in Legal
         /\ n \in Adapted => Receipt(n) \in Legal
<1> USE DEF Legal, Ops, Save
<1>1. \A k \in Kinds : Event(k, n) \in Legal
  BY DEF Event
<1>2. \A k \in Passing \cup {"inputs", "lift", "close", "raise"} : Save(k, n) \in Legal /\ Do(k) \in Legal
  BY DEF Do, Passing, Subjects
<1>3. \A s \in RowStates : Row(s) \in Legal
  BY DEF Row, Subjects
<1>4. n \in Nodes => \A s \in NodeStates : NodeRow(n, s) \in Legal
  BY DEF NodeRow
<1>5. n \in Adapted => Receipt(n) \in Legal
  BY DEF Receipt
<1> QED BY <1>1, <1>2, <1>3, <1>4, <1>5

\* The ops about node n are in T.
About(T, n) == /\ \A k \in Kinds : Event(k, n) \in T
               /\ \A s \in NodeStates : NodeRow(n, s) \in T
               /\ {Receipt(n), Save("grant", n), Save("egress", n)} \subseteq T

LEMMA AboutParts ==
  ASSUME NEW T, NEW n, About(T, n)
  PROVE  /\ Enter(n) \in Seq(T) /\ Request(n) \in Seq(T) /\ Answer(n) \in Seq(T)
         /\ \A c : Do(c) \in T => Inline(n, c) \in Seq(T)
         /\ Do("raise") \in T => Failure(n) \in Seq(T) /\ Denied(n) \in Seq(T)
<1>1. Enter(n) \in Seq(T)
  BY DEF About, Enter, NodeStates, Kinds
<1>2. Request(n) \in Seq(T)
  BY <1>1 DEF About, Request, Grant, Kinds
<1>3. Answer(n) \in Seq(T)
  BY DEF About, Answer, NodeStates, Kinds
<1>4. ASSUME NEW c, Do(c) \in T PROVE Inline(n, c) \in Seq(T)
  BY <1>1, <1>4 DEF About, Inline, NodeStates, Kinds
<1>5. ASSUME Do("raise") \in T PROVE Failure(n) \in Seq(T) /\ Denied(n) \in Seq(T)
  BY <1>5 DEF About, Failure, Denied, NodeStates, Kinds
<1> QED BY <1>1, <1>2, <1>3, <1>4, <1>5

\* The ends of a run.
Rejection == <<Event("node.rejected", "human_approval"), Row("cancelled"),
               Event("task.failed", "-"), Do("close")>>

LEMMA EndParts ==
  ASSUME NEW T, \A k \in Kinds : Event(k, "-") \in T, Do("close") \in T
  PROVE  /\ Row("failed") \in T => Handler \in Seq(T)
         /\ {Row("succeeded"), Do("untry"), Do("verify")} \subseteq T => Closing \in Seq(T)
         /\ {Event("node.rejected", "human_approval"), Row("cancelled")} \subseteq T
              => Rejection \in Seq(T)
  BY DEF Handler, Closing, Rejection, Kinds

LEMMA PartTypes ==
  /\ \A n \in Nodes : Enter(n) \in Seq(Legal) /\ Request(n) \in Seq(Legal)
                      /\ Failure(n) \in Seq(Legal) /\ Denied(n) \in Seq(Legal)
  /\ \A n \in Adapted : Answer(n) \in Seq(Legal)
  /\ \A n \in InProcess : Inline(n, "lift") \in Seq(Legal) /\ Inline(n, "merge") \in Seq(Legal)
  /\ Opening \in Seq(Legal) /\ Handler \in Seq(Legal) /\ Closing \in Seq(Legal)
  /\ Rejection \in Seq(Legal)
<1> "-" \in Subjects /\ "human_approval" \in Subjects /\ Nodes \subseteq Subjects
  BY DEF Subjects
<1>1. ASSUME NEW n \in Nodes
      PROVE  /\ Enter(n) \in Seq(Legal) /\ Request(n) \in Seq(Legal)
             /\ Failure(n) \in Seq(Legal) /\ Denied(n) \in Seq(Legal)
             /\ n \in Adapted => Answer(n) \in Seq(Legal)
             /\ Inline(n, "lift") \in Seq(Legal) /\ Inline(n, "merge") \in Seq(Legal)
  <2>1. Enter(n) \in Seq(Legal)
    BY OpTypes DEF Enter, NodeStates, Kinds
  <2>2. Request(n) \in Seq(Legal)
    BY <2>1, OpTypes DEF Request, Grant, Passing, Kinds
  <2>3. Failure(n) \in Seq(Legal) /\ Denied(n) \in Seq(Legal)
    BY OpTypes DEF Failure, Denied, NodeStates, Kinds
  <2>4. n \in Adapted => Answer(n) \in Seq(Legal)
    BY OpTypes DEF Answer, NodeStates, Kinds
  <2>5. Inline(n, "lift") \in Seq(Legal) /\ Inline(n, "merge") \in Seq(Legal)
    BY <2>1, OpTypes DEF Inline, NodeStates, Kinds, Passing
  <2> QED BY <2>1, <2>2, <2>3, <2>4, <2>5
<1>2. Opening \in Seq(Legal)
  BY OpTypes DEF Opening, Plan, RowStates, Kinds, Passing
<1>3. Handler \in Seq(Legal) /\ Closing \in Seq(Legal) /\ Rejection \in Seq(Legal)
  BY OpTypes, EndParts DEF RowStates, Kinds, Passing
<1> QED BY <1>1, <1>2, <1>3 DEF Nodes

Awaiting == <<Event("node.awaiting-approval", "human_approval")>>
Approval == <<Event("node.approved", "human_approval")>>

\* What a coroutine may do when it goes on, spelled out for each place.
Course(p, todo, next) ==
    \/ /\ p = "queued" /\ next = "extract_facts_local"
       /\ todo = Opening \o Inline("ingest_contract", "lift") \o Request("extract_facts_local")
    \/ /\ p = "extract_facts_local" /\ next = "public_research"
       /\ todo = Answer("extract_facts_local") \o Request("public_research")
    \/ /\ p = "public_research" /\ next = "gate"
       /\ todo = Answer("public_research") \o Inline("merge", "merge") \o Awaiting
    \/ /\ p = "gate" /\ next = "write_sink" /\ todo = Approval \o Request("write_sink")
    \/ /\ p = "gate" /\ next = "over" /\ todo = Rejection
    \/ /\ p = "write_sink" /\ next = "over" /\ todo = Answer("write_sink") \o Closing

LEMMA ResumedCases ==
  ASSUME NEW t, at[t] \in Places, NEW r \in Resumed(t)
  PROVE  Course(at[t], r.todo, r.next)
<1> USE DEF Course, Awaiting, Approval, Rejection, Merge
<1>1. CASE at[t] = "queued"
  BY <1>1 DEF Resumed
<1>2. CASE at[t] = "extract_facts_local"
  BY <1>2 DEF Resumed
<1>3. CASE at[t] = "public_research"
  BY <1>3 DEF Resumed
<1>4. CASE at[t] = "gate"
  <2>1. r = Decision("approve") \/ r = Decision("reject")
    BY <1>4 DEF Resumed
  <2> QED BY <1>4, <2>1 DEF Decision
<1>5. CASE at[t] = "write_sink"
  BY <1>5 DEF Resumed
<1>6. CASE at[t] \notin Suspended
  BY <1>6 DEF Resumed, Suspended, Adapted
<1> QED BY <1>1, <1>2, <1>3, <1>4, <1>5, <1>6 DEF Suspended, Adapted

\* The ops of a course are of those that its parts have.
LEMMA CourseParts ==
  ASSUME NEW T, NEW p \in Places, NEW todo, NEW next, Course(p, todo, next),
         p = "queued" => Opening \in Seq(T) /\ Inline("ingest_contract", "lift") \in Seq(T),
         Inline("merge", "merge") \in Seq(T),
         \A n \in Adapted : Answer(n) \in Seq(T) /\ Request(n) \in Seq(T),
         Awaiting \in Seq(T), Approval \in Seq(T), Rejection \in Seq(T), Closing \in Seq(T)
  PROVE  todo \in Seq(T) /\ next \in Places /\ p \in Suspended
<1>1. /\ "extract_facts_local" \in Adapted /\ "public_research" \in Adapted
      /\ "write_sink" \in Adapted
  BY DEF Adapted
<1>2. next \in Places /\ p \in Suspended
  BY <1>1 DEF Course, Places, Suspended
<1>3. \A x, y \in Seq(T) : x \o y \in Seq(T)
  BY ConcatProperties
<1>4. todo \in Seq(T)
  <2>1. CASE todo = Opening \o Inline("ingest_contract", "lift") \o Request("extract_facts_local")
             /\ p = "queued"
    BY <1>1, <1>3, <2>1
  <2>2. CASE todo = Answer("extract_facts_local") \o Request("public_research")
    BY <1>1, <1>3, <2>2
  <2>3. CASE todo = Answer("public_research") \o Inline("merge", "merge") \o Awaiting
    BY <1>1, <1>3, <2>3
  <2>4. CASE todo = Approval \o Request("write_sink")
    BY <1>1, <1>3, <2>4
  <2>5. CASE todo = Answer("write_sink") \o Closing
    BY <1>1, <1>3, <2>5
  <2> QED BY <2>1, <2>2, <2>3, <2>4, <2>5 DEF Course
<1> QED BY <1>2, <1>4

LEMMA CourseTypes ==
  ASSUME NEW p \in Places, NEW todo, NEW next, Course(p, todo, next)
  PROVE  todo \in Seq(Legal) /\ next \in Places /\ p \in Suspended
<1>1. Awaiting \in Seq(Legal) /\ Approval \in Seq(Legal)
  BY OpTypes DEF Awaiting, Approval, Subjects, Kinds
<1>2. "ingest_contract" \in InProcess /\ "merge" \in InProcess /\ Adapted \subseteq Nodes
  BY DEF InProcess, Nodes
<1> QED BY <1>1, <1>2, PartTypes, CourseParts

LEMMA ResumedType ==
  ASSUME NEW t, at[t] \in Places, NEW r \in Resumed(t)
  PROVE  r.todo \in Seq(Legal) /\ r.next \in Places /\ at[t] \in Suspended
  BY ResumedCases, CourseTypes

-----------------------------------------------------------------------------
(* What one op does. *)

Popping == SetRow \/ SetNode \/ Emit \/ SaveReceipt \/ KeepInputs \/ LiftInputs \/ Pass \/ CloseBus

LEMMA JobsRun == \A j \in Job : j # Idle
  BY CoordinatorAssumption DEF Job, Work, Legal

\* The coroutine goes on to the rest of its ops.
LEMMA PopLoop ==
  ASSUME TInv, Popping
  PROVE  /\ loop \in Job /\ loop # Idle /\ Op \in Legal /\ Op.op # "raise"
         /\ loop.todo \in Seq(Legal) /\ loop.todo # <<>>
         /\ loop' \in Job /\ loop' # Idle
         /\ loop'.task = loop.task /\ loop'.next = loop.next /\ loop'.todo = Tail(loop.todo)
         /\ Op.op \notin {"try", "untry"} => loop'.guarded = loop.guarded
         /\ Op.op = "try" => loop'.guarded
         /\ Op.op = "untry" => ~loop'.guarded
         /\ UNCHANGED <<at, sunk, faults, clientVars, topic, attached>>
<1>1. loop \in Job /\ loop # Idle /\ loop.todo # <<>> /\ Busy
  BY DEF TInv, Popping, SetRow, SetNode, Emit, SaveReceipt, KeepInputs, LiftInputs, Pass, CloseBus, Busy
<1>2. loop.todo \in Seq(Legal) /\ Tail(loop.todo) \in Seq(Legal) /\ Op \in Legal
  BY <1>1, HeadTailProperties DEF Job, Op
<1>3. /\ Popped \in Job /\ Popped.task = loop.task /\ Popped.next = loop.next
      /\ Popped.todo = Tail(loop.todo) /\ Popped.guarded = loop.guarded
  BY <1>1, <1>2 DEF Popped, Job
<1>4. Op.op # "raise" /\ UNCHANGED <<at, sunk, faults, clientVars, topic, attached>>
  BY DEF Popping, SetRow, SetNode, Emit, SaveReceipt, KeepInputs, LiftInputs, Pass, CloseBus, Passing,
         bus, Publish, Close
<1>5. CASE ~Pass
  <2>1. loop' = Popped /\ Op.op \notin {"try", "untry"}
    BY <1>5 DEF Popping, SetRow, SetNode, Emit, SaveReceipt, KeepInputs, LiftInputs, CloseBus
  <2> QED BY <1>1, <1>2, <1>3, <1>4, <2>1, JobsRun
<1>6. CASE Pass
  <2> DEFINE g == IF Op.op = "try" THEN TRUE ELSE IF Op.op = "untry" THEN FALSE ELSE Popped.guarded
  <2>1. loop' = [Popped EXCEPT !.guarded = g]
    BY <1>6 DEF Pass
  <2>2. Popped.guarded \in BOOLEAN
    BY <1>3 DEF Job
  <2>3. g \in BOOLEAN
    BY <2>2
  <2>4. /\ loop' \in Job /\ loop'.task = loop.task /\ loop'.next = loop.next
        /\ loop'.todo = Tail(loop.todo)
    BY <1>3, <2>1, <2>3 DEF Job
  <2>5. loop'.guarded = g
    BY <1>3, <2>1 DEF Job
  <2>6. /\ Op.op \notin {"try", "untry"} => loop'.guarded = loop.guarded
        /\ Op.op = "try" => loop'.guarded
        /\ Op.op = "untry" => ~loop'.guarded
    BY <1>3, <2>5
  <2> QED BY <1>1, <1>2, <1>4, <2>4, <2>6, JobsRun
<1> QED BY <1>5, <1>6

\* What an op leaves behind, variable by variable.
LEMMA OpEffect ==
  ASSUME TInv, Popping, NEW u \in Tasks
  PROVE  /\ row'[u] = IF Op.op = "row" /\ u = loop.task THEN Op.to ELSE row[u]
         /\ \A n \in Nodes : node'[u][n] = IF Op.op = "node" /\ u = loop.task /\ n = Op.node
                                           THEN Op.to ELSE node[u][n]
         /\ log'[u] = IF Op.op = "event" /\ u = loop.task
                      THEN Append(log[u], <<Op.to, Op.node>>) ELSE log[u]
         /\ signed'[u] = IF Op.op = "receipt" /\ u = loop.task THEN signed[u] \cup {Op.node}
                         ELSE signed[u]
         /\ read'[u] = IF Op.op = "lift" /\ u = loop.task THEN inputs ELSE read[u]
         /\ inputs' = IF Op.op = "inputs" THEN loop.task ELSE inputs
         /\ closed' = IF Op.op = "close" THEN closed \cup {loop.task} ELSE closed
<1> PICK t \in Tasks : t = loop.task
  BY PopLoop DEF Job
<1> DEFINE o == Op
<1>1. /\ row \in [Tasks -> RowStates] /\ node \in [Tasks -> [Nodes -> NodeStates]]
      /\ log \in [Tasks -> Seq(Kinds \X Subjects)] /\ signed \in [Tasks -> SUBSET Adapted]
      /\ read \in [Tasks -> Tasks \cup {NoTask}]
  BY DEF TInv
<1> HIDE DEF o
<1>2. CASE SetRow
  BY <1>1, <1>2 DEF SetRow, bus
<1>3. CASE SetNode
  BY <1>1, <1>3 DEF SetNode, bus
<1>4. CASE Emit
  BY <1>1, <1>4 DEF Emit, Publish
<1>5. CASE SaveReceipt
  BY <1>1, <1>5 DEF SaveReceipt, bus
<1>6. CASE KeepInputs
  BY <1>1, <1>6 DEF KeepInputs, NewInputs, bus
<1>7. CASE LiftInputs
  BY <1>1, <1>7 DEF LiftInputs, bus
<1>8. CASE Pass
  BY <1>1, <1>8 DEF Pass, Passing, bus
<1>9. CASE CloseBus
  BY <1>1, <1>9 DEF CloseBus, Close
<1> QED BY <1>2, <1>3, <1>4, <1>5, <1>6, <1>7, <1>8, <1>9 DEF Popping

LEMMA PopType ==
  ASSUME TInv, Popping
  PROVE  TInv'
<1>1. /\ loop \in Job /\ Op \in Legal /\ loop' \in Job /\ loop'.task = loop.task /\ loop # Idle
      /\ UNCHANGED <<at, sunk, faults>>
  BY PopLoop
<1>2. PICK t \in Tasks : t = loop.task
  BY <1>1 DEF Job
<1>3. /\ row \in [Tasks -> RowStates] /\ node \in [Tasks -> [Nodes -> NodeStates]]
      /\ log \in [Tasks -> Seq(Kinds \X Subjects)] /\ signed \in [Tasks -> SUBSET Adapted]
      /\ read \in [Tasks -> Tasks \cup {NoTask}] /\ inputs \in Tasks \cup {NoTask}
      /\ closed \subseteq Tasks /\ at[t] \in Suspended
  BY <1>1, <1>2 DEF TInv
<1>4. ASSUME /\ row' \in [Tasks -> RowStates] /\ node' \in [Tasks -> [Nodes -> NodeStates]]
             /\ log' \in [Tasks -> Seq(Kinds \X Subjects)] /\ signed' \in [Tasks -> SUBSET Adapted]
             /\ read' \in [Tasks -> Tasks \cup {NoTask}] /\ inputs' \in Tasks \cup {NoTask}
             /\ closed' \subseteq Tasks
      PROVE  TInv'
  BY <1>1, <1>2, <1>3, <1>4 DEF TInv
<1>5. CASE SetRow
  <2>1. Op.to \in RowStates
    BY <1>1, <1>5 DEF SetRow, Legal
  <2> QED BY <1>3, <1>4, <1>5, <2>1 DEF SetRow, bus
<1>6. CASE SetNode
  <2>1. Op.to \in NodeStates /\ Op.node \in Nodes
    BY <1>1, <1>6 DEF SetNode, Legal
  <2>2. node' = [node EXCEPT ![t] = [node[t] EXCEPT ![Op.node] = Op.to]]
    BY <1>2, <1>6 DEF SetNode
  <2>3. node' \in [Tasks -> [Nodes -> NodeStates]]
    BY <1>3, <2>1, <2>2
  <2> QED BY <1>3, <1>4, <1>6, <2>3 DEF SetNode, bus
<1>7. CASE Emit
  <2>1. <<Op.to, Op.node>> \in Kinds \X Subjects
    BY <1>1, <1>7 DEF Emit, Legal, Ops
  <2>2. Append(log[t], <<Op.to, Op.node>>) \in Seq(Kinds \X Subjects)
    BY <1>3, <2>1
  <2>3. log' = [log EXCEPT ![t] = Append(log[t], <<Op.to, Op.node>>)] /\ closed' = closed
    BY <1>2, <1>7 DEF Emit, Publish
  <2>4. log' \in [Tasks -> Seq(Kinds \X Subjects)]
    BY <1>3, <2>2, <2>3
  <2> QED BY <1>3, <1>4, <1>7, <2>3, <2>4 DEF Emit
<1>8. CASE SaveReceipt
  <2>1. Op.node \in Adapted
    BY <1>1, <1>8 DEF SaveReceipt, Legal
  <2> QED BY <1>2, <1>3, <1>4, <1>8, <2>1 DEF SaveReceipt, bus
<1>9. CASE KeepInputs
  BY <1>2, <1>3, <1>4, <1>9 DEF KeepInputs, NewInputs, bus
<1>10. CASE LiftInputs
  BY <1>3, <1>4, <1>10 DEF LiftInputs, bus
<1>11. CASE Pass
  BY <1>3, <1>4, <1>11 DEF Pass, bus
<1>12. CASE CloseBus
  BY <1>2, <1>3, <1>4, <1>12 DEF CloseBus, Close
<1> QED BY <1>5, <1>6, <1>7, <1>8, <1>9, <1>10, <1>11, <1>12 DEF Popping

LEMMA TypeStep == TInv /\ [Next]_vars => TInv'
<1> SUFFICES ASSUME TInv, [Next]_vars PROVE TInv'
  OBVIOUS
<1>0. ASSUME runVars' = runVars, closed' \subseteq Tasks PROVE TInv'
  BY <1>0 DEF TInv, runVars
<1>1. CASE UNCHANGED vars
  <2>1. closed' = closed
    BY <1>1 DEF vars, bus
  <2> QED BY <1>0, <1>1, <2>1 DEF vars, TInv
<1>2. CASE Popping
  BY <1>2, PopType
<1>3. CASE Deny
  <2>1. loop \in Job /\ loop # Idle /\ Op.node \in Nodes
    BY <1>3 DEF Deny, TInv, Busy, Egress, Nodes, Adapted
  <2>2. Denied(Op.node) \in Seq(Legal)
    BY <2>1, PartTypes
  <2>3. loop' \in Job /\ loop'.task = loop.task
    BY <1>3, <2>1, <2>2 DEF Deny, Job, Places
  <2> QED BY <1>3, <2>1, <2>3 DEF Deny, TInv, bus
<1>4. CASE Raise
  <2>1. loop \in Job /\ loop # Idle
    BY <1>4 DEF Raise, TInv, Busy
  <2>2. faults' \in 0..MaxFaults
    BY <1>4, CoordinatorAssumption DEF Raise, TInv
  <2>3. UNCHANGED <<row, node, log, signed, inputs, read, sunk, bus>>
    BY <1>4 DEF Raise
  <2>4. CASE loop.guarded
    <3>1. Handler \in Seq(Legal)
      BY PartTypes DEF Nodes, InProcess
    <3>2. loop' \in Job /\ loop'.task = loop.task /\ at' = at
      BY <1>4, <2>1, <2>4, <3>1 DEF Raise, Job, Places
    <3> QED BY <2>1, <2>2, <2>3, <3>2 DEF TInv, bus
  <2>5. CASE ~loop.guarded
    <3>1. loop' = Idle /\ at' \in [Tasks -> Places]
      BY <1>4, <2>5 DEF Raise, TInv, Places
    <3> QED BY <2>2, <2>3, <3>1 DEF TInv, bus
  <2> QED BY <2>4, <2>5
<1>5. CASE Suspend
  <2>1. loop \in Job
    BY <1>5 DEF Suspend, TInv
  <2>2. loop.task \in Tasks /\ loop.next \in Places
    BY <2>1 DEF Job
  <2>3. at' \in [Tasks -> Places] /\ sunk' \subseteq Tasks /\ loop' = Idle
    BY <1>5, <2>2 DEF Suspend, TInv
  <2> QED BY <1>5, <2>3 DEF Suspend, TInv, bus
<1>6. CASE Crash
  <2>1. at' \in [Tasks -> Places] /\ loop' = Idle
    BY <1>6 DEF Crash, TInv, Places
  <2> QED BY <1>6, <2>1 DEF Crash, TInv
<1>7. ASSUME NEW t \in Tasks, Submit(t) PROVE TInv'
  <2>1. at' \in [Tasks -> Places] /\ row' \in [Tasks -> RowStates] /\ loop' = Idle
    BY <1>7 DEF Submit, TInv, Places, RowStates
  <2> QED BY <1>7, <2>1 DEF Submit, TInv, bus
<1>8. ASSUME NEW t \in Tasks, Resume(t) PROVE TInv'
  <2>1. PICK r \in Resumed(t) :
          loop' = [task |-> t, todo |-> r.todo, next |-> r.next, guarded |-> Guarded(t)]
    BY <1>8 DEF Resume
  <2>2. r.todo \in Seq(Legal) /\ r.next \in Places /\ at[t] \in Suspended
    BY ResumedType DEF TInv
  <2>3. loop' \in Job /\ loop'.task = t
    BY <2>1, <2>2 DEF Job, Guarded
  <2> QED BY <1>8, <2>2, <2>3 DEF Resume, TInv, bus
<1>9. ASSUME NEW t \in Tasks, AdapterFails(t) PROVE TInv'
  <2>1. at[t] \in Nodes /\ at[t] \in Suspended
    BY <1>9 DEF AdapterFails, Nodes, Suspended
  <2>2. Failure(at[t]) \in Seq(Legal)
    BY <2>1, PartTypes
  <2>3. loop' \in Job /\ loop'.task = t
    BY <1>9, <2>2 DEF AdapterFails, Job, Places
  <2> QED BY <1>9, <2>1, <2>3 DEF AdapterFails, TInv, bus
<1>10. ASSUME NEW s \in Subs, Receive(s) \/ Disconnect(s) \/ \E t \in Tasks : Connect(s, t)
       PROVE  TInv'
  <2>1. runVars' = runVars /\ closed' = closed
    BY <1>10 DEF Receive, Disconnect, Connect, Drain, Unsubscribe, Subscribe, runVars
  <2> QED BY <1>0, <2>1 DEF TInv
<1> QED BY <1>1, <1>2, <1>3, <1>4, <1>5, <1>6, <1>7, <1>8, <1>9, <1>10 DEF Next, RunOp, Popping

-----------------------------------------------------------------------------
(* Tasks on their course: with moves M among states S, work l and places p, the state st[t] of
   a task is led by what is left to do to one that is right for the next place, or it is
   right for the place where the task is. *)
OnCourse(M, S, G, st, l, p) ==
    \A t \in Tasks : IF l # Idle /\ l.task = t THEN Leads(M, S, l.todo, st[t], G[l.next])
                     ELSE st[t] \in G[p[t]]

LEMMA CourseMove ==
  ASSUME NEW M, NEW S, NEW G, NEW st, NEW l \in Job, NEW p, l.todo # <<>>,
         OnCourse(M, S, G, st, l, p)
  PROVE  st[l.task] \in S /\ \E b \in S : <<Head(l.todo), st[l.task], b>> \in M
<1>1. l.task \in Tasks /\ l.todo \in Seq(Legal) /\ l # Idle
  BY JobsRun DEF Job
<1>2. Leads(M, S, l.todo, st[l.task], G[l.next])
  BY <1>1 DEF OnCourse
<1> QED BY <1>1, <1>2, LeadsOn

\* The running task makes the move of its first op; the others stay right where they are.
LEMMA CoursePop ==
  ASSUME NEW M, NEW S, NEW G, NEW st, NEW to, NEW l \in Job, NEW m \in Job, NEW p,
         OnCourse(M, S, G, st, l, p), l.todo # <<>>,
         m.task = l.task, m.next = l.next, m.todo = Tail(l.todo),
         \A b \in S : <<Head(l.todo), st[l.task], b>> \in M => to[l.task] = b,
         \A u \in Tasks : u # l.task /\ st[u] \in G[p[u]] => to[u] \in G[p[u]]
  PROVE  OnCourse(M, S, G, to, m, p)
<1>1. l.task \in Tasks /\ l.todo \in Seq(Legal) /\ l # Idle /\ m # Idle
  BY JobsRun DEF Job
<1>2. Leads(M, S, l.todo, st[l.task], G[l.next])
  BY <1>1 DEF OnCourse
<1>3. PICK b \in S : <<Head(l.todo), st[l.task], b>> \in M /\ Leads(M, S, Tail(l.todo), b, G[l.next])
  BY <1>1, <1>2, LeadsOn
<1>4. Leads(M, S, m.todo, to[m.task], G[m.next])
  BY <1>3
<1> QED BY <1>1, <1>4 DEF OnCourse

\* A coroutine begins with new work.
LEMMA CourseStart ==
  ASSUME NEW M, NEW S, NEW G, NEW st, NEW to, NEW l \in Job \cup {Idle}, NEW m \in Job, NEW p,
         OnCourse(M, S, G, st, l, p), l = Idle \/ l.task = m.task,
         Leads(M, S, m.todo, to[m.task], G[m.next]),
         \A u \in Tasks : u # m.task /\ st[u] \in G[p[u]] => to[u] \in G[p[u]]
  PROVE  OnCourse(M, S, G, to, m, p)
  BY JobsRun DEF OnCourse

\* The coroutine of l stops, and only its task is in another place now.
LEMMA CourseStop ==
  ASSUME NEW M, NEW S, NEW G, NEW st, NEW to, NEW l \in Job, NEW p, NEW q,
         OnCourse(M, S, G, st, l, p), to[l.task] \in G[q[l.task]],
         \A u \in Tasks : u # l.task => q[u] = p[u],
         \A u \in Tasks : u # l.task /\ st[u] \in G[p[u]] => to[u] \in G[p[u]]
  PROVE  OnCourse(M, S, G, to, Idle, q)
  BY JobsRun DEF OnCourse

\* When it has nothing left to do, its task is right for the next place.
LEMMA CourseDone ==
  ASSUME NEW M, NEW S, NEW G, NEW st, NEW l \in Job, NEW p,
         OnCourse(M, S, G, st, l, p), l.todo = <<>>
  PROVE  st[l.task] \in S /\ st[l.task] \in G[l.next]
<1>1. l.task \in Tasks /\ l # Idle
  BY JobsRun DEF Job
<1>2. Leads(M, S, <<>>, st[l.task], G[l.next])
  BY <1>1 DEF OnCourse
<1> QED BY <1>2, LeadsNowhere

\* A step of the system keeps every task on its course, when the states that it makes of the
\* states before it are the right ones.
LEMMA CourseStep ==
  ASSUME TInv, [Next]_vars, NEW M, NEW S, NEW G, NEW st, NEW to, OnCourse(M, S, G, st, loop, at),
         Popping => \A b \in S : <<Op, st[loop.task], b>> \in M => to[loop.task] = b,
         \A t \in Tasks : (Resume(t) \/ AdapterFails(t)) /\ st[t] \in G[at[t]]
                            => Leads(M, S, loop'.todo, to[t], G[loop'.next]),
         (Deny \/ Raise) /\ st[loop.task] \in S /\ (\E b \in S : <<Op, st[loop.task], b>> \in M)
           => IF Raise /\ ~loop.guarded THEN to[loop.task] \in G["escaped"]
              ELSE Leads(M, S, loop'.todo, to[loop.task], G["over"]),
         UNCHANGED vars /\ loop # Idle => to[loop.task] = st[loop.task],
         Suspend /\ st[loop.task] \in G[loop.next] => to[loop.task] \in G[loop.next],
         Crash /\ loop # Idle /\ st[loop.task] \in S => to[loop.task] \in G["lost"],
         Crash => \A t \in Tasks : st[t] \in G[at[t]] => to[t] \in G[at'[t]],
         \A t \in Tasks : Submit(t) /\ st[t] \in G[at[t]] => to[t] \in G["queued"],
         \A u \in Tasks : ~Crash /\ ~Submit(u) /\ (loop = Idle \/ u # loop.task) /\ st[u] \in G[at[u]]
                            => to[u] \in G[at[u]]
  PROVE  OnCourse(M, S, G, to, loop', at')
<1>1. /\ loop \in Job \cup {Idle} /\ TInv' /\ at \in [Tasks -> Places]
      /\ loop # Idle => loop.task \in Tasks /\ at[loop.task] \in Suspended
  BY TypeStep DEF TInv, Job
<1>2. loop' \in Job \cup {Idle}
  BY <1>1 DEF TInv
<1>3. ASSUME loop # Idle PROVE Leads(M, S, loop.todo, st[loop.task], G[loop.next])
  BY <1>1, <1>3 DEF OnCourse
<1>4. ASSUME NEW u \in Tasks, loop = Idle \/ u # loop.task PROVE st[u] \in G[at[u]]
  BY <1>4 DEF OnCourse
<1>5. CASE Popping
  <2>1. /\ loop \in Job /\ loop' \in Job /\ loop # Idle /\ loop'.task = loop.task
        /\ loop'.next = loop.next /\ loop'.todo = Tail(loop.todo) /\ loop.todo # <<>> /\ at' = at
    BY <1>5, PopLoop
  <2>2. ~Crash /\ \A t \in Tasks : ~Submit(t)
    BY <1>5, <2>1, JobsRun DEF Crash, Submit
  <2>3. OnCourse(M, S, G, to, loop', at)
    BY <1>4, <1>5, <2>1, <2>2, CoursePop DEF Op
  <2> QED BY <2>1, <2>3
<1>6. CASE Deny
  <2>1. /\ loop \in Job /\ loop # Idle /\ loop.todo # <<>> /\ at' = at /\ loop'.next = "over"
        /\ loop'.task = loop.task /\ loop' # Idle /\ loop' \in Job
    <3>1. loop \in Job /\ loop # Idle /\ loop.todo # <<>> /\ at' = at
      BY <1>1, <1>6 DEF Deny, Busy
    <3>2. loop'.next = "over" /\ loop'.task = loop.task
      BY <1>6, <3>1 DEF Deny, Job
    <3>3. loop' # Idle
      <4>1. Op.node \in Nodes
        BY <1>6 DEF Deny, Egress, Nodes, Adapted
      <4>2. loop' \in Job
        BY <1>6, <3>1, <4>1, PartTypes DEF Deny, Job, Places
      <4> QED BY <4>2, JobsRun
    <3> QED BY <3>1, <3>2, <3>3, <1>2
  <2>2. ~Crash /\ \A t \in Tasks : ~Submit(t)
    BY <2>1 DEF Crash, Submit
  <2>3. ~Raise \/ loop.guarded
    BY <1>6, <2>1 DEF Raise
  <2>4. Leads(M, S, loop'.todo, to[loop.task], G["over"])
    BY <1>6, <2>1, <2>3, CourseMove DEF Op
  <2> QED BY <1>1, <1>4, <2>1, <2>2, <2>4, CourseStart
<1>7. CASE Raise /\ ~Crash
  <2>1. loop \in Job /\ loop # Idle /\ loop.todo # <<>> /\ loop.task \in Tasks
    BY <1>1, <1>7 DEF Raise, Busy
  <2>2. \A t \in Tasks : ~Submit(t)
    BY <2>1 DEF Submit
  <2>3. st[loop.task] \in S /\ \E b \in S : <<Op, st[loop.task], b>> \in M
    BY <2>1, CourseMove DEF Op
  <2>4. CASE loop.guarded
    <3>1. Handler \in Seq(Legal)
      BY PartTypes DEF Nodes, InProcess
    <3>2. loop' \in Job /\ loop'.task = loop.task /\ loop'.next = "over" /\ at' = at
      BY <1>7, <2>1, <2>4, <3>1 DEF Raise, Job, Places
    <3>3. Leads(M, S, loop'.todo, to[loop.task], G["over"])
      BY <1>7, <2>3, <2>4
    <3> QED BY <1>1, <1>4, <1>7, <2>1, <2>2, <3>2, <3>3, CourseStart
  <2>5. CASE ~loop.guarded
    <3>1. /\ loop' = Idle /\ at'[loop.task] = "escaped"
          /\ \A u \in Tasks : u # loop.task => at'[u] = at[u]
      BY <1>1, <1>7, <2>1, <2>5 DEF Raise
    <3>2. to[loop.task] \in G["escaped"]
      BY <1>7, <2>3, <2>5
    <3> QED BY <1>4, <1>7, <2>1, <2>2, <3>1, <3>2, CourseStop
  <2> QED BY <2>4, <2>5
<1>8. CASE Suspend /\ ~Crash
  <2>1. loop \in Job /\ loop # Idle /\ loop.todo = <<>> /\ loop.task \in Tasks /\ loop' = Idle
    BY <1>1, <1>8 DEF Suspend
  <2>2. /\ at'[loop.task] = loop.next /\ \A u \in Tasks : u # loop.task => at'[u] = at[u]
    BY <1>1, <1>8, <2>1 DEF Suspend
  <2>3. st[loop.task] \in S /\ st[loop.task] \in G[loop.next]
    BY <2>1, CourseDone
  <2>4. /\ to[loop.task] \in G[at'[loop.task]]
        /\ \A u \in Tasks : ~Submit(u)
    BY <1>8, <2>1, <2>2, <2>3 DEF Submit
  <2> QED BY <1>4, <1>8, <2>1, <2>2, <2>4, CourseStop
<1>9. CASE Crash
  <2>1. loop' = Idle
    BY <1>9 DEF Crash
  <2>2. ASSUME NEW u \in Tasks PROVE to[u] \in G[at'[u]]
    <3>1. CASE loop = Idle \/ u # loop.task
      BY <1>4, <1>9, <3>1
    <3>2. CASE loop # Idle /\ u = loop.task
      <4>1. at'[u] = "lost"
        BY <1>1, <1>9, <3>2 DEF Crash, Suspended
      <4>2. st[u] \in S
        BY <1>3, <3>2 DEF Leads
      <4> QED BY <1>9, <3>2, <4>1, <4>2
    <3> QED BY <3>1, <3>2
  <2> QED BY <2>1, <2>2 DEF OnCourse
<1>10. ASSUME ~Crash, NEW t \in Tasks, Submit(t) PROVE OnCourse(M, S, G, to, loop', at')
  <2>1. /\ loop = Idle /\ loop' = Idle /\ at'[t] = "queued"
        /\ \A u \in Tasks : u # t => at'[u] = at[u] /\ at[t] = "none" /\ ~Submit(u)
    <3>1. /\ loop = Idle /\ loop' = Idle /\ at'[t] = "queued" /\ at[t] = "none"
          /\ \A u \in Tasks : u # t => at'[u] = at[u]
      BY <1>1, <1>10 DEF Submit
    <3>2. ASSUME NEW u \in Tasks, u # t, Submit(u) PROVE FALSE
      BY <1>1, <3>1, <3>2 DEF Submit
    <3> QED BY <3>1, <3>2
  <2>2. to[t] \in G["queued"]
    BY <1>4, <1>10, <2>1
  <2> QED BY <1>4, <1>10, <2>1, <2>2 DEF OnCourse
<1>11. ASSUME ~Crash, \A u \in Tasks : ~Submit(u), NEW t \in Tasks, Resume(t) \/ AdapterFails(t)
       PROVE  OnCourse(M, S, G, to, loop', at')
  <2>1. loop = Idle /\ at' = at
    BY <1>11 DEF Resume, AdapterFails
  <2>2. loop' \in Job /\ loop'.task = t
    <3>1. CASE AdapterFails(t)
      <4>1. Failure(at[t]) \in Seq(Legal)
        BY <3>1, PartTypes DEF AdapterFails, Nodes
      <4> QED BY <3>1, <4>1 DEF AdapterFails, Job, Places
    <3>2. CASE Resume(t)
      <4>1. PICK r \in Resumed(t) :
              loop' = [task |-> t, todo |-> r.todo, next |-> r.next, guarded |-> Guarded(t)]
        BY <3>2 DEF Resume
      <4>2. r.todo \in Seq(Legal) /\ r.next \in Places
        BY <1>1, ResumedType
      <4> QED BY <4>1, <4>2 DEF Job, Guarded
    <3> QED BY <1>11, <3>1, <3>2
  <2>3. Leads(M, S, loop'.todo, to[t], G[loop'.next])
    BY <1>4, <1>11, <2>1
  <2> QED BY <1>4, <1>11, <2>1, <2>2, <2>3, CourseStart
<1>12. ASSUME UNCHANGED vars, ~Crash PROVE OnCourse(M, S, G, to, loop', at')
  <2>1. loop' = loop /\ at' = at /\ \A t \in Tasks : ~Submit(t)
    BY <1>1, <1>12 DEF vars, runVars, Submit
  <2>2. loop # Idle => to[loop.task] = st[loop.task]
    BY <1>12
  <2> QED BY <1>4, <1>3, <1>12, <2>1, <2>2 DEF OnCourse
<1>13. ASSUME ~Crash, NEW s \in Subs, Receive(s) \/ Disconnect(s) \/ \E t \in Tasks : Connect(s, t)
       PROVE  OnCourse(M, S, G, to, loop', at')
  <2>1. loop = Idle /\ loop' = loop /\ at' = at
    BY <1>13 DEF Receive, Disconnect, Connect, runVars
  <2>2. \A t \in Tasks : ~Submit(t)
    BY <1>1, <2>1 DEF Submit
  <2> QED BY <1>4, <1>13, <2>1, <2>2 DEF OnCourse
<1> QED BY <1>5, <1>6, <1>7, <1>8, <1>9, <1>10, <1>11, <1>12, <1>13 DEF Next, RunOp, Popping

\* What is stored changes only by ops, and by the row that is written when a task is submitted.
LEMMA QuietStep ==
  ASSUME [Next]_vars, ~Popping
  PROVE  /\ UNCHANGED <<node, log, signed, read>>
         /\ (\A t \in Tasks : ~Submit(t)) => row' = row
<1>1. CASE UNCHANGED vars
  BY <1>1 DEF vars, runVars
<1>2. CASE Next
  BY <1>2 DEF Popping, Next, RunOp, Deny, Raise, Suspend, Crash, Submit, Resume, AdapterFails,
              Receive, Disconnect, Connect, runVars
<1> QED BY <1>1, <1>2

\* The automaton fits whatever a coroutine may begin to do; when its task ends, escapes or is
\* lost, any state is right.
Fits(M, S, G) ==
    /\ \A p \in Places : G[p] \subseteq S
    /\ G["over"] = S /\ G["escaped"] = S /\ G["lost"] = S
    /\ \A p \in Places : \A a \in G[p] : \A todo, next :
          Course(p, todo, next) => Leads(M, S, todo, a, G[next])
    /\ \A n \in Adapted : \A a \in G[n] : Leads(M, S, Failure(n), a, S)
    /\ \A a \in S : Leads(M, S, Handler, a, S)
    /\ \A o \in Legal : \A a, b \in S : o.op = "egress" /\ o.node \in Egress /\ <<o, a, b>> \in M
                                          => Leads(M, S, Denied(o.node), a, S)

\* A step leaves what is stored of a task alone, or it is an op of the task or its submission.
SameRecord(u) == row'[u] = row[u] /\ node'[u] = node[u] /\ log'[u] = log[u] /\ signed'[u] = signed[u]

LEMMA StepKeeps ==
  ASSUME TInv, [Next]_vars, NEW u \in Tasks
  PROVE  /\ ~Submit(u) /\ (~Popping \/ u # loop.task) => SameRecord(u)
         /\ Deny \/ Raise \/ Suspend \/ Crash => SameRecord(u)
         /\ \A t \in Tasks : Resume(t) \/ AdapterFails(t) => SameRecord(u)
<1> USE DEF SameRecord
<1>1. Deny \/ Raise \/ Suspend \/ Crash => SameRecord(u)
  BY DEF Deny, Raise, Suspend, Crash
<1>2. \A t \in Tasks : Resume(t) \/ AdapterFails(t) => SameRecord(u)
  BY DEF Resume, AdapterFails
<1>3. ASSUME Popping, u # loop.task PROVE SameRecord(u)
  <2>1. row'[u] = row[u] /\ log'[u] = log[u] /\ signed'[u] = signed[u]
    BY <1>3, OpEffect
  <2>2. node'[u] = node[u]
    BY <1>3 DEF Popping, SetRow, SetNode, Emit, SaveReceipt, KeepInputs, LiftInputs, Pass, CloseBus, TInv
  <2> QED BY <2>1, <2>2
<1>4. ASSUME NEW t \in Tasks, Submit(t), ~Submit(u) PROVE SameRecord(u)
  BY <1>4 DEF Submit, TInv
<1>5. ASSUME ~Popping, ~Submit(u) PROVE SameRecord(u)
  <2>1. CASE \E t \in Tasks : Submit(t)
    BY <1>4, <1>5, <2>1
  <2>2. CASE \A t \in Tasks : ~Submit(t)
    BY <1>5, <2>2, QuietStep
  <2> QED BY <2>1, <2>2
<1> QED BY <1>1, <1>2, <1>3, <1>5

\* Then the tasks stay on their courses when states change only by ops and submissions.
LEMMA CourseKept ==
  ASSUME TInv, [Next]_vars, NEW M, NEW S, NEW G, NEW st, NEW to, OnCourse(M, S, G, st, loop, at),
         Fits(M, S, G),
         Popping => \A b \in S : <<Op, st[loop.task], b>> \in M => to[loop.task] = b,
         \A u \in Tasks : SameRecord(u) => to[u] = st[u],
         \A u \in Tasks : Submit(u) /\ st[u] \in G[at[u]] => to[u] \in G["queued"]
  PROVE  OnCourse(M, S, G, to, loop', at')
<1>1. /\ at \in [Tasks -> Places] /\ at' \in [Tasks -> Places]
      /\ loop # Idle => loop \in Job /\ loop.task \in Tasks /\ loop.next \in Places
  BY TypeStep DEF TInv, Job
<1>2. \A t \in Tasks : (Resume(t) \/ AdapterFails(t)) /\ st[t] \in G[at[t]]
         => Leads(M, S, loop'.todo, to[t], G[loop'.next])
  <2> SUFFICES ASSUME NEW t \in Tasks, Resume(t) \/ AdapterFails(t), st[t] \in G[at[t]]
               PROVE  Leads(M, S, loop'.todo, to[t], G[loop'.next])
    OBVIOUS
  <2>1. to[t] = st[t]
    BY StepKeeps
  <2>2. CASE AdapterFails(t)
    <3>1. loop'.todo = Failure(at[t]) /\ loop'.next = "over" /\ at[t] \in Adapted
      BY <2>2 DEF AdapterFails
    <3> QED BY <2>1, <3>1 DEF Fits
  <2>3. CASE Resume(t)
    <3>1. PICK r \in Resumed(t) :
            loop' = [task |-> t, todo |-> r.todo, next |-> r.next, guarded |-> Guarded(t)]
      BY <2>3 DEF Resume
    <3>2. Course(at[t], r.todo, r.next) /\ at[t] \in Places
      BY <1>1, ResumedCases
    <3> QED BY <2>1, <3>1, <3>2 DEF Fits
  <2> QED BY <2>2, <2>3
<1>3. (Deny \/ Raise) /\ st[loop.task] \in S /\ (\E b \in S : <<Op, st[loop.task], b>> \in M)
         => IF Raise /\ ~loop.guarded THEN to[loop.task] \in G["escaped"]
            ELSE Leads(M, S, loop'.todo, to[loop.task], G["over"])
  <2> SUFFICES ASSUME Deny \/ Raise, st[loop.task] \in S, \E b \in S : <<Op, st[loop.task], b>> \in M
               PROVE IF Raise /\ ~loop.guarded THEN to[loop.task] \in G["escaped"]
                     ELSE Leads(M, S, loop'.todo, to[loop.task], G["over"])
    OBVIOUS
  <2>1. loop \in Job /\ loop.task \in Tasks /\ Busy /\ Op \in Legal
    <3>1. loop \in Job /\ loop.task \in Tasks /\ Busy
      BY <1>1 DEF Deny, Raise, Busy
    <3> QED BY <3>1, HeadTailProperties DEF Job, Op, Busy
  <2>2. to[loop.task] = st[loop.task]
    BY <2>1, StepKeeps
  <2>3. CASE Raise /\ ~loop.guarded
    BY <2>2, <2>3 DEF Fits
  <2>4. CASE Raise /\ loop.guarded
    <3>1. loop'.todo = Handler
      BY <2>1, <2>4 DEF Raise, Job
    <3> QED BY <2>2, <2>4, <3>1 DEF Fits
  <2>5. CASE Deny /\ ~Raise
    <3>1. loop'.todo = Denied(Op.node) /\ Op.op = "egress" /\ Op.node \in Egress
      BY <2>1, <2>5 DEF Deny, Job
    <3> QED BY <2>1, <2>2, <2>5, <3>1 DEF Fits
  <2> QED BY <2>3, <2>4, <2>5
<1>4. /\ Suspend /\ st[loop.task] \in G[loop.next] => to[loop.task] \in G[loop.next]
      /\ Crash /\ loop # Idle /\ st[loop.task] \in S => to[loop.task] \in G["lost"]
      /\ UNCHANGED vars /\ loop # Idle => to[loop.task] = st[loop.task]
  <2>1. Suspend => loop.task \in Tasks
    BY <1>1 DEF Suspend
  <2>2. UNCHANGED vars => \A u \in Tasks : SameRecord(u)
    BY DEF vars, runVars, SameRecord
  <2> QED BY <1>1, <2>1, <2>2, StepKeeps DEF Fits
<1>5. Crash => \A t \in Tasks : st[t] \in G[at[t]] => to[t] \in G[at'[t]]
  <2>1. Crash => \A t \in Tasks : at'[t] = at[t] \/ at'[t] = "lost"
    BY <1>1 DEF Crash
  <2>2. Crash => \A t \in Tasks : to[t] = st[t] /\ at[t] \in Places
    BY <1>1, StepKeeps
  <2> QED BY <2>1, <2>2 DEF Fits
<1>6. \A u \in Tasks : ~Crash /\ ~Submit(u) /\ (loop = Idle \/ u # loop.task) /\ st[u] \in G[at[u]]
         => to[u] \in G[at[u]]
  <2>1. Popping => loop # Idle
    BY PopLoop
  <2> QED BY <2>1, StepKeeps
<1> QED BY <1>2, <1>3, <1>4, <1>5, <1>6, CourseStep

-----------------------------------------------------------------------------
(* The inputs. *)

OwnStates == {"own", "other"}
OwnMoves == {m \in Legal \X OwnStates \X OwnStates :
               /\ m[1].op = "lift" => m[2] = "own"
               /\ m[3] = IF m[1].op = "inputs" THEN "own" ELSE m[2]}
OwnPlaces == [p \in Places |-> OwnStates]

OwnState == [t \in Tasks |-> IF inputs = t THEN "own" ELSE "other"]

OwnInv == OwnInputs /\ OnCourse(OwnMoves, OwnStates, OwnPlaces, OwnState, loop, at)

LEMMA OwnOpening ==
  ASSUME NEW a \in OwnStates
  PROVE  Leads(OwnMoves, OwnStates, Opening, a, {"own"})
<1> DEFINE path == [i \in 1..10 |-> IF i = 1 THEN a ELSE "own"]
<1>1. path \in [1..(Len(Opening) + 1) -> OwnStates] /\ path[1] = a /\ path[Len(Opening) + 1] = "own"
  BY DEF Opening, OwnStates
<1>2. Opening \in Seq(Legal) /\ Len(Opening) = 9
  BY PartTypes DEF Opening, Nodes, InProcess
<1>3. ASSUME NEW i \in 1..Len(Opening) PROVE <<Opening[i], path[i], path[i + 1]>> \in OwnMoves
  <2>1. Opening[i] \in Legal
    BY <1>2, ElementOfSeq
  <2>2. Opening[i].op # "lift" /\ (Opening[i].op = "inputs" <=> i = 1)
    BY <1>2 DEF Opening, Do, Save, Row, Event, Plan
  <2>3. path[i + 1] = "own" /\ path[i] \in OwnStates /\ (i # 1 => path[i] = "own")
    BY <1>2 DEF OwnStates
  <2> QED BY <2>1, <2>2, <2>3 DEF OwnMoves, OwnStates
<1> QED BY <1>1, <1>3 DEF Leads

\* A list of ops that leave the state alone.
LEMMA LeadsAside ==
  ASSUME NEW M, NEW S, NEW T, NEW s \in Seq(T), NEW a \in S, NEW B, a \in B,
         \A o \in T : <<o, a, a>> \in M
  PROVE  Leads(M, S, s, a, B)
<1>1. Len(s) \in Nat /\ \A i \in 1..Len(s) : s[i] \in T
  BY ElementOfSeq, LenProperties
<1> QED BY <1>1, LeadsBack

\* The ops that have nothing to do with the inputs.
OwnAside == {o \in Legal : o.op \notin {"inputs", "lift"}}

LEMMA OwnAsideParts ==
  /\ Handler \in Seq(OwnAside) /\ \A n \in Adapted : Failure(n) \in Seq(OwnAside) /\ Denied(n) \in Seq(OwnAside)
  /\ \A n \in Adapted : Request(n) \in Seq(OwnAside)
  /\ \A p \in Places \ {"queued"} : \A todo, next : Course(p, todo, next) => todo \in Seq(OwnAside)
<1> "-" \in Subjects /\ "human_approval" \in Subjects /\ Nodes \subseteq Subjects /\ Adapted \subseteq Nodes
  BY DEF Subjects, Nodes
<1>1. \A n \in Subjects, k \in Kinds : Event(k, n) \in OwnAside
  BY OpTypes DEF OwnAside, Event
<1>2. \A n \in Subjects : \A k \in Passing \cup {"close", "raise"} : Save(k, n) \in OwnAside
  BY OpTypes DEF OwnAside, Save, Passing
<1>3. \A n \in Nodes, s \in NodeStates : NodeRow(n, s) \in OwnAside
  BY OpTypes DEF OwnAside, NodeRow
<1>4. \A n \in Adapted : Receipt(n) \in OwnAside
  BY OpTypes DEF OwnAside, Receipt, Save
<1>5. \A k \in Passing \cup {"close", "raise"} : Do(k) \in OwnAside
  BY <1>2 DEF Do
<1>6. \A s \in RowStates : Row(s) \in OwnAside
  BY OpTypes DEF OwnAside, Row
<1>7. \A n \in Adapted : About(OwnAside, n)
  BY <1>1, <1>2, <1>3, <1>4 DEF About, Passing
<1>8. \A n \in Adapted : /\ Request(n) \in Seq(OwnAside) /\ Answer(n) \in Seq(OwnAside)
                         /\ Failure(n) \in Seq(OwnAside) /\ Denied(n) \in Seq(OwnAside)
  BY <1>5, <1>7, AboutParts DEF Passing
<1>9. Handler \in Seq(OwnAside) /\ Closing \in Seq(OwnAside) /\ Rejection \in Seq(OwnAside)
  BY <1>1, <1>5, <1>6, EndParts DEF RowStates, Kinds, Passing
<1>10. Awaiting \in Seq(OwnAside) /\ Approval \in Seq(OwnAside)
  BY <1>1 DEF Awaiting, Approval, Kinds
<1>11. Inline("merge", "merge") \in Seq(OwnAside)
  BY <1>1, <1>3, <1>5 DEF Inline, Enter, NodeStates, Kinds, Nodes, InProcess, Passing
<1>12. \A p \in Places \ {"queued"} : \A todo, next : Course(p, todo, next) => todo \in Seq(OwnAside)
  BY <1>8, <1>9, <1>10, <1>11, CourseParts
<1> QED BY <1>8, <1>9, <1>12

\* From any state, whatever a coroutine begins to do finds its own inputs when it lifts them.
LEMMA OwnLeads ==
  ASSUME NEW a \in OwnStates
  PROVE  /\ \A s \in Seq(OwnAside) : Leads(OwnMoves, OwnStates, s, a, OwnStates)
         /\ \A p \in Places : \A todo, next : Course(p, todo, next)
              => Leads(OwnMoves, OwnStates, todo, a, OwnStates)
<1>1. \A s \in Seq(OwnAside) : \A b \in OwnStates : \A B : b \in B => Leads(OwnMoves, OwnStates, s, b, B)
  <2>1. \A o \in OwnAside, b \in OwnStates : <<o, b, b>> \in OwnMoves
    BY DEF OwnAside, OwnMoves
  <2> QED BY <2>1, LeadsAside
<1>2. ASSUME NEW p \in Places, NEW todo, NEW next, Course(p, todo, next)
      PROVE  Leads(OwnMoves, OwnStates, todo, a, OwnStates)
  <2>1. CASE p # "queued"
    BY <1>1, <1>2, <2>1, OwnAsideParts
  <2>2. CASE p = "queued"
    <3> DEFINE n == "ingest_contract"
    <3>1. todo = (Opening \o Inline(n, "lift")) \o Request("extract_facts_local")
      BY <1>2, <2>2 DEF Course
    <3>2. /\ Opening \in Seq(Legal) /\ Inline(n, "lift") \in Seq(Legal)
          /\ Request("extract_facts_local") \in Seq(OwnAside)
          /\ Request("extract_facts_local") \in Seq(Legal)
      BY PartTypes, OwnAsideParts DEF InProcess, Nodes, Adapted
    <3>3. Leads(OwnMoves, OwnStates, Inline(n, "lift"), "own", {"own"})
      <4>1. \A i \in 1..Len(Inline(n, "lift")) : /\ Inline(n, "lift")[i] \in Legal
                                                 /\ Inline(n, "lift")[i].op # "inputs"
        <5>1. \A i \in 1..Len(Inline(n, "lift")) : Inline(n, "lift")[i] \in Legal
          BY <3>2, ElementOfSeq
        <5>2. \A i \in 1..Len(Inline(n, "lift")) : Inline(n, "lift")[i].op # "inputs"
          BY DEF Inline, Enter, NodeRow, Event, Do, Save
        <5> QED BY <5>1, <5>2
      <4>2. \A i \in 1..Len(Inline(n, "lift")) : <<Inline(n, "lift")[i], "own", "own">> \in OwnMoves
        BY <4>1 DEF OwnMoves, OwnStates
      <4> QED BY <3>2, <4>2, LeadsBack, LenProperties DEF OwnStates
    <3>4. Leads(OwnMoves, OwnStates, Opening \o Inline(n, "lift"), a, {"own"})
      BY <3>2, <3>3, OwnOpening, LeadsJoined
    <3>5. Leads(OwnMoves, OwnStates, Request("extract_facts_local"), "own", OwnStates)
      BY <1>1, <3>2 DEF OwnStates
    <3>6. Opening \o Inline(n, "lift") \in Seq(Legal)
      BY <3>2, ConcatProperties
    <3> HIDE DEF n
    <3> QED BY <3>1, <3>2, <3>4, <3>5, <3>6, LeadsJoined
  <2> QED BY <2>1, <2>2
<1> QED BY <1>1, <1>2

LEMMA OwnStep == TInv /\ OwnInv /\ [Next]_vars => OwnInv'
<1> SUFFICES ASSUME TInv, OwnInv, [Next]_vars PROVE OwnInv'
  OBVIOUS
<1> DEFINE M == OwnMoves  S == OwnStates  G == OwnPlaces
<1>1. PICK st : st = OwnState
  OBVIOUS
<1>2. PICK to : to = OwnState'
  OBVIOUS
<1>3. /\ TInv' /\ OnCourse(M, S, G, st, loop, at)
      /\ \A u \in Tasks : st[u] \in S /\ to[u] \in S
      /\ \A p \in Places : G[p] = S
      /\ at \in [Tasks -> Places]
      /\ loop # Idle => loop \in Job /\ loop.task \in Tasks /\ loop.next \in Places
      /\ loop' # Idle => loop' \in Job /\ loop'.next \in Places
  BY <1>1, <1>2, TypeStep DEF OwnInv, OwnState, OwnStates, OwnPlaces, TInv, Job
<1>4. Popping => \A b \in S : <<Op, st[loop.task], b>> \in M => to[loop.task] = b
  <2> SUFFICES ASSUME Popping PROVE \A b \in S : <<Op, st[loop.task], b>> \in M => to[loop.task] = b
    OBVIOUS
  <2>1. loop \in Job /\ loop.task \in Tasks /\ inputs' = IF Op.op = "inputs" THEN loop.task ELSE inputs
    BY PopLoop, OpEffect DEF Job
  <2>2. to[loop.task] = IF Op.op = "inputs" THEN "own" ELSE st[loop.task]
    BY <1>1, <1>2, <2>1 DEF OwnState
  <2> QED BY <2>2 DEF OwnMoves
<1>5. \A t \in Tasks : (Resume(t) \/ AdapterFails(t)) /\ st[t] \in G[at[t]]
         => Leads(M, S, loop'.todo, to[t], G[loop'.next])
  <2> SUFFICES ASSUME NEW t \in Tasks, Resume(t) \/ AdapterFails(t)
               PROVE  Leads(M, S, loop'.todo, to[t], S) /\ loop'.next \in Places
    BY <1>3
  <2>1. CASE AdapterFails(t)
    BY <1>3, <2>1, OwnLeads, OwnAsideParts DEF AdapterFails, Places
  <2>2. CASE Resume(t)
    <3>1. PICK r \in Resumed(t) :
            loop' = [task |-> t, todo |-> r.todo, next |-> r.next, guarded |-> Guarded(t)]
      BY <2>2 DEF Resume
    <3>2. Course(at[t], r.todo, r.next) /\ r.next \in Places
      BY <1>3, ResumedCases, ResumedType
    <3> QED BY <1>3, <3>1, <3>2, OwnLeads
  <2> QED BY <2>1, <2>2
<1>6. (Deny \/ Raise) /\ st[loop.task] \in S /\ (\E b \in S : <<Op, st[loop.task], b>> \in M)
           => IF Raise /\ ~loop.guarded THEN to[loop.task] \in G["escaped"]
              ELSE Leads(M, S, loop'.todo, to[loop.task], G["over"])
  <2> SUFFICES ASSUME Deny \/ Raise
               PROVE IF Raise /\ ~loop.guarded THEN to[loop.task] \in G["escaped"]
                     ELSE Leads(M, S, loop'.todo, to[loop.task], G["over"])
    OBVIOUS
  <2>1. loop \in Job /\ loop.task \in Tasks /\ {"escaped", "over"} \subseteq Places
    BY <1>3 DEF Deny, Raise, Busy, Places
  <2>2. ASSUME ~(Raise /\ ~loop.guarded) PROVE loop'.todo \in Seq(OwnAside)
    <3>1. CASE Deny
      <4>1. loop'.todo = Denied(Op.node) /\ Op.node \in Adapted
        BY <2>1, <3>1 DEF Deny, Job, Egress, Adapted
      <4> QED BY <4>1, OwnAsideParts
    <3>2. CASE Raise
      <4>1. loop'.todo = Handler
        BY <2>1, <2>2, <3>2 DEF Raise, Job
      <4> QED BY <4>1, OwnAsideParts
    <3> QED BY <3>1, <3>2
  <2> QED BY <1>3, <2>1, <2>2, OwnLeads
<1>7. Crash => \A t \in Tasks : at'[t] \in Places
  BY <1>3 DEF TInv
<1>8. UNCHANGED vars /\ loop # Idle => to[loop.task] = st[loop.task]
  BY <1>1, <1>2 DEF vars, runVars, OwnState
<1>9. OnCourse(M, S, G, to, loop', at')
  <2>1. /\ Suspend => to[loop.task] \in G[loop.next]
        /\ Crash /\ loop # Idle => to[loop.task] \in G["lost"]
        /\ \A t \in Tasks : Submit(t) => to[t] \in G["queued"]
    BY <1>3 DEF Suspend, Places
  <2>2. /\ Crash => \A t \in Tasks : to[t] \in G[at'[t]]
        /\ \A u \in Tasks : to[u] \in G[at[u]]
    BY <1>3, <1>7
  <2> HIDE DEF M, S, G
  <2> QED BY <1>3, <1>4, <1>5, <1>6, <1>8, <2>1, <2>2, CourseStep
<1>10. OwnInputs'
  <2>1. OwnInputs
    BY DEF OwnInv
  <2>2. CASE Popping
    <3>1. loop \in Job /\ loop # Idle /\ loop.todo # <<>> /\ loop.task \in Tasks
      BY <2>2, PopLoop DEF Job
    <3>2. Op.op = "lift" => inputs = loop.task
      <4>1. \E b \in S : <<Op, st[loop.task], b>> \in M
        BY <1>3, <3>1, CourseMove DEF Op
      <4> QED BY <1>1, <3>1, <4>1 DEF OwnMoves, OwnState
    <3>3. \A u \in Tasks : read'[u] = IF Op.op = "lift" /\ u = loop.task THEN inputs ELSE read[u]
      BY <2>2, OpEffect
    <3> QED BY <2>1, <3>2, <3>3 DEF OwnInputs
  <2>3. CASE ~Popping
    <3>1. UNCHANGED read
      BY <2>3 DEF Popping, Next, RunOp, vars, runVars, Deny, Raise, Suspend, Crash, Submit, Resume,
                  AdapterFails, Receive, Disconnect, Connect
    <3> QED BY <2>1, <3>1 DEF OwnInputs
  <2> QED BY <2>2, <2>3
<1> QED BY <1>2, <1>9, <1>10 DEF OwnInv

LEMMA TInit == Init => TInv
  BY CoordinatorAssumption DEF Init, TInv, BusInit, RowStates, NodeStates, Places

\* self._initial_inputs of the orchestrator is one attribute that every run overwrites; however
\* the runs of the process interleave, fail and restart, ingest_contract lifts the inputs of
\* its own task.
THEOREM OwnInputsHold == Spec => []OwnInputs
<1>1. Init => TInv /\ OwnInv
  <2> SUFFICES ASSUME Init PROVE OwnInv
    BY TInit
  <2>1. loop = Idle /\ OwnInputs /\ at \in [Tasks -> {"none"}]
    BY DEF Init, OwnInputs
  <2> QED BY <2>1 DEF OwnInv, OnCourse, OwnState, OwnStates, OwnPlaces, Places
<1>2. TInv /\ OwnInv /\ [Next]_vars => (TInv /\ OwnInv)'
  BY TypeStep, OwnStep
<1>3. OwnInv => OwnInputs
  BY DEF OwnInv
<1> QED BY <1>1, <1>2, <1>3, PTL DEF Spec

-----------------------------------------------------------------------------
(* Flags: what an op of On sets, and an op of Need wants to be set. *)

Flags == {"no", "yes"}
FlagMoves(On, Need) == {m \in Legal \X Flags \X Flags :
                           /\ m[3] = IF m[1] \in On THEN "yes" ELSE m[2]
                           /\ m[1] \in Need => m[2] = "yes"}

LEMMA FlagLeads ==
  ASSUME NEW On, NEW Need, NEW s \in Seq(Legal), NEW a \in Flags, NEW B, "yes" \in B,
         "no" \in B \/ \E j \in 1..Len(s) : s[j] \in On,
         \A i \in 1..Len(s) : s[i] \in Need => \E j \in 1..Len(s) : j < i /\ s[j] \in On
  PROVE  Leads(FlagMoves(On, Need), Flags, s, a, B)
<1> DEFINE path == [i \in 1..(Len(s) + 1) |->
                      IF \E j \in 1..Len(s) : j < i /\ s[j] \in On THEN "yes" ELSE a]
<1>1. Len(s) \in Nat /\ \A i \in 1..Len(s) : s[i] \in Legal
  BY ElementOfSeq, LenProperties
<1>2. path \in [1..(Len(s) + 1) -> Flags] /\ path[1] = a /\ path[Len(s) + 1] \in B
  <2>1. path \in [1..(Len(s) + 1) -> Flags] /\ path[1] = a
    BY <1>1 DEF Flags
  <2>2. CASE \E j \in 1..Len(s) : s[j] \in On
    <3>1. Len(s) + 1 \in 1..(Len(s) + 1) /\ \A j \in 1..Len(s) : j < Len(s) + 1
      BY <1>1
    <3> QED BY <2>1, <2>2, <3>1
  <2>3. CASE "no" \in B
    BY <1>1, <2>3 DEF Flags
  <2> QED BY <2>1, <2>2, <2>3
<1>3. ASSUME NEW i \in 1..Len(s) PROVE <<s[i], path[i], path[i + 1]>> \in FlagMoves(On, Need)
  <2>1. path[i + 1] = IF s[i] \in On THEN "yes" ELSE path[i]
    <3>1. (\E j \in 1..Len(s) : j < i + 1 /\ s[j] \in On)
             <=> s[i] \in On \/ \E j \in 1..Len(s) : j < i /\ s[j] \in On
      BY <1>1
    <3> QED BY <1>1, <3>1
  <2>2. path[i] \in Flags /\ path[i + 1] \in Flags
    <3>1. i \in 1..(Len(s) + 1) /\ i + 1 \in 1..(Len(s) + 1)
      BY <1>1
    <3> HIDE DEF path
    <3> QED BY <1>2, <3>1
  <2>3. s[i] \in Need => path[i] = "yes"
    BY <1>1
  <2> HIDE DEF path
  <2> QED BY <1>1, <2>1, <2>2, <2>3 DEF FlagMoves
<1> HIDE DEF path
<1> QED BY <1>2, <1>3 DEF Leads

\* From any state, the ops can be done.
Always(M, S, s) == \A a \in S : Leads(M, S, s, a, S)

LEMMA AlwaysJoined ==
  ASSUME NEW M, NEW S, NEW s \in Seq(Legal), NEW r \in Seq(Legal), Always(M, S, s), Always(M, S, r)
  PROVE  Always(M, S, s \o r)
  BY LeadsAlong DEF Always

\* What begins a coroutine, and what ends one.
LEMMA AlwaysFits ==
  ASSUME NEW M, NEW S,
         \A p \in Places : \A todo, next : Course(p, todo, next) => Always(M, S, todo),
         \A n \in Adapted : Always(M, S, Failure(n)) /\ Always(M, S, Denied(n)),
         Always(M, S, Handler)
  PROVE  Fits(M, S, [p \in Places |-> S])
<1>1. \A p \in Places : \A todo, next : Course(p, todo, next) => next \in Places
  BY DEF Course, Places, Adapted
<1>2. {"over", "escaped", "lost"} \cup Adapted \subseteq Places /\ Egress \subseteq Adapted
  BY DEF Places, Egress, Adapted
<1> QED BY <1>1, <1>2 DEF Fits, Always

-----------------------------------------------------------------------------
(* The sink. *)

\* The op logs event e.
Telling(e) == {o \in Legal : o.op = "event" /\ <<o.to, o.node>> = e}
ToldState(e) == [t \in Tasks |-> IF Logged(t, e[1], e[2]) THEN "yes" ELSE "no"]

\* A task that calls its sink has logged it.
SinkPlaces == [p \in Places |-> IF p = "write_sink" THEN {"yes"} ELSE Flags]

Approved == <<"node.approved", "human_approval">>
Granted == <<"grant.issued", "write_sink">>

SinkInv == /\ SinkNeedsApproval
           /\ \A e \in {Approved, Granted} :
                 OnCourse(FlagMoves(Telling(e), {}), Flags, SinkPlaces, ToldState(e), loop, at)

\* Whatever a coroutine begins to do logs the approval and the grant before the sink is called.
LEMMA SinkFits ==
  ASSUME NEW e \in {Approved, Granted}
  PROVE  Fits(FlagMoves(Telling(e), {}), Flags, SinkPlaces)
<1> DEFINE M == FlagMoves(Telling(e), {})
<1>1. \A s \in Seq(Legal) : Always(M, Flags, s)
  BY FlagLeads DEF Always, Flags
<1>2. ASSUME NEW p \in Places, NEW a \in SinkPlaces[p], NEW todo, NEW next, Course(p, todo, next)
      PROVE  Leads(M, Flags, todo, a, SinkPlaces[next])
  <2>1. next \in Places /\ todo \in Seq(Legal) /\ a \in Flags
    BY <1>2, CourseTypes DEF SinkPlaces, Flags
  <2>2. CASE next # "write_sink"
    BY <1>1, <2>1, <2>2 DEF SinkPlaces, Always
  <2>3. CASE next = "write_sink"
    <3>1. todo = Approval \o Request("write_sink")
      BY <1>2, <2>3 DEF Course
    <3>2. /\ Len(todo) = 6 /\ todo[1] = Event("node.approved", "human_approval")
          /\ todo[5] = Event("grant.issued", "write_sink")
      BY <3>1 DEF Approval, Request, Enter, Grant
    <3>3. \A i \in 1..Len(todo) : todo[i] \in Legal
      BY <2>1, ElementOfSeq
    <3>4. todo[1] \in Telling(Approved) /\ todo[5] \in Telling(Granted)
      BY <3>2, <3>3 DEF Telling, Event, Approved, Granted
    <3>5. \E j \in 1..Len(todo) : todo[j] \in Telling(e)
      BY <3>2, <3>4
    <3> QED BY <2>1, <2>3, <3>5, FlagLeads DEF SinkPlaces
  <2> QED BY <2>2, <2>3
<1>3. /\ \A p \in Places : SinkPlaces[p] \subseteq Flags
      /\ SinkPlaces["over"] = Flags /\ SinkPlaces["escaped"] = Flags /\ SinkPlaces["lost"] = Flags
  BY DEF SinkPlaces, Flags, Places
<1>4. Handler \in Seq(Legal) /\ \A n \in Adapted : Failure(n) \in Seq(Legal) /\ Denied(n) \in Seq(Legal)
  BY PartTypes DEF Nodes, InProcess
<1>5. Egress \subseteq Adapted /\ \A n \in Adapted : SinkPlaces[n] \subseteq Flags
  BY DEF SinkPlaces, Flags, Egress, Adapted, Places
<1> HIDE DEF M
<1>6. Fits(M, Flags, SinkPlaces)
  BY <1>1, <1>2, <1>3, <1>4, <1>5 DEF Fits, Always
<1> QED BY <1>6 DEF M

\* What has been logged stays, and an op that tells e logs it.
LEMMA ToldEffect ==
  ASSUME TInv, [Next]_vars, NEW e \in Kinds \X Subjects, NEW u \in Tasks
  PROVE  ToldState(e)'[u] = IF Popping /\ u = loop.task /\ Op \in Telling(e) THEN "yes"
                            ELSE ToldState(e)[u]
<1>1. CASE ~Popping
  BY <1>1, QuietStep DEF ToldState, Logged
<1>2. CASE Popping
  <2>0. Op \in Legal
    BY <1>2, PopLoop
  <2>1. log[u] \in Seq(Kinds \X Subjects)
    BY DEF TInv
  <2>2. log'[u] = IF Op.op = "event" /\ u = loop.task THEN Append(log[u], <<Op.to, Op.node>>) ELSE log[u]
    BY <1>2, OpEffect
  <2>3. e = <<e[1], e[2]>>
    OBVIOUS
  <2>4. (\E i \in DOMAIN log'[u] : log'[u][i] = <<e[1], e[2]>>)
          <=> (u = loop.task /\ Op \in Telling(e)) \/ Logged(u, e[1], e[2])
    <3>1. CASE Op.op = "event" /\ u = loop.task
      <4> PICK x : x = <<Op.to, Op.node>>
        OBVIOUS
      <4>1. /\ Len(log[u]) \in Nat /\ DOMAIN log[u] = 1..Len(log[u])
            /\ DOMAIN Append(log[u], x) = 1..(Len(log[u]) + 1)
            /\ Append(log[u], x)[Len(log[u]) + 1] = x
            /\ \A i \in 1..Len(log[u]) : Append(log[u], x)[i] = log[u][i]
        BY <2>1, AppendProperties, LenProperties
      <4>2. log'[u] = Append(log[u], x)
        BY <2>2, <3>1
      <4>3. Op \in Telling(e) <=> x = e
        BY <2>0, <3>1 DEF Telling
      <4>4. (\E i \in DOMAIN log'[u] : log'[u][i] = e) <=> x = e \/ \E i \in DOMAIN log[u] : log[u][i] = e
        <5>1. \A i \in 1..(Len(log[u]) + 1) : i \in 1..Len(log[u]) \/ i = Len(log[u]) + 1
          BY <4>1
        <5>2. \A i \in 1..Len(log[u]) : i \in 1..(Len(log[u]) + 1)
          BY <4>1
        <5>3. Len(log[u]) + 1 \in 1..(Len(log[u]) + 1)
          BY <4>1
        <5> QED BY <4>1, <4>2, <5>1, <5>2, <5>3
      <4> QED BY <2>3, <3>1, <4>3, <4>4 DEF Logged
    <3>2. CASE ~(Op.op = "event" /\ u = loop.task)
      BY <2>2, <3>2 DEF Logged, Telling
    <3> QED BY <3>1, <3>2
  <2> QED BY <1>2, <2>4 DEF ToldState, Logged
<1> QED BY <1>1, <1>2

LEMMA SinkStep == TInv /\ SinkInv /\ [Next]_vars => SinkInv'
<1> SUFFICES ASSUME TInv, SinkInv, [Next]_vars PROVE SinkInv'
  OBVIOUS
<1>0. TInv' /\ {Approved, Granted} \subseteq Kinds \X Subjects
  <2>1. Approved \in Kinds \X Subjects
    BY DEF Approved, Kinds, Subjects
  <2>2. Granted \in Kinds \X Subjects
    BY DEF Granted, Kinds, Subjects, Nodes, Adapted
  <2> QED BY <2>1, <2>2, TypeStep
<1>1. ASSUME NEW e \in {Approved, Granted}
      PROVE  OnCourse(FlagMoves(Telling(e), {}), Flags, SinkPlaces, ToldState(e)', loop', at')
  <2> DEFINE M == FlagMoves(Telling(e), {})  S == Flags  G == SinkPlaces
  <2>1. PICK st : st = ToldState(e)
    OBVIOUS
  <2>2. PICK to : to = ToldState(e)'
    OBVIOUS
  <2>3. OnCourse(M, S, G, st, loop, at) /\ Fits(M, S, G)
    BY <2>1, SinkFits DEF SinkInv
  <2>4. /\ \A u \in Tasks : to[u] = IF Popping /\ u = loop.task /\ Op \in Telling(e) THEN "yes" ELSE st[u]
        /\ \A u \in Tasks : to[u] \in S
    BY <1>0, <2>1, <2>2, ToldEffect DEF ToldState, Flags
  <2>5. Popping => \A b \in S : <<Op, st[loop.task], b>> \in M => to[loop.task] = b
    <3>1. Popping => loop.task \in Tasks
      BY PopLoop DEF Job
    <3> QED BY <2>4, <3>1 DEF FlagMoves
  <2>6. \A u \in Tasks : SameRecord(u) => to[u] = st[u]
    BY <2>1, <2>2 DEF SameRecord, ToldState, Logged
  <2>7. G["queued"] = S
    BY DEF SinkPlaces, Places
  <2> HIDE DEF M, S, G
  <2>8. OnCourse(M, S, G, to, loop', at')
    BY <2>3, <2>4, <2>5, <2>6, <2>7, CourseKept
  <2> QED BY <2>2, <2>8 DEF M, S, G
<1>2. SinkNeedsApproval'
  <2> SUFFICES ASSUME NEW t \in sunk', NEW e \in {Approved, Granted}
               PROVE  ToldState(e)'[t] = "yes"
    <3>1. ASSUME NEW t \in sunk', ToldState(Approved)'[t] = "yes", ToldState(Granted)'[t] = "yes"
          PROVE  /\ Logged(t, "node.approved", "human_approval")'
                 /\ Logged(t, "grant.issued", "write_sink")'
      BY <1>0, <3>1 DEF ToldState, Approved, Granted, TInv
    <3> QED BY <3>1 DEF SinkNeedsApproval
  <2>1. t \in Tasks
    BY <1>0 DEF TInv
  <2>2. ToldState(e)[t] = "yes"
    <3>1. CASE t \in sunk
      BY <2>1, <3>1 DEF SinkInv, SinkNeedsApproval, ToldState, Approved, Granted
    <3>2. CASE t \notin sunk
      <4>1. Suspend
        BY <3>2, PopLoop DEF Popping, Next, RunOp, vars, runVars, Deny, Raise, Crash, Submit, Resume,
                             AdapterFails, Receive, Disconnect, Connect
      <4>2. loop \in Job /\ loop.todo = <<>> /\ t = loop.task /\ loop.next = "write_sink"
        BY <3>2, <4>1 DEF Suspend, TInv
      <4>3. ToldState(e)[loop.task] \in SinkPlaces["write_sink"]
        BY <4>2, CourseDone DEF SinkInv
      <4>4. SinkPlaces["write_sink"] = {"yes"}
        BY DEF SinkPlaces, Places, Adapted
      <4> QED BY <4>2, <4>3, <4>4
    <3> QED BY <3>1, <3>2
  <2> QED BY <1>0, <2>1, <2>2, ToldEffect
<1> QED BY <1>1, <1>2 DEF SinkInv

\* Invariant 7 of the security spec: the adapter of the sink is called only for a task whose
\* timeline already tells that a human approved and that the grant was issued.
THEOREM SinkIsApproved == Spec => []SinkNeedsApproval
<1>1. Init => TInv /\ SinkInv
  <2> SUFFICES ASSUME Init PROVE SinkInv
    BY TInit
  <2>1. loop = Idle /\ sunk = {} /\ at = [t \in Tasks |-> "none"]
    BY DEF Init
  <2>2. SinkPlaces["none"] = Flags
    BY DEF SinkPlaces, Places
  <2> QED BY <2>1, <2>2 DEF SinkInv, SinkNeedsApproval, OnCourse, ToldState, Flags
<1>2. TInv /\ SinkInv /\ [Next]_vars => (TInv /\ SinkInv)'
  BY TypeStep, SinkStep
<1>3. SinkInv => SinkNeedsApproval
  BY DEF SinkInv
<1> QED BY <1>1, <1>2, <1>3, PTL DEF Spec

-----------------------------------------------------------------------------
(* The receipts. *)

\* The op stores the receipt of node n; the op tells that there is one.
Receipting(n) == {o \in Legal : o.op = "receipt" /\ o.node = n}
Announcing(n) == {o \in Legal : o.op = "event" /\ o.node = n /\ o.to \in {"receipt.signed", "node.succeeded"}}
ReceiptMoves(n) == FlagMoves(Receipting(n), Announcing(n))
ReceiptState(n) == [t \in Tasks |-> IF n \in signed[t] THEN "yes" ELSE "no"]

ReceiptInv == /\ ReceiptsAreStored
              /\ \A n \in Adapted : OnCourse(ReceiptMoves(n), Flags, [p \in Places |-> Flags],
                                             ReceiptState(n), loop, at)

\* Ops that announce no receipt of n.
LEMMA ReceiptsAside ==
  ASSUME NEW n \in Adapted, NEW s \in Seq(Legal \ Announcing(n))
  PROVE  Always(ReceiptMoves(n), Flags, s)
<1>1. s \in Seq(Legal) /\ \A i \in 1..Len(s) : s[i] \notin Announcing(n)
  <2>1. \A i \in 1..Len(s) : s[i] \in Legal \ Announcing(n)
    BY ElementOfSeq
  <2>2. s \in Seq(Legal)
    OBVIOUS
  <2> QED BY <2>1, <2>2
<1> QED BY <1>1, FlagLeads DEF Always, Flags, ReceiptMoves

\* In every course, the receipt comes before what announces it.
LEMMA ReceiptsFit ==
  ASSUME NEW n \in Adapted
  PROVE  Fits(ReceiptMoves(n), Flags, [p \in Places |-> Flags])
<1> DEFINE M == ReceiptMoves(n)  T == Legal \ Announcing(n)
<1> /\ "-" \in Subjects /\ "human_approval" \in Subjects /\ Nodes \subseteq Subjects
    /\ Adapted \subseteq Nodes /\ InProcess \subseteq Nodes
    /\ n \notin {"-", "human_approval", "ingest_contract", "merge"}
  BY DEF Subjects, Nodes, Adapted, InProcess
<1>1. /\ \A m \in Subjects, k \in Kinds : m # n \/ k \notin {"receipt.signed", "node.succeeded"}
           => Event(k, m) \in T
      /\ \A m \in Subjects : \A k \in Passing \cup {"inputs", "lift", "close", "raise"} : Save(k, m) \in T
      /\ \A k \in Passing \cup {"inputs", "lift", "close", "raise"} : Do(k) \in T
      /\ \A m \in Nodes, s \in NodeStates : NodeRow(m, s) \in T
      /\ \A m \in Adapted : Receipt(m) \in T
      /\ \A s \in RowStates : Row(s) \in T
  <2>1. \A m \in Subjects, k \in Kinds : m # n \/ k \notin {"receipt.signed", "node.succeeded"}
           => Event(k, m) \in T
    BY OpTypes DEF Announcing, Event
  <2>2. /\ \A m \in Subjects : \A k \in Passing \cup {"inputs", "lift", "close", "raise"} : Save(k, m) \in T
        /\ \A k \in Passing \cup {"inputs", "lift", "close", "raise"} : Do(k) \in T
    BY OpTypes DEF Announcing, Do, Save, Passing
  <2>3. \A m \in Nodes, s \in NodeStates : NodeRow(m, s) \in T
    BY OpTypes DEF Announcing, NodeRow
  <2>4. \A m \in Adapted : Receipt(m) \in T
    BY OpTypes DEF Announcing, Receipt, Save
  <2>5. \A s \in RowStates : Row(s) \in T
    BY OpTypes DEF Announcing, Row
  <2> QED BY <2>1, <2>2, <2>3, <2>4, <2>5
<1> HIDE DEF T
<1>2. \A m \in Nodes : m # n => About(T, m) \/ m \in InProcess
  BY <1>1 DEF About, Passing, Nodes
<1>3. \A m \in Adapted : m # n => Answer(m) \in Seq(T)
  BY <1>1, <1>2, AboutParts DEF About, Passing
<1>4. \A m \in Adapted : Request(m) \in Seq(T) /\ Failure(m) \in Seq(T) /\ Denied(m) \in Seq(T)
  BY <1>1 DEF Request, Enter, Grant, Failure, Denied, Passing, Kinds, NodeStates
<1>5. Handler \in Seq(T) /\ Closing \in Seq(T) /\ Rejection \in Seq(T)
  BY <1>1, EndParts DEF RowStates, Kinds, Passing
<1>6. Awaiting \in Seq(T) /\ Approval \in Seq(T) /\ Opening \in Seq(T)
  BY <1>1 DEF Awaiting, Approval, Opening, Plan, Kinds, RowStates, Passing
<1>7. Inline("merge", "merge") \in Seq(T) /\ Inline("ingest_contract", "lift") \in Seq(T)
  BY <1>1 DEF Inline, Enter, NodeStates, Kinds, Nodes, InProcess, Passing
<1>8. Always(M, Flags, Answer(n))
  <2> DEFINE s == Answer(n)
  <2>1. s \in Seq(Legal) /\ Len(s) = 7 /\ s[5] = Receipt(n) /\ \A i \in 1..4 : s[i] \in T
    BY <1>1, PartTypes DEF Answer, Kinds, NodeStates
  <2>2. s[5] \in Receipting(n)
    BY <2>1, OpTypes DEF Receipting, Receipt, Save
  <2>3. s[5] \notin Announcing(n) /\ \A i \in 1..4 : s[i] \notin Announcing(n)
    BY <2>1, <2>2 DEF Receipting, Announcing, T
  <2>4. \A i \in 1..Len(s) : s[i] \in Announcing(n) => \E j \in 1..Len(s) : j < i /\ s[j] \in Receipting(n)
    BY <2>1, <2>2, <2>3
  <2> HIDE DEF s
  <2>5. Always(M, Flags, s)
    BY <2>1, <2>4, FlagLeads DEF Always, Flags, ReceiptMoves
  <2> QED BY <2>5 DEF s
<1>9. \A s \in Seq(T) : Always(M, Flags, s) /\ s \in Seq(Legal)
  BY ReceiptsAside DEF T
<1>10. \A m \in Adapted : Always(M, Flags, Answer(m)) /\ Answer(m) \in Seq(Legal)
  BY <1>3, <1>8, <1>9, PartTypes
<1> HIDE DEF M
<1>11. \A x, y \in Seq(Legal) : Always(M, Flags, x) /\ Always(M, Flags, y)
          => Always(M, Flags, x \o y) /\ x \o y \in Seq(Legal)
  BY AlwaysJoined, ConcatProperties
<1>12. ASSUME NEW p \in Places, NEW todo, NEW next, Course(p, todo, next) PROVE Always(M, Flags, todo)
  <2>1. CASE todo = Opening \o Inline("ingest_contract", "lift") \o Request("extract_facts_local")
    BY <1>4, <1>6, <1>7, <1>9, <1>11, <2>1 DEF Adapted
  <2>2. CASE todo = Answer("extract_facts_local") \o Request("public_research")
    BY <1>4, <1>9, <1>10, <1>11, <2>2 DEF Adapted
  <2>3. CASE todo = Answer("public_research") \o Inline("merge", "merge") \o Awaiting
    BY <1>6, <1>7, <1>9, <1>10, <1>11, <2>3 DEF Adapted
  <2>4. CASE todo = Approval \o Request("write_sink")
    BY <1>4, <1>6, <1>9, <1>11, <2>4 DEF Adapted
  <2>5. CASE todo = Answer("write_sink") \o Closing
    BY <1>5, <1>9, <1>10, <1>11, <2>5 DEF Adapted
  <2>6. CASE todo = Rejection
    BY <1>5, <1>9, <2>6
  <2> QED BY <1>12, <2>1, <2>2, <2>3, <2>4, <2>5, <2>6 DEF Course
<1>13. Fits(M, Flags, [p \in Places |-> Flags])
  BY <1>4, <1>5, <1>9, <1>12, AlwaysFits
<1> QED BY <1>13 DEF M

LEMMA ReceiptStep == TInv /\ ReceiptInv /\ [Next]_vars => ReceiptInv'
<1> SUFFICES ASSUME TInv, ReceiptInv, [Next]_vars PROVE ReceiptInv'
  OBVIOUS
<1>1. ASSUME NEW n \in Adapted, NEW u \in Tasks
      PROVE  ReceiptState(n)'[u] = IF Popping /\ u = loop.task /\ Op \in Receipting(n) THEN "yes"
                                   ELSE ReceiptState(n)[u]
  <2>1. CASE ~Popping
    BY <2>1, QuietStep DEF ReceiptState
  <2>2. CASE Popping
    <3>1. signed'[u] = IF Op.op = "receipt" /\ u = loop.task THEN signed[u] \cup {Op.node} ELSE signed[u]
      BY <2>2, OpEffect
    <3>2. Op \in Receipting(n) <=> Op.op = "receipt" /\ Op.node = n
      BY <2>2, PopLoop DEF Receipting
    <3> QED BY <2>2, <3>1, <3>2 DEF ReceiptState
  <2> QED BY <2>1, <2>2
<1>2. ASSUME NEW n \in Adapted
      PROVE  OnCourse(ReceiptMoves(n), Flags, [p \in Places |-> Flags], ReceiptState(n)', loop', at')
  <2> DEFINE M == ReceiptMoves(n)  S == Flags  G == [p \in Places |-> Flags]
  <2>1. PICK st : st = ReceiptState(n)
    OBVIOUS
  <2>2. PICK to : to = ReceiptState(n)'
    OBVIOUS
  <2>3. OnCourse(M, S, G, st, loop, at) /\ Fits(M, S, G)
    BY <2>1, ReceiptsFit DEF ReceiptInv
  <2>4. /\ \A u \in Tasks : to[u] = IF Popping /\ u = loop.task /\ Op \in Receipting(n) THEN "yes"
                                    ELSE st[u]
        /\ \A u \in Tasks : to[u] \in S
    BY <1>1, <2>1, <2>2 DEF ReceiptState, Flags
  <2>5. Popping => \A b \in S : <<Op, st[loop.task], b>> \in M => to[loop.task] = b
    <3>1. Popping => loop.task \in Tasks
      BY PopLoop DEF Job
    <3> QED BY <2>4, <3>1 DEF ReceiptMoves, FlagMoves
  <2>6. \A u \in Tasks : SameRecord(u) => to[u] = st[u]
    BY <2>1, <2>2 DEF SameRecord, ReceiptState
  <2>7. G["queued"] = S
    BY DEF Places
  <2> HIDE DEF M, S, G
  <2>8. OnCourse(M, S, G, to, loop', at')
    BY <2>3, <2>4, <2>5, <2>6, <2>7, CourseKept
  <2> QED BY <2>2, <2>8 DEF M, S, G
<1>3. ReceiptsAreStored'
  <2> SUFFICES ASSUME NEW t \in Tasks, NEW n \in Adapted, NEW k \in {"receipt.signed", "node.succeeded"},
                      Logged(t, k, n)'
               PROVE  n \in signed'[t]
    BY DEF ReceiptsAreStored
  <2> DEFINE e == <<k, n>>
  <2>1. e \in Kinds \X Subjects /\ ToldState(e)'[t] = "yes" /\ e[1] = k /\ e[2] = n
    BY DEF ToldState, Kinds, Subjects, Nodes
  <2>2. \/ ToldState(e)[t] = "yes"
        \/ Popping /\ t = loop.task /\ Op \in Telling(e)
    BY <2>1, ToldEffect
  <2>3. CASE ToldState(e)[t] = "yes"
    <3>1. n \in signed[t]
      BY <2>1, <2>3 DEF ToldState, ReceiptInv, ReceiptsAreStored
    <3> QED BY <1>1, <3>1 DEF ReceiptState
  <2>4. CASE Popping /\ t = loop.task /\ Op \in Telling(e)
    <3>1. loop \in Job /\ loop.todo # <<>> /\ Op \in Announcing(n)
      BY <2>4, PopLoop DEF Telling, Announcing
    <3>2. \E b \in Flags : <<Op, ReceiptState(n)[t], b>> \in ReceiptMoves(n)
      BY <2>4, <3>1, CourseMove DEF ReceiptInv, Op
    <3>3. ReceiptState(n)[t] = "yes"
      BY <3>1, <3>2 DEF ReceiptMoves, FlagMoves
    <3> QED BY <1>1, <3>3 DEF ReceiptState
  <2> QED BY <2>2, <2>3, <2>4
<1> QED BY <1>2, <1>3 DEF ReceiptInv

\* _exec_node stores the receipt of an answer before it announces it and before it tells that
\* the node has succeeded: an announced receipt is a stored one, whatever raises or crashes.
THEOREM AnnouncedIsStored == Spec => []ReceiptsAreStored
<1>1. Init => TInv /\ ReceiptInv
  <2> SUFFICES ASSUME Init PROVE ReceiptInv
    BY TInit
  <2>1. loop = Idle /\ log = [t \in Tasks |-> <<>>] /\ at = [t \in Tasks |-> "none"] /\ "none" \in Places
    BY DEF Init, Places
  <2> QED BY <2>1 DEF ReceiptInv, ReceiptsAreStored, Logged, OnCourse, ReceiptState, Flags
<1>2. TInv /\ ReceiptInv /\ [Next]_vars => (TInv /\ ReceiptInv)'
  BY TypeStep, ReceiptStep
<1>3. ReceiptInv => ReceiptsAreStored
  BY DEF ReceiptInv
<1> QED BY <1>1, <1>2, <1>3, PTL DEF Spec

-----------------------------------------------------------------------------
(* The nodes: what the row of a node says, what the console shows of it, and whether the run
   has succeeded. *)

Fresh == <<"none", "pending", "open">>
Entered == <<"running", "pending", "open">>
Running == <<"running", "running", "open">>
Answered == <<"succeeded", "running", "open">>
Settled == <<"succeeded", "succeeded", "open">>
Refused == <<"failed", "running", "open">>
Broken == <<"failed", "failed", "open">>
Crowned == <<"succeeded", "succeeded", "won">>
Stages == {Fresh, Entered, Running, Answered, Settled, Refused, Broken, Crowned}

\* The op says something of node n, in its row or on the console.
OfRow(o, n) == o.op = "node" /\ o.node = n
OfShow(o, n) == o.op = "event" /\ o.node = n /\ o.to \in DOMAIN ShownAs
StageAfter(o, n, a) == <<IF OfRow(o, n) THEN o.to ELSE a[1],
                         IF OfShow(o, n) THEN ShownAs[o.to] ELSE a[2],
                         IF o.op = "row" THEN (IF o.to = "succeeded" THEN "won" ELSE "open") ELSE a[3]>>
StageMoves(n) == {m \in Legal \X Stages \X Stages :
                    /\ m[3] = StageAfter(m[1], n, m[2])
                    /\ OfRow(m[1], n) => <<m[2][1], m[1].to>> \in NodeTransitions
                    /\ m[1].op = "egress" => m[2] # Crowned /\ (m[1].node = n => m[2] = Running)}

\* The nodes that are settled when a coroutine is suspended at p.
SettledAt(p) == CASE p = "extract_facts_local" -> {"ingest_contract"}
                  [] p = "public_research" -> {"ingest_contract", "extract_facts_local"}
                  [] p \in {"gate", "write_sink"} -> Nodes \ {"write_sink"}
                  [] OTHER -> {}
StagePlaces(n) == [p \in Places |-> IF p \in {"over", "escaped", "lost"} THEN Stages
                                    ELSE IF n \in SettledAt(p) THEN {Settled}
                                    ELSE IF n = p THEN {Running} ELSE {Fresh}]

StageState(n) == [t \in Tasks |-> <<node[t][n], Shown(t, n), IF row[t] = "succeeded" THEN "won" ELSE "open">>]

\* Ops that say nothing of node n and do not end the run well.
StageAside(n) == {o \in Legal : /\ ~OfRow(o, n) /\ ~OfShow(o, n)
                                /\ ~(o.op = "row" /\ o.to = "succeeded")
                                /\ ~(o.op = "egress" /\ o.node = n)}

LEMMA StagesAside ==
  ASSUME NEW n \in Nodes, NEW s \in Seq(StageAside(n)), NEW a \in Stages \ {Crowned}, NEW B, a \in B
  PROVE  Leads(StageMoves(n), Stages, s, a, B)
<1>1. \A o \in StageAside(n) : <<o, a, a>> \in StageMoves(n)
  <2>1. a = <<a[1], a[2], "open">>
    BY DEF Stages, Fresh, Entered, Running, Answered, Settled, Refused, Broken, Crowned
  <2>2. ASSUME NEW o \in StageAside(n) PROVE StageAfter(o, n, a) = a
    BY <2>1 DEF StageAside, StageAfter
  <2> QED BY <2>2 DEF StageMoves, StageAside
<1> QED BY <1>1, LeadsAside

\* The parts of a course that are about another node, or about none.
LEMMA StageAsideParts ==
  ASSUME NEW n \in Nodes
  PROVE  /\ \A m \in Nodes \ {n} : /\ Request(m) \in Seq(StageAside(n)) /\ Failure(m) \in Seq(StageAside(n))
                                   /\ Denied(m) \in Seq(StageAside(n))
                                   /\ Inline(m, "lift") \in Seq(StageAside(n))
                                   /\ Inline(m, "merge") \in Seq(StageAside(n))
                                   /\ m \in Adapted => Answer(m) \in Seq(StageAside(n))
         /\ Handler \in Seq(StageAside(n)) /\ Opening \in Seq(StageAside(n))
         /\ Awaiting \in Seq(StageAside(n)) /\ Approval \in Seq(StageAside(n))
         /\ Rejection \in Seq(StageAside(n))
         /\ Do("raise") \in StageAside(n) /\ Event("policy.decision", n) \in StageAside(n)
<1> DEFINE T == StageAside(n)
<1> /\ "-" \in Subjects /\ "human_approval" \in Subjects /\ Nodes \subseteq Subjects
    /\ n \notin {"-", "human_approval"}
  BY DEF Subjects, Nodes, Adapted, InProcess
<1>1. /\ \A m \in Subjects \ {n}, k \in Kinds : Event(k, m) \in T
      /\ \A m \in Subjects \ {n} : \A k \in Passing \cup {"inputs", "lift", "close", "raise"} : Save(k, m) \in T
      /\ \A k \in Passing \cup {"inputs", "lift", "close", "raise"} : Do(k) \in T
      /\ \A m \in Nodes \ {n}, s \in NodeStates : NodeRow(m, s) \in T
      /\ \A m \in Adapted : Receipt(m) \in T
      /\ \A s \in RowStates \ {"succeeded"} : Row(s) \in T
      /\ Event("policy.decision", n) \in T
  <2>1. \A m \in Subjects \ {n}, k \in Kinds : Event(k, m) \in T
    BY OpTypes DEF StageAside, OfRow, OfShow, Event
  <2>2. \A m \in Subjects \ {n} : \A k \in Passing \cup {"inputs", "lift", "close", "raise"} : Save(k, m) \in T
    BY OpTypes DEF StageAside, OfRow, OfShow, Save, Passing
  <2>3. \A k \in Passing \cup {"inputs", "lift", "close", "raise"} : Do(k) \in T
    BY <2>2 DEF Do
  <2>4. \A m \in Nodes \ {n}, s \in NodeStates : NodeRow(m, s) \in T
    BY OpTypes DEF StageAside, OfRow, OfShow, NodeRow
  <2>5. \A m \in Adapted : Receipt(m) \in T
    BY OpTypes DEF StageAside, OfRow, OfShow, Receipt, Save, Nodes
  <2>6. \A s \in RowStates \ {"succeeded"} : Row(s) \in T
    BY OpTypes DEF StageAside, OfRow, OfShow, Row
  <2>7. Event("policy.decision", n) \in T
    BY OpTypes DEF StageAside, OfRow, OfShow, Event, ShownAs, Kinds
  <2> QED BY <2>1, <2>2, <2>3, <2>4, <2>5, <2>6, <2>7
<1> HIDE DEF T
<1>2. \A m \in Nodes \ {n} : /\ Request(m) \in Seq(T) /\ Failure(m) \in Seq(T) /\ Denied(m) \in Seq(T)
  BY <1>1 DEF Request, Enter, Grant, Failure, Denied, Passing, Kinds, NodeStates
<1>3. \A m \in Nodes \ {n} : Inline(m, "lift") \in Seq(T) /\ Inline(m, "merge") \in Seq(T)
  BY <1>1 DEF Inline, Enter, NodeStates, Kinds, Passing
<1>4. \A m \in Nodes \ {n} : m \in Adapted => Answer(m) \in Seq(T)
  BY <1>1 DEF Answer, NodeStates, Kinds
<1>5. Handler \in Seq(T) /\ Rejection \in Seq(T)
  BY <1>1, EndParts DEF RowStates, Kinds
<1>6. Awaiting \in Seq(T) /\ Approval \in Seq(T) /\ Opening \in Seq(T)
  BY <1>1 DEF Awaiting, Approval, Opening, Plan, Kinds, RowStates, Passing
<1> QED BY <1>1, <1>2, <1>3, <1>4, <1>5, <1>6 DEF T

\* The parts that are about node n.
LEMMA StageParts ==
  ASSUME NEW n \in Nodes
  PROVE  /\ Leads(StageMoves(n), Stages, Request(n), Fresh, {Running})
         /\ \A c \in {"lift", "merge"} : Leads(StageMoves(n), Stages, Inline(n, c), Fresh, {Settled})
         /\ n \in Adapted => Leads(StageMoves(n), Stages, Answer(n), Running, {Settled})
         /\ Leads(StageMoves(n), Stages, Failure(n), Running, Stages)
         /\ Leads(StageMoves(n), Stages, Denied(n), Running, Stages)
<1> DEFINE M == StageMoves(n)
<1> /\ "-" \in Subjects /\ Nodes \subseteq Subjects
    /\ n \notin {"-", "human_approval"}
    /\ DOMAIN ShownAs = {"node.started", "node.succeeded", "node.failed", "node.awaiting-approval"}
    /\ ShownAs["node.started"] = "running" /\ ShownAs["node.succeeded"] = "succeeded"
    /\ ShownAs["node.failed"] = "failed"
  BY DEF Subjects, Nodes, Adapted, InProcess, ShownAs
<1> USE DEF Fresh, Entered, Running, Answered, Settled, Refused, Broken, Crowned
<1>1. /\ <<NodeRow(n, "running"), Fresh, Entered>> \in M
      /\ <<NodeRow(n, "succeeded"), Running, Answered>> \in M
      /\ <<NodeRow(n, "failed"), Running, Refused>> \in M
  <2>1. \A s \in NodeStates : NodeRow(n, s) \in Legal
    BY OpTypes
  <2> QED BY <2>1 DEF StageMoves, StageAfter, OfRow, OfShow, NodeRow, NodeStates, NodeTransitions, Stages
<1>2. /\ <<Event("node.started", n), Entered, Running>> \in M
      /\ <<Event("node.succeeded", n), Answered, Settled>> \in M
      /\ <<Event("node.failed", n), Refused, Broken>> \in M
  <2>1. \A k \in Kinds : Event(k, n) \in Legal
    BY OpTypes
  <2> QED BY <2>1 DEF StageMoves, StageAfter, OfRow, OfShow, Event, Kinds, Stages
<1>3. <<Save("egress", n), Running, Running>> \in M
  <2>1. Save("egress", n) \in Legal
    BY OpTypes DEF Passing
  <2> QED BY <2>1 DEF StageMoves, StageAfter, OfRow, OfShow, Save, Stages
<1>4. \A a \in {Running, Answered, Broken} :
         /\ \A k \in {"io.intent", "io.sent", "io.received", "receipt.signed", "grant.issued"} :
               <<Event(k, n), a, a>> \in M
         /\ \A c \in {"lift", "merge", "raise"} : <<Do(c), a, a>> \in M
         /\ <<Save("grant", n), a, a>> \in M
         /\ n \in Adapted => <<Receipt(n), a, a>> \in M
  <2>1. /\ \A k \in Kinds : Event(k, n) \in Legal
        /\ \A c \in {"lift", "merge", "raise"} : Do(c) \in Legal
        /\ Save("grant", n) \in Legal
        /\ n \in Adapted => Receipt(n) \in Legal
    BY OpTypes DEF Passing
  <2>2. \A o \in Legal, a \in {Running, Answered, Broken} :
          ~OfRow(o, n) /\ ~OfShow(o, n) /\ o.op \notin {"row", "egress"} => <<o, a, a>> \in M
    BY DEF StageMoves, StageAfter, Stages
  <2>3. \A k \in {"io.intent", "io.sent", "io.received", "receipt.signed", "grant.issued"} :
          LET o == Event(k, n) IN /\ ~OfRow(o, n) /\ ~OfShow(o, n) /\ o.op \notin {"row", "egress"}
                                  /\ o \in Legal
    BY <2>1 DEF OfRow, OfShow, Event, Kinds
  <2>4. \A c \in {"lift", "merge", "raise"} :
          ~OfRow(Do(c), n) /\ ~OfShow(Do(c), n) /\ Do(c).op \notin {"row", "egress"}
    BY DEF OfRow, OfShow, Do, Save
  <2>5. /\ ~OfRow(Save("grant", n), n) /\ ~OfShow(Save("grant", n), n)
        /\ Save("grant", n).op \notin {"row", "egress"}
        /\ ~OfRow(Receipt(n), n) /\ ~OfShow(Receipt(n), n)
        /\ Receipt(n).op \notin {"row", "egress"}
    BY DEF OfRow, OfShow, Receipt, Save
  <2> QED BY <2>1, <2>2, <2>3, <2>4, <2>5
<1>5. Stages \subseteq Stages /\ {Fresh, Entered, Running, Answered, Settled, Refused, Broken} \subseteq Stages
  BY DEF Stages
<1> HIDE DEF M, Fresh, Entered, Running, Answered, Settled, Refused, Broken, Crowned
<1>6. Leads(M, Stages, Request(n), Fresh, {Running})
  <2> DEFINE s == Request(n)  path == [i \in 1..(5 + 1) |-> IF i = 1 THEN Fresh ELSE IF i = 2 THEN Entered ELSE Running]
  <2>1. /\ Len(s) = 5 /\ s[1] = NodeRow(n, "running") /\ s[2] = Event("node.started", n)
        /\ s[3] = Save("grant", n) /\ s[4] = Event("grant.issued", n) /\ s[5] = Save("egress", n)
    BY DEF Request, Enter, Grant
  <2>2. /\ path \in [1..(5 + 1) -> Stages]
        /\ path[1] = Fresh /\ path[2] = Entered /\ path[3] = Running
        /\ path[4] = Running /\ path[5] = Running /\ path[6] = Running
    BY <1>5
  <2> HIDE DEF s, path
  <2>3. \A i \in 1..5 : <<s[i], path[i], path[i + 1]>> \in M
    <3>1. \A i \in 1..5 : i = 1 \/ i = 2 \/ i = 3 \/ i = 4 \/ i = 5
      OBVIOUS
    <3>2. <<s[1], path[1], path[2]>> \in M
      BY <1>1, <1>2, <1>3, <1>4, <2>1, <2>2
    <3>3. <<s[2], path[2], path[3]>> \in M
      BY <1>1, <1>2, <1>3, <1>4, <2>1, <2>2
    <3>4. <<s[3], path[3], path[4]>> \in M
      BY <1>1, <1>2, <1>3, <1>4, <2>1, <2>2
    <3>5. <<s[4], path[4], path[5]>> \in M
      BY <1>1, <1>2, <1>3, <1>4, <2>1, <2>2
    <3>6. <<s[5], path[5], path[6]>> \in M
      BY <1>1, <1>2, <1>3, <1>4, <2>1, <2>2
    <3> QED BY <3>1, <3>2, <3>3, <3>4, <3>5, <3>6
  <2>4. /\ path \in [1..(Len(s) + 1) -> Stages] /\ path[1] = Fresh /\ path[Len(s) + 1] \in {Running}
        /\ \A i \in 1..Len(s) : <<s[i], path[i], path[i + 1]>> \in M
    BY <1>5, <2>1, <2>2, <2>3
  <2>5. Leads(M, Stages, s, Fresh, {Running})
    BY <2>4 DEF Leads
  <2> QED BY <2>5 DEF s
<1>7. ASSUME NEW c \in {"lift", "merge"} PROVE Leads(M, Stages, Inline(n, c), Fresh, {Settled})
  <2> DEFINE s == Inline(n, c)
             path == [i \in 1..(5 + 1) |-> IF i = 1 THEN Fresh ELSE IF i = 2 THEN Entered
                                     ELSE IF i \in {3, 4} THEN Running
                                     ELSE IF i = 5 THEN Answered ELSE Settled]
  <2>1. /\ Len(s) = 5 /\ s[1] = NodeRow(n, "running") /\ s[2] = Event("node.started", n)
        /\ s[3] = Do(c) /\ s[4] = NodeRow(n, "succeeded") /\ s[5] = Event("node.succeeded", n)
    BY DEF Inline, Enter
  <2>2. /\ path \in [1..(5 + 1) -> Stages]
        /\ path[1] = Fresh /\ path[2] = Entered /\ path[3] = Running
        /\ path[4] = Running /\ path[5] = Answered /\ path[6] = Settled
    BY <1>5
  <2> HIDE DEF s, path
  <2>3. \A i \in 1..5 : <<s[i], path[i], path[i + 1]>> \in M
    <3>1. \A i \in 1..5 : i = 1 \/ i = 2 \/ i = 3 \/ i = 4 \/ i = 5
      OBVIOUS
    <3>2. <<s[1], path[1], path[2]>> \in M
      BY <1>1, <1>2, <1>3, <1>4, <2>1, <2>2
    <3>3. <<s[2], path[2], path[3]>> \in M
      BY <1>1, <1>2, <1>3, <1>4, <2>1, <2>2
    <3>4. <<s[3], path[3], path[4]>> \in M
      BY <1>1, <1>2, <1>3, <1>4, <2>1, <2>2
    <3>5. <<s[4], path[4], path[5]>> \in M
      BY <1>1, <1>2, <1>3, <1>4, <2>1, <2>2
    <3>6. <<s[5], path[5], path[6]>> \in M
      BY <1>1, <1>2, <1>3, <1>4, <2>1, <2>2
    <3> QED BY <3>1, <3>2, <3>3, <3>4, <3>5, <3>6
  <2>4. /\ path \in [1..(Len(s) + 1) -> Stages] /\ path[1] = Fresh /\ path[Len(s) + 1] \in {Settled}
        /\ \A i \in 1..Len(s) : <<s[i], path[i], path[i + 1]>> \in M
    BY <1>5, <2>1, <2>2, <2>3
  <2>5. Leads(M, Stages, s, Fresh, {Settled})
    BY <2>4 DEF Leads
  <2> QED BY <2>5 DEF s
<1>8. ASSUME n \in Adapted PROVE Leads(M, Stages, Answer(n), Running, {Settled})
  <2> DEFINE s == Answer(n)
             path == [i \in 1..(7 + 1) |-> IF i \in 1..4 THEN Running ELSE IF i \in 5..7 THEN Answered ELSE Settled]
  <2>1. /\ Len(s) = 7 /\ s[1] = Event("io.intent", n) /\ s[2] = Event("io.sent", n)
        /\ s[3] = Event("io.received", n) /\ s[4] = NodeRow(n, "succeeded") /\ s[5] = Receipt(n)
        /\ s[6] = Event("receipt.signed", n) /\ s[7] = Event("node.succeeded", n)
    BY DEF Answer
  <2>2. /\ path \in [1..(7 + 1) -> Stages]
        /\ path[1] = Running /\ path[2] = Running /\ path[3] = Running /\ path[4] = Running
        /\ path[5] = Answered /\ path[6] = Answered /\ path[7] = Answered /\ path[8] = Settled
    BY <1>5
  <2> HIDE DEF s, path
  <2>3. \A i \in 1..7 : <<s[i], path[i], path[i + 1]>> \in M
    <3>1. \A i \in 1..7 : i = 1 \/ i = 2 \/ i = 3 \/ i = 4 \/ i = 5 \/ i = 6 \/ i = 7
      OBVIOUS
    <3>2. <<s[1], path[1], path[2]>> \in M
      BY <1>1, <1>2, <1>4, <1>8, <2>1, <2>2
    <3>3. <<s[2], path[2], path[3]>> \in M
      BY <1>1, <1>2, <1>4, <1>8, <2>1, <2>2
    <3>4. <<s[3], path[3], path[4]>> \in M
      BY <1>1, <1>2, <1>4, <1>8, <2>1, <2>2
    <3>5. <<s[4], path[4], path[5]>> \in M
      BY <1>1, <1>2, <1>4, <1>8, <2>1, <2>2
    <3>6. <<s[5], path[5], path[6]>> \in M
      BY <1>1, <1>2, <1>4, <1>8, <2>1, <2>2
    <3>7. <<s[6], path[6], path[7]>> \in M
      BY <1>1, <1>2, <1>4, <1>8, <2>1, <2>2
    <3>8. <<s[7], path[7], path[8]>> \in M
      BY <1>1, <1>2, <1>4, <1>8, <2>1, <2>2
    <3> QED BY <3>1, <3>2, <3>3, <3>4, <3>5, <3>6, <3>7, <3>8
  <2>4. /\ path \in [1..(Len(s) + 1) -> Stages] /\ path[1] = Running /\ path[Len(s) + 1] \in {Settled}
        /\ \A i \in 1..Len(s) : <<s[i], path[i], path[i + 1]>> \in M
    BY <1>5, <2>1, <2>2, <2>3
  <2>5. Leads(M, Stages, s, Running, {Settled})
    BY <2>4 DEF Leads
  <2> QED BY <2>5 DEF s
<1>9. Leads(M, Stages, Failure(n), Running, Stages)
  <2> DEFINE s == Failure(n)
             path == [i \in 1..(3 + 1) |-> IF i = 1 THEN Running ELSE IF i = 2 THEN Refused ELSE Broken]
  <2>1. /\ Len(s) = 3 /\ s[1] = NodeRow(n, "failed") /\ s[2] = Event("node.failed", n)
        /\ s[3] = Do("raise")
    BY DEF Failure
  <2>2. /\ path \in [1..(3 + 1) -> Stages]
        /\ path[1] = Running /\ path[2] = Refused
        /\ path[3] = Broken /\ path[4] = Broken
    BY <1>5
  <2> HIDE DEF s, path
  <2>3. \A i \in 1..3 : <<s[i], path[i], path[i + 1]>> \in M
    <3>1. \A i \in 1..3 : i = 1 \/ i = 2 \/ i = 3
      OBVIOUS
    <3> QED BY <1>1, <1>2, <1>4, <2>1, <2>2, <3>1
  <2>4. /\ path \in [1..(Len(s) + 1) -> Stages] /\ path[1] = Running /\ path[Len(s) + 1] \in Stages
        /\ \A i \in 1..Len(s) : <<s[i], path[i], path[i + 1]>> \in M
    BY <1>5, <2>1, <2>2, <2>3
  <2>5. Leads(M, Stages, s, Running, Stages)
    BY <2>4 DEF Leads
  <2> QED BY <2>5 DEF s
<1>10. Leads(M, Stages, Denied(n), Running, Stages)
  <2>1. Failure(n) \in Seq(Legal) /\ <<Event("policy.decision", n)>> \in Seq(StageAside(n))
        /\ <<Event("policy.decision", n)>> \in Seq(Legal)
    <3>1. Event("policy.decision", n) \in StageAside(n) /\ Event("policy.decision", n) \in Legal
      BY StageAsideParts DEF StageAside
    <3> QED BY <3>1, PartTypes
  <2>2. Leads(M, Stages, <<Event("policy.decision", n)>>, Running, {Running})
    <3>1. Running \in Stages \ {Crowned}
      BY <1>5 DEF Running, Crowned
    <3> QED BY <2>1, <3>1, StagesAside DEF M
  <2> QED BY <1>9, <2>1, <2>2, LeadsJoined DEF Denied
<1> QED BY <1>6, <1>7, <1>8, <1>9, <1>10 DEF M

\* The handler, wherever the run is, and the end of a run whose nodes are settled.
LEMMA StageEnds ==
  ASSUME NEW n \in Nodes
  PROVE  /\ \A a \in Stages : Leads(StageMoves(n), Stages, Handler, a, Stages)
         /\ Leads(StageMoves(n), Stages, Closing, Settled, Stages)
<1> DEFINE M == StageMoves(n)
<1>0. /\ {Settled, Crowned} \subseteq Stages /\ Settled = <<"succeeded", "succeeded", "open">>
      /\ Crowned = <<"succeeded", "succeeded", "won">>
  BY DEF Stages, Settled, Crowned
<1>1. \A o \in Legal : /\ o.op = "row" /\ o.to = "succeeded" => <<o, Settled, Crowned>> \in M
                       /\ o.op = "row" /\ o.to # "succeeded" => <<o, Crowned, Settled>> \in M
  BY <1>0 DEF StageMoves, StageAfter, OfRow, OfShow
<1>2. \A o \in Legal, a \in {Settled, Crowned} :
        o.op \notin {"row", "egress", "node"} /\ (o.op = "event" => o.node # n) => <<o, a, a>> \in M
  BY <1>0 DEF StageMoves, StageAfter, OfRow, OfShow
<1>3. /\ Len(Handler) = 3 /\ Handler[1] \in Legal /\ Handler[2] \in Legal /\ Handler[3] \in Legal
      /\ Handler[1].op = "row" /\ Handler[1].to = "failed"
      /\ Handler[2].op = "event" /\ Handler[2].node = "-" /\ Handler[3].op = "close"
  <2>1. Handler \in Seq(Legal) /\ Len(Handler) = 3
    BY PartTypes DEF Handler, Nodes, InProcess
  <2>2. \A i \in 1..3 : Handler[i] \in Legal
    BY <2>1, ElementOfSeq
  <2> QED BY <2>1, <2>2 DEF Handler, Row, Event, Do, Save
<1>4. /\ Len(Closing) = 5 /\ Closing[1] \in Legal /\ Closing[2] \in Legal
      /\ \A i \in {3, 4, 5} : Closing[i] \in Legal
      /\ Closing[1].op = "row" /\ Closing[1].to = "succeeded"
      /\ Closing[2].op = "event" /\ Closing[2].node = "-"
      /\ Closing[3].op = "untry" /\ Closing[4].op = "verify" /\ Closing[5].op = "close"
  <2>1. Closing \in Seq(Legal) /\ Len(Closing) = 5
    BY PartTypes DEF Closing, Nodes, InProcess
  <2>2. \A i \in 1..5 : Closing[i] \in Legal
    BY <2>1, ElementOfSeq
  <2> QED BY <2>1, <2>2 DEF Closing, Row, Event, Do, Save
<1>5. n # "-"
  BY DEF Nodes, Adapted, InProcess
<1> HIDE DEF M
<1>6. ASSUME NEW a \in Stages PROVE Leads(M, Stages, Handler, a, Stages)
  <2>1. CASE a # Crowned
    BY <2>1, StagesAside, StageAsideParts DEF M
  <2>2. CASE a = Crowned
    <3> DEFINE s == Handler  path == [i \in 1..(Len(s) + 1) |-> IF i = 1 THEN Crowned ELSE Settled]
    <3>1. /\ path \in [1..(Len(s) + 1) -> Stages] /\ path[1] = Crowned /\ path[Len(s) + 1] \in Stages
          /\ path[2] = Settled /\ path[3] = Settled /\ path[4] = Settled
      BY <1>0, <1>3
    <3> HIDE DEF path
    <3>2. \A i \in 1..Len(s) : <<s[i], path[i], path[i + 1]>> \in M
      <4>1. \A i \in 1..Len(s) : i = 1 \/ i = 2 \/ i = 3
        BY <1>3
      <4>2. <<s[1], path[1], path[2]>> \in M
        BY <1>1, <1>3, <3>1
      <4>3. <<s[2], path[2], path[3]>> \in M
        BY <1>2, <1>3, <1>5, <3>1
      <4>4. <<s[3], path[3], path[4]>> \in M
        BY <1>2, <1>3, <3>1
      <4> HIDE DEF s
      <4> QED BY <4>1, <4>2, <4>3, <4>4
    <3> QED BY <2>2, <3>1, <3>2 DEF Leads
  <2> QED BY <2>1, <2>2
<1>7. Leads(M, Stages, Closing, Settled, Stages)
  <2> DEFINE s == Closing  path == [i \in 1..(Len(s) + 1) |-> IF i = 1 THEN Settled ELSE Crowned]
  <2>1. /\ path \in [1..(Len(s) + 1) -> Stages] /\ path[1] = Settled /\ path[Len(s) + 1] \in Stages
        /\ path[2] = Crowned /\ path[3] = Crowned /\ path[4] = Crowned /\ path[5] = Crowned
        /\ path[6] = Crowned
    BY <1>0, <1>4
  <2> HIDE DEF path
  <2>2. \A i \in 1..Len(s) : <<s[i], path[i], path[i + 1]>> \in M
    <3>1. \A i \in 1..Len(s) : i = 1 \/ i = 2 \/ i = 3 \/ i = 4 \/ i = 5
      BY <1>4
    <3>2. <<s[1], path[1], path[2]>> \in M
      BY <1>1, <1>4, <2>1
    <3>3. <<s[2], path[2], path[3]>> \in M
      BY <1>2, <1>4, <1>5, <2>1
    <3>4. \A i \in {3, 4, 5} : <<s[i], path[i], path[i + 1]>> \in M
      <4>1. \A i \in {3, 4, 5} : s[i] \in Legal /\ s[i].op \in {"untry", "verify", "close"}
        BY <1>4
      <4>2. \A i \in {3, 4, 5} : path[i] = Crowned /\ path[i + 1] = Crowned
        BY <2>1
      <4> HIDE DEF s
      <4> QED BY <1>2, <4>1, <4>2
    <3> HIDE DEF s
    <3> QED BY <3>1, <3>2, <3>3, <3>4
  <2> QED BY <2>1, <2>2 DEF Leads
<1> QED BY <1>6, <1>7 DEF M

\* In every course a node is entered once, settled before the next place, and then left alone.
LEMMA StagesFit ==
  ASSUME NEW n \in Nodes
  PROVE  Fits(StageMoves(n), Stages, StagePlaces(n))
<1> DEFINE M == StageMoves(n)  S == Stages  G == StagePlaces(n)
           E == "extract_facts_local"  R == "public_research"  W == "write_sink"  I == "ingest_contract"
<1>1. /\ {Fresh, Running, Settled} \subseteq Stages \ {Crowned}
      /\ \A p \in Places : G[p] \subseteq Stages
      /\ G["over"] = Stages /\ G["escaped"] = Stages /\ G["lost"] = Stages
  BY DEF Stages, StagePlaces, Places, Fresh, Running, Settled, Crowned
<1>2. /\ G["queued"] = {Fresh}
      /\ G[E] = {IF n = I THEN Settled ELSE IF n = E THEN Running ELSE Fresh}
      /\ G[R] = {IF n \in {I, E} THEN Settled ELSE IF n = R THEN Running ELSE Fresh}
      /\ G["gate"] = {IF n = W THEN Fresh ELSE Settled}
      /\ G[W] = {IF n = W THEN Running ELSE Settled}
  <2>1. n \in {I, E, R, "merge", W}
    BY DEF Nodes, Adapted, InProcess
  <2>2. n \in Nodes \ {W} <=> n # W
    OBVIOUS
  <2> QED BY <2>1, <2>2 DEF StagePlaces, SettledAt, Places, Adapted
<1>3. {E, R, W} \subseteq Nodes /\ {E, R, W} = Adapted /\ {I, "merge"} \subseteq Nodes /\ n \in {I, E, R, "merge", W}
  BY DEF Nodes, Adapted, InProcess
<1> HIDE DEF G
<1>4. ASSUME NEW a \in {Fresh, Running, Settled}
      PROVE  /\ \A m \in Nodes : (m = n => a = Fresh)
                  => /\ Leads(M, S, Request(m), a, {IF m = n THEN Running ELSE a})
                     /\ \A c \in {"lift", "merge"} : Leads(M, S, Inline(m, c), a, {IF m = n THEN Settled ELSE a})
             /\ \A m \in Adapted : (m = n => a = Running)
                  => Leads(M, S, Answer(m), a, {IF m = n THEN Settled ELSE a})
             /\ \A m \in Nodes : (m = n => a = Running)
                  => Leads(M, S, Failure(m), a, Stages) /\ Leads(M, S, Denied(m), a, Stages)
             /\ \A s \in {Opening, Awaiting, Approval} : Leads(M, S, s, a, {a})
             /\ Leads(M, S, Rejection, a, Stages)
  <2>1. \A s \in Seq(StageAside(n)) : \A B : a \in B => Leads(M, S, s, a, B)
    BY <1>1, StagesAside
  <2> HIDE DEF M
  <2> QED BY <1>1, <1>3, <2>1, StageParts, StageAsideParts DEF M
<1> HIDE DEF M
<1>5. /\ \A m \in Nodes : Request(m) \in Seq(Legal)
      /\ \A m \in Adapted : Answer(m) \in Seq(Legal)
      /\ Inline(I, "lift") \in Seq(Legal) /\ Inline("merge", "merge") \in Seq(Legal)
      /\ Opening \in Seq(Legal) /\ Closing \in Seq(Legal)
      /\ Awaiting \in Seq(Legal) /\ Approval \in Seq(Legal)
  BY PartTypes, OpTypes DEF InProcess, Awaiting, Approval, Subjects, Kinds
<1>6. \A x, y \in Seq(Legal) : \A a, b, B : Leads(M, S, x, a, {b}) /\ Leads(M, S, y, b, B)
                                              => Leads(M, S, x \o y, a, B) /\ x \o y \in Seq(Legal)
  BY LeadsJoined, ConcatProperties
<1>7. ASSUME NEW p \in Places, NEW a \in G[p], NEW todo, NEW next, Course(p, todo, next)
      PROVE  Leads(M, S, todo, a, G[next])
  <2>1. CASE p = "queued"
    <3> DEFINE b == IF I = n THEN Settled ELSE Fresh
    <3>1. a = Fresh /\ todo = (Opening \o Inline(I, "lift")) \o Request(E) /\ next = E
      BY <1>2, <1>7, <2>1 DEF Course
    <3>2. Leads(M, S, Opening, Fresh, {Fresh}) /\ Leads(M, S, Inline(I, "lift"), Fresh, {b})
      BY <1>3, <1>4
    <3>3. Leads(M, S, Request(E), b, {IF E = n THEN Running ELSE b})
      BY <1>3, <1>4
    <3>4. {IF E = n THEN Running ELSE b} = G[E]
      BY <1>2
    <3> HIDE DEF b
    <3>5. /\ Opening \o Inline(I, "lift") \in Seq(Legal)
          /\ Leads(M, S, Opening \o Inline(I, "lift"), Fresh, {b})
      BY <1>5, <1>6, <3>2
    <3> QED BY <1>3, <1>5, <1>6, <3>1, <3>3, <3>4, <3>5
  <2>2. CASE p = E
    <3> DEFINE b == IF E = n THEN Settled ELSE a
    <3>1. /\ todo = Answer(E) \o Request(R) /\ next = R
          /\ a = IF n = I THEN Settled ELSE IF n = E THEN Running ELSE Fresh
      BY <1>2, <1>7, <2>2 DEF Course
    <3>2. Leads(M, S, Answer(E), a, {b})
      BY <1>3, <1>4, <3>1
    <3>3. Leads(M, S, Request(R), b, {IF R = n THEN Running ELSE b})
      BY <1>3, <1>4, <3>1
    <3>4. {IF R = n THEN Running ELSE b} = G[R]
      BY <1>2, <3>1
    <3> HIDE DEF b
    <3> QED BY <1>3, <1>5, <1>6, <3>1, <3>2, <3>3, <3>4
  <2>3. CASE p = R
    <3> DEFINE b == IF R = n THEN Settled ELSE a
               c == IF "merge" = n THEN Settled ELSE b
    <3>1. /\ todo = (Answer(R) \o Inline("merge", "merge")) \o Awaiting /\ next = "gate"
          /\ a = IF n \in {I, E} THEN Settled ELSE IF n = R THEN Running ELSE Fresh
      BY <1>2, <1>7, <2>3 DEF Course
    <3>2. Leads(M, S, Answer(R), a, {b})
      BY <1>3, <1>4, <3>1
    <3>3. Leads(M, S, Inline("merge", "merge"), b, {c}) /\ Leads(M, S, Awaiting, c, {c})
      BY <1>3, <1>4, <3>1
    <3>4. {c} = G["gate"]
      BY <1>2, <1>3, <3>1
    <3> HIDE DEF b, c
    <3>5. /\ Answer(R) \o Inline("merge", "merge") \in Seq(Legal)
          /\ Leads(M, S, Answer(R) \o Inline("merge", "merge"), a, {c})
      BY <1>3, <1>5, <1>6, <3>2, <3>3
    <3> QED BY <1>5, <1>6, <3>1, <3>3, <3>4, <3>5
  <2>4. CASE p = "gate" /\ next = W
    <3>1. todo = Approval \o Request(W) /\ a = IF n = W THEN Fresh ELSE Settled
      BY <1>2, <1>7, <2>4 DEF Course
    <3>2. Leads(M, S, Approval, a, {a}) /\ Leads(M, S, Request(W), a, {IF W = n THEN Running ELSE a})
      BY <1>3, <1>4, <3>1
    <3>3. {IF W = n THEN Running ELSE a} = G[W]
      BY <1>2, <3>1
    <3> QED BY <1>3, <1>5, <1>6, <2>4, <3>1, <3>2, <3>3
  <2>5. CASE p = "gate" /\ next = "over"
    <3>1. todo = Rejection /\ a \in {Fresh, Settled}
      BY <1>2, <1>7, <2>5 DEF Course
    <3> QED BY <1>1, <1>4, <2>5, <3>1
  <2>6. CASE p = W
    <3>1. todo = Answer(W) \o Closing /\ next = "over" /\ a = IF n = W THEN Running ELSE Settled
      BY <1>2, <1>7, <2>6 DEF Course
    <3>2. Leads(M, S, Answer(W), a, {Settled})
      BY <1>3, <1>4, <3>1
    <3>3. Leads(M, S, Closing, Settled, Stages)
      BY StageEnds DEF M
    <3> QED BY <1>1, <1>3, <1>5, <1>6, <3>1, <3>2, <3>3
  <2> QED BY <1>7, <2>1, <2>2, <2>3, <2>4, <2>5, <2>6 DEF Course
<1>8. \A m \in Adapted : \A a \in G[m] : Leads(M, S, Failure(m), a, S)
  BY <1>2, <1>3, <1>4
<1>9. \A a \in S : Leads(M, S, Handler, a, S)
  BY StageEnds DEF M
<1>10. ASSUME NEW o \in Legal, NEW a \in S, NEW b \in S, o.op = "egress", o.node \in Egress, <<o, a, b>> \in M
       PROVE  Leads(M, S, Denied(o.node), a, S)
  <2>1. a # Crowned /\ (o.node = n => a = Running) /\ o.node \in Nodes
    BY <1>3, <1>10 DEF M, StageMoves, Egress, Running, Crowned
  <2>2. CASE o.node = n
    BY <2>1, <2>2, StageParts DEF M
  <2>3. CASE o.node # n
    BY <2>1, <2>3, StagesAside, StageAsideParts DEF M
  <2> QED BY <2>2, <2>3
<1>11. Fits(M, S, G)
  BY <1>1, <1>7, <1>8, <1>9, <1>10 DEF Fits
<1> QED BY <1>11 DEF M, G

\* What the console makes of a timeline.
Told(s, n) == {i \in DOMAIN s : s[i][2] = n /\ s[i][1] \in DOMAIN ShownAs}
ShownIn(s, n) == IF Told(s, n) = {} THEN "pending"
                 ELSE ShownAs[s[CHOOSE i \in Told(s, n) : \A j \in Told(s, n) : j <= i][1]]

\* A set of positions has a last one.
LEMMA LastExists ==
  ASSUME NEW N \in Nat, NEW T \in SUBSET (1..N), T # {}
  PROVE  \E i \in T : \A j \in T : j <= i
<1> DEFINE back == {N - i : i \in T}
<1>1. back \subseteq Nat /\ back # {}
  <2>1. PICK i \in T : TRUE
    OBVIOUS
  <2>2. N - i \in back
    OBVIOUS
  <2> QED BY <2>2
<1>2. PICK b \in back : \A c \in back : <<c, b>> \notin OpToRel(<, Nat)
  BY <1>1, NatLessThanWellFounded, WFMin
<1>3. \A c \in back : ~(c < b)
  BY <1>1, <1>2, Zenon DEF OpToRel
<1>4. PICK i \in T : b = N - i
  OBVIOUS
<1>5. ASSUME NEW j \in T PROVE j <= i
  <2>1. N - j \in back
    OBVIOUS
  <2>2. ~(N - j < N - i)
    BY <1>3, <1>4, <2>1
  <2> QED BY <2>2
<1> QED BY <1>5

LEMMA ShownAfter ==
  ASSUME NEW s \in Seq(Kinds \X Subjects), NEW x \in Kinds \X Subjects, NEW n
  PROVE  ShownIn(Append(s, x), n) = IF x[2] = n /\ x[1] \in DOMAIN ShownAs THEN ShownAs[x[1]]
                                    ELSE ShownIn(s, n)
<1> DEFINE r == Append(s, x)  N == Len(s)
<1>1. /\ N \in Nat /\ DOMAIN s = 1..N /\ DOMAIN r = 1..(N + 1)
      /\ r[N + 1] = x /\ \A i \in 1..N : r[i] = s[i]
  BY AppendProperties, LenProperties
<1> HIDE DEF r, N
<1>2. CASE x[2] = n /\ x[1] \in DOMAIN ShownAs
  <2>1. N + 1 \in Told(r, n) /\ \A j \in Told(r, n) : j <= N + 1 /\ j \in Nat
    BY <1>1, <1>2 DEF Told
  <2>2. \A i \in Told(r, n) : (\A j \in Told(r, n) : j <= i) => i = N + 1
    BY <1>1, <2>1
  <2>3. (CHOOSE i \in Told(r, n) : \A j \in Told(r, n) : j <= i) = N + 1
    BY <2>1, <2>2
  <2>4. ShownIn(r, n) = ShownAs[x[1]]
    BY <1>1, <2>1, <2>3 DEF ShownIn
  <2> QED BY <1>2, <2>4 DEF r
<1>3. CASE ~(x[2] = n /\ x[1] \in DOMAIN ShownAs)
  <2>1. Told(r, n) = Told(s, n)
    BY <1>1, <1>3 DEF Told
  <2>2. CASE Told(s, n) = {}
    BY <1>3, <2>1, <2>2 DEF ShownIn, r
  <2>3. CASE Told(s, n) # {}
    <3> DEFINE last == CHOOSE i \in Told(s, n) : \A j \in Told(s, n) : j <= i
    <3>1. last \in Told(s, n)
      <4>1. Told(s, n) \in SUBSET (1..N)
        BY <1>1 DEF Told
      <4>2. \E i \in Told(s, n) : \A j \in Told(s, n) : j <= i
        BY <1>1, <2>3, <4>1, LastExists
      <4> QED BY <4>2
    <3>2. r[last] = s[last]
      BY <1>1, <3>1 DEF Told
    <3> QED BY <1>3, <2>1, <2>3, <3>2 DEF ShownIn, r
  <2> QED BY <2>2, <2>3
<1> QED BY <1>2, <1>3

LEMMA ShownIs ==
  ASSUME NEW t, NEW n
  PROVE  Shown(t, n) = ShownIn(log[t], n) /\ Shown(t, n)' = ShownIn(log'[t], n)
  BY DEF Shown, ShownIn, Told

\* The stage of a node changes with the ops of its task.
StageInv == \A n \in Nodes : OnCourse(StageMoves(n), Stages, StagePlaces(n), StageState(n), loop, at)

LEMMA StageEffect ==
  ASSUME TInv, Popping, NEW n \in Nodes, NEW u \in Tasks
  PROVE  StageState(n)'[u] = IF u = loop.task THEN StageAfter(Op, n, StageState(n)[u])
                             ELSE StageState(n)[u]
<1>1. /\ row'[u] = IF Op.op = "row" /\ u = loop.task THEN Op.to ELSE row[u]
      /\ node'[u][n] = IF Op.op = "node" /\ u = loop.task /\ n = Op.node THEN Op.to ELSE node[u][n]
      /\ log'[u] = IF Op.op = "event" /\ u = loop.task THEN Append(log[u], <<Op.to, Op.node>>) ELSE log[u]
      /\ Op \in Legal /\ log[u] \in Seq(Kinds \X Subjects)
  <2>1. Op \in Legal
    BY PopLoop
  <2>2. log[u] \in Seq(Kinds \X Subjects)
    BY DEF TInv
  <2> QED BY <2>1, <2>2, OpEffect
<1>2. Shown(u, n) = ShownIn(log[u], n) /\ Shown(u, n)' = ShownIn(log'[u], n)
  BY ShownIs
<1>3. Shown(u, n)' = IF u = loop.task /\ OfShow(Op, n) THEN ShownAs[Op.to] ELSE Shown(u, n)
  <2>1. CASE u = loop.task /\ Op.op = "event"
    <3>1. <<Op.to, Op.node>> \in Kinds \X Subjects
      BY <1>1, <2>1 DEF Legal, Ops
    <3>2. log'[u] = Append(log[u], <<Op.to, Op.node>>)
      BY <1>1, <2>1
    <3> PICK x \in Kinds \X Subjects : x = <<Op.to, Op.node>>
      BY <3>1
    <3>3. ShownIn(Append(log[u], x), n) = IF x[2] = n /\ x[1] \in DOMAIN ShownAs THEN ShownAs[x[1]]
                                          ELSE ShownIn(log[u], n)
      BY <1>1, ShownAfter
    <3>4. x[2] = n /\ x[1] \in DOMAIN ShownAs <=> OfShow(Op, n)
      BY <2>1 DEF OfShow
    <3>5. Shown(u, n)' = ShownIn(Append(log[u], x), n)
      BY <1>2, <3>2
    <3> QED BY <1>2, <2>1, <3>3, <3>4, <3>5
  <2>2. CASE ~(u = loop.task /\ Op.op = "event")
    BY <1>1, <1>2, <2>2 DEF OfShow
  <2> QED BY <2>1, <2>2
<1>4. StageState(n)'[u] = <<node'[u][n], Shown(u, n)', IF row'[u] = "succeeded" THEN "won" ELSE "open">>
  BY DEF StageState
<1>5. StageState(n)[u] = <<node[u][n], Shown(u, n), IF row[u] = "succeeded" THEN "won" ELSE "open">>
  BY DEF StageState
<1> QED BY <1>1, <1>3, <1>4, <1>5 DEF StageAfter, OfRow

LEMMA StageStep == TInv /\ StageInv /\ [Next]_vars => StageInv'
<1> SUFFICES ASSUME TInv, StageInv, [Next]_vars, NEW n \in Nodes
             PROVE  OnCourse(StageMoves(n), Stages, StagePlaces(n), StageState(n)', loop', at')
  BY DEF StageInv
<1> DEFINE M == StageMoves(n)  S == Stages  G == StagePlaces(n)
<1>1. PICK st : st = StageState(n)
  OBVIOUS
<1>2. PICK to : to = StageState(n)'
  OBVIOUS
<1>3. OnCourse(M, S, G, st, loop, at) /\ Fits(M, S, G)
  BY <1>1, StagesFit DEF StageInv
<1>4. Popping => \A b \in S : <<Op, st[loop.task], b>> \in M => to[loop.task] = b
  <2>1. Popping => loop.task \in Tasks
    BY PopLoop DEF Job
  <2> QED BY <1>1, <1>2, <2>1, StageEffect DEF StageMoves
<1>5. \A u \in Tasks : SameRecord(u) => to[u] = st[u]
  <2> SUFFICES ASSUME NEW u \in Tasks, SameRecord(u) PROVE to[u] = st[u]
    OBVIOUS
  <2>1. Shown(u, n)' = Shown(u, n)
    BY ShownIs DEF SameRecord
  <2>2. StageState(n)'[u] = <<node'[u][n], Shown(u, n)', IF row'[u] = "succeeded" THEN "won" ELSE "open">>
    BY DEF StageState
  <2> QED BY <1>1, <1>2, <2>1, <2>2 DEF SameRecord, StageState
<1>6. \A u \in Tasks : Submit(u) /\ st[u] \in G[at[u]] => to[u] \in G["queued"]
  <2> SUFFICES ASSUME NEW u \in Tasks, Submit(u), st[u] \in G[at[u]] PROVE to[u] \in G["queued"]
    OBVIOUS
  <2>1. G["none"] = {Fresh} /\ G["queued"] = {Fresh}
    BY DEF StagePlaces, SettledAt, Places, Nodes, Adapted, InProcess
  <2>2. /\ node'[u] = node[u] /\ log'[u] = log[u] /\ row'[u] = "created" /\ at[u] = "none"
    BY DEF Submit, TInv
  <2>3. st[u] = Fresh
    BY <2>1, <2>2
  <2>4. to[u] = <<st[u][1], st[u][2], "open">>
    <3>1. Shown(u, n)' = Shown(u, n)
      BY <2>2, ShownIs
    <3>2. StageState(n)'[u] = <<node'[u][n], Shown(u, n)', IF row'[u] = "succeeded" THEN "won" ELSE "open">>
      BY DEF StageState
    <3>3. st[u] = <<node[u][n], Shown(u, n), IF row[u] = "succeeded" THEN "won" ELSE "open">>
      BY <1>1 DEF StageState
    <3> QED BY <1>2, <2>2, <3>1, <3>2, <3>3
  <2> QED BY <2>1, <2>3, <2>4 DEF Fresh
<1> HIDE DEF M, S, G
<1>7. OnCourse(M, S, G, to, loop', at')
  BY <1>3, <1>4, <1>5, <1>6, CourseKept
<1> QED BY <1>2, <1>7 DEF M, S, G

-----------------------------------------------------------------------------
(* The run: its row, whether an exception goes to the handler, what the timeline told last,
   and whether the bus is closed. *)

ToldBy(k) == IF k = "task.completed" THEN "completed" ELSE IF k = "task.failed" THEN "failed" ELSE "other"
LastTold(s) == IF s = <<>> THEN "other" ELSE ToldBy(s[Len(s)][1])

\* The try block is entered when the run is running and left before the row is final.
Tried == {"running", "succeeded", "cancelled"}
RunStates == {a \in RowStates \X {"in", "out"} \X {"other", "completed", "failed"} \X {"ajar", "shut"} :
                a[2] = "in" => a[1] \in Tried}
Ends == {<<"succeeded", "completed">>, <<"cancelled", "failed">>, <<"failed", "failed">>}

RunAfter(o, a) == <<IF o.op = "row" THEN o.to ELSE a[1],
                    IF o.op = "try" THEN "in" ELSE IF o.op = "untry" THEN "out" ELSE a[2],
                    IF o.op = "event" THEN ToldBy(o.to) ELSE a[3],
                    IF o.op = "close" THEN "shut" ELSE a[4]>>
Going == <<"running", "in", "other", "ajar">>
RunMoves == {m \in Legal \X RunStates \X RunStates :
               /\ m[2][4] = "ajar"
               /\ m[1].op = "egress" => m[2] = Going
               /\ m[1].op # "raise" => m[3] = RunAfter(m[1], m[2])
               /\ m[1].op = "row" => \/ m[1].to = m[2][1]
                                     \/ <<m[2][1], m[1].to>> \in TaskTransitions \cup LateFailures}

RunPlaces == [p \in Places |->
                CASE p = "none" -> {<<"none", "out", "other", "ajar">>}
                  [] p = "queued" -> {<<"created", "out", "other", "ajar">>}
                  [] p \in {"gate"} \cup Adapted -> {Going}
                  [] p = "over" -> {a \in RunStates : <<a[1], a[3]>> \in Ends}
                  [] OTHER -> {a \in RunStates : a[2] = "out" /\ a[4] = "ajar"}]

\* Inside the try block: as the coroutine says that runs, or by where it is suspended.
Inside(l, p, t) == IF l # Idle /\ l.task = t THEN l.guarded ELSE p[t] \in {"gate"} \cup Adapted
RunState == [t \in Tasks |-> <<row[t], IF Inside(loop, at, t) THEN "in" ELSE "out", LastTold(log[t]),
                               IF t \in closed THEN "shut" ELSE "ajar">>]

RunInv == OnCourse(RunMoves, RunStates, RunPlaces, RunState, loop, at)

\* Ops that are no border, no row, and no end of the run.
RunAside == {o \in Legal : /\ o.op \notin {"row", "try", "untry", "close"}
                           /\ o.op = "event" => o.to \notin {"task.completed", "task.failed"}}

LEMMA RunsAside ==
  ASSUME NEW s \in Seq(RunAside), NEW B, Going \in B
  PROVE  Leads(RunMoves, RunStates, s, Going, B)
<1>1. Going \in RunStates
  BY DEF Going, RunStates, RowStates, Tried
<1>2. \A o \in RunAside : <<o, Going, Going>> \in RunMoves
  BY <1>1 DEF RunMoves, RunAside, RunAfter, Going, ToldBy
<1> QED BY <1>1, <1>2, LeadsAside

LEMMA RunAsideParts ==
  /\ \A m \in Nodes : Request(m) \in Seq(RunAside) /\ Failure(m) \in Seq(RunAside) /\ Denied(m) \in Seq(RunAside)
  /\ \A m \in Adapted : Answer(m) \in Seq(RunAside)
  /\ \A m \in Nodes : Inline(m, "lift") \in Seq(RunAside) /\ Inline(m, "merge") \in Seq(RunAside)
  /\ Awaiting \in Seq(RunAside) /\ Approval \in Seq(RunAside)
<1> DEFINE T == RunAside
<1> "human_approval" \in Subjects /\ "-" \in Subjects /\ Nodes \subseteq Subjects /\ Adapted \subseteq Nodes
  BY DEF Subjects, Nodes
<1>1. /\ \A m \in Subjects, k \in Kinds \ {"task.completed", "task.failed"} : Event(k, m) \in T
      /\ \A m \in Subjects, k \in {"grant", "egress"} : Save(k, m) \in T
      /\ \A k \in {"lift", "merge", "raise"} : Do(k) \in T
      /\ \A m \in Nodes, s \in NodeStates : NodeRow(m, s) \in T
      /\ \A m \in Adapted : Receipt(m) \in T
  <2>1. \A m \in Subjects, k \in Kinds \ {"task.completed", "task.failed"} : Event(k, m) \in T
    BY OpTypes DEF RunAside, Event
  <2>2. \A m \in Subjects : \A k \in {"grant", "egress", "lift", "merge", "raise"} : Save(k, m) \in T
    BY OpTypes DEF RunAside, Save, Passing
  <2>3. \A k \in {"lift", "merge", "raise"} : Do(k) \in T
    BY <2>2 DEF Do
  <2>4. \A m \in Nodes, s \in NodeStates : NodeRow(m, s) \in T
    BY OpTypes DEF RunAside, NodeRow
  <2>5. \A m \in Adapted : Receipt(m) \in T
    BY OpTypes DEF RunAside, Receipt, Save
  <2> QED BY <2>1, <2>2, <2>3, <2>4, <2>5
<1> HIDE DEF T
<1>2. \A m \in Nodes : Request(m) \in Seq(T) /\ Failure(m) \in Seq(T) /\ Denied(m) \in Seq(T)
  BY <1>1 DEF Request, Enter, Grant, Failure, Denied, Kinds, NodeStates
<1>3. \A m \in Nodes : Inline(m, "lift") \in Seq(T) /\ Inline(m, "merge") \in Seq(T)
  BY <1>1 DEF Inline, Enter, NodeStates, Kinds
<1>4. \A m \in Adapted : Answer(m) \in Seq(T)
  BY <1>1 DEF Answer, NodeStates, Kinds
<1>5. Awaiting \in Seq(T) /\ Approval \in Seq(T)
  BY <1>1 DEF Awaiting, Approval, Kinds
<1> QED BY <1>2, <1>3, <1>4, <1>5 DEF T

\* One op of a run.
LEMMA RunMove ==
  ASSUME NEW o \in Legal, o.op \notin {"raise", "egress"}, NEW a \in RunStates, a[4] = "ajar",
         o.op = "row" => o.to = a[1] \/ <<a[1], o.to>> \in TaskTransitions \cup LateFailures,
         RunAfter(o, a) \in RunStates
  PROVE  <<o, a, RunAfter(o, a)>> \in RunMoves
  BY DEF RunMoves

\* The lists that are about the row.
LEMMA RunOpens == Leads(RunMoves, RunStates, Opening, <<"created", "out", "other", "ajar">>, {Going})
<1> DEFINE s == Opening
           path == [i \in 1..(Len(s) + 1) |->
                      IF i <= 5 THEN <<"created", "out", "other", "ajar">>
                      ELSE IF i <= 8 THEN <<"planned", "out", "other", "ajar">>
                      ELSE IF i = 9 THEN <<"running", "out", "other", "ajar">> ELSE Going]
<1>1. s \in Seq(Legal) /\ Len(s) = 9
  BY PartTypes DEF Opening, Nodes, InProcess
<1>2. /\ s[1] = Do("inputs") /\ s[2] = Row("created") /\ s[3] = Event("task.received", "-")
      /\ s[4] = Do("plan") /\ s[5] = Row("planned") /\ s[6] = Event("plan.created", "-")
      /\ s[7] = Event("plan.signed", "-") /\ s[8] = Row("running") /\ s[9] = Do("try")
  BY DEF Opening, Plan
<1>3. /\ {<<r, "out", "other", "ajar">> : r \in {"created", "planned", "running"}} \subseteq RunStates
      /\ Going \in RunStates
  BY DEF RunStates, RowStates, Going, Tried
<1>4. path \in [1..(Len(s) + 1) -> RunStates] /\ path[1] = <<"created", "out", "other", "ajar">> /\ path[Len(s) + 1] = Going
  BY <1>1, <1>3
<1>5. ASSUME NEW i \in 1..Len(s) PROVE <<s[i], path[i], path[i + 1]>> \in RunMoves
  <2>1. s[i] \in Legal /\ path[i] \in RunStates /\ path[i + 1] \in RunStates
    <3>1. s[i] \in Legal
      BY <1>1, ElementOfSeq
    <3>2. i \in 1..(Len(s) + 1) /\ i + 1 \in 1..(Len(s) + 1)
      BY <1>1
    <3> HIDE DEF s, path
    <3> QED BY <1>4, <3>1, <3>2
  <2>2. /\ s[i].op \notin {"raise", "egress"} /\ path[i][4] = "ajar" /\ path[i + 1] = RunAfter(s[i], path[i])
        /\ s[i].op = "row" => \/ s[i].to = path[i][1]
                              \/ <<path[i][1], s[i].to>> \in TaskTransitions \cup LateFailures
    <3>1. i \in 1..9
      BY <1>1
    <3> HIDE DEF s
    <3>2. CASE i \in 1..5
      BY <1>1, <1>2, <3>2 DEF RunAfter, ToldBy, Do, Save, Row, Event, TaskTransitions, Going
    <3>3. CASE i \in 6..9
      BY <1>1, <1>2, <3>3 DEF RunAfter, ToldBy, Do, Save, Row, Event, TaskTransitions, Going
    <3> QED BY <3>1, <3>2, <3>3
  <2> QED BY <2>1, <2>2, RunMove
<1> HIDE DEF path
<1> QED BY <1>4, <1>5 DEF Leads

LEMMA RunHandles ==
  ASSUME NEW a \in RunStates, a[1] \in Tried, a[2] = "out", a[4] = "ajar"
  PROVE  Leads(RunMoves, RunStates, Handler, a, RunPlaces["over"])
<1> DEFINE s == Handler
           path == [i \in 1..(Len(s) + 1) |->
                      IF i = 1 THEN a
                      ELSE IF i = 2 THEN <<"failed", "out", a[3], "ajar">>
                      ELSE IF i = 3 THEN <<"failed", "out", "failed", "ajar">>
                      ELSE <<"failed", "out", "failed", "shut">>]
<1>1. s \in Seq(Legal) /\ Len(s) = 3
  BY PartTypes DEF Handler, Nodes, InProcess
<1>2. s[1] = Row("failed") /\ s[2] = Event("task.failed", "-") /\ s[3] = Do("close")
  BY DEF Handler
<1>3. /\ {<<"failed", "out", a[3], "ajar">>, <<"failed", "out", "failed", "ajar">>,
          <<"failed", "out", "failed", "shut">>} \subseteq RunStates
      /\ a = <<a[1], "out", a[3], "ajar">>
  BY DEF RunStates, RowStates
<1>4. /\ path \in [1..(Len(s) + 1) -> RunStates] /\ path[1] = a
      /\ path[Len(s) + 1] = <<"failed", "out", "failed", "shut">>
  BY <1>1, <1>3
<1>5. ASSUME NEW i \in 1..Len(s) PROVE <<s[i], path[i], path[i + 1]>> \in RunMoves
  <2>1. s[i] \in Legal /\ path[i] \in RunStates /\ path[i + 1] \in RunStates
    <3>1. s[i] \in Legal
      BY <1>1, ElementOfSeq
    <3>2. i \in 1..(Len(s) + 1) /\ i + 1 \in 1..(Len(s) + 1)
      BY <1>1
    <3> HIDE DEF s, path
    <3> QED BY <1>4, <3>1, <3>2
  <2>2. /\ s[i].op \notin {"raise", "egress"} /\ path[i][4] = "ajar" /\ path[i + 1] = RunAfter(s[i], path[i])
        /\ s[i].op = "row" => \/ s[i].to = path[i][1]
                              \/ <<path[i][1], s[i].to>> \in TaskTransitions \cup LateFailures
    <3>1. i \in 1..3
      BY <1>1
    <3> HIDE DEF s
    <3> QED BY <1>1, <1>2, <1>3, <3>1 DEF RunAfter, ToldBy, Do, Save, Row, Event, TaskTransitions,
                                          LateFailures, Tried
  <2> QED BY <2>1, <2>2, RunMove
<1>6. <<"failed", "out", "failed", "shut">> \in RunPlaces["over"]
  BY <1>3 DEF RunPlaces, Places, Adapted, Ends
<1> HIDE DEF path
<1> QED BY <1>4, <1>5, <1>6 DEF Leads

LEMMA RunIsRejected == Leads(RunMoves, RunStates, Rejection, Going, RunPlaces["over"])
<1> DEFINE s == Rejection
           path == [i \in 1..(Len(s) + 1) |->
                      IF i <= 2 THEN Going
                      ELSE IF i = 3 THEN <<"cancelled", "in", "other", "ajar">>
                      ELSE IF i = 4 THEN <<"cancelled", "in", "failed", "ajar">>
                      ELSE <<"cancelled", "in", "failed", "shut">>]
<1>1. s \in Seq(Legal) /\ Len(s) = 4
  BY PartTypes DEF Rejection, Nodes, InProcess
<1>2. /\ s[1] = Event("node.rejected", "human_approval") /\ s[2] = Row("cancelled")
      /\ s[3] = Event("task.failed", "-") /\ s[4] = Do("close")
  BY DEF Rejection
<1>3. {Going, <<"cancelled", "in", "other", "ajar">>, <<"cancelled", "in", "failed", "ajar">>,
       <<"cancelled", "in", "failed", "shut">>} \subseteq RunStates
  BY DEF RunStates, RowStates, Going, Tried
<1>4. /\ path \in [1..(Len(s) + 1) -> RunStates] /\ path[1] = Going
      /\ path[Len(s) + 1] = <<"cancelled", "in", "failed", "shut">>
  BY <1>1, <1>3
<1>5. ASSUME NEW i \in 1..Len(s) PROVE <<s[i], path[i], path[i + 1]>> \in RunMoves
  <2>1. s[i] \in Legal /\ path[i] \in RunStates /\ path[i + 1] \in RunStates
    <3>1. s[i] \in Legal
      BY <1>1, ElementOfSeq
    <3>2. i \in 1..(Len(s) + 1) /\ i + 1 \in 1..(Len(s) + 1)
      BY <1>1
    <3> HIDE DEF s, path
    <3> QED BY <1>4, <3>1, <3>2
  <2>2. /\ s[i].op \notin {"raise", "egress"} /\ path[i][4] = "ajar" /\ path[i + 1] = RunAfter(s[i], path[i])
        /\ s[i].op = "row" => \/ s[i].to = path[i][1]
                              \/ <<path[i][1], s[i].to>> \in TaskTransitions \cup LateFailures
    <3>1. i \in 1..4
      BY <1>1
    <3> HIDE DEF s
    <3> QED BY <1>1, <1>2, <3>1 DEF RunAfter, ToldBy, Do, Save, Row, Event, TaskTransitions, Going
  <2> QED BY <2>1, <2>2, RunMove
<1>6. <<"cancelled", "in", "failed", "shut">> \in RunPlaces["over"]
  BY <1>3 DEF RunPlaces, Places, Adapted, Ends
<1> HIDE DEF path
<1> QED BY <1>4, <1>5, <1>6 DEF Leads

LEMMA RunCloses == Leads(RunMoves, RunStates, Closing, Going, RunPlaces["over"])
<1> DEFINE s == Closing
           path == [i \in 1..(Len(s) + 1) |->
                      IF i = 1 THEN Going
                      ELSE IF i = 2 THEN <<"succeeded", "in", "other", "ajar">>
                      ELSE IF i = 3 THEN <<"succeeded", "in", "completed", "ajar">>
                      ELSE IF i <= 5 THEN <<"succeeded", "out", "completed", "ajar">>
                      ELSE <<"succeeded", "out", "completed", "shut">>]
<1>1. s \in Seq(Legal) /\ Len(s) = 5
  BY PartTypes DEF Closing, Nodes, InProcess
<1>2. /\ s[1] = Row("succeeded") /\ s[2] = Event("task.completed", "-")
      /\ s[3] = Do("untry") /\ s[4] = Do("verify") /\ s[5] = Do("close")
  BY DEF Closing
<1>3. {Going, <<"succeeded", "in", "other", "ajar">>, <<"succeeded", "in", "completed", "ajar">>,
       <<"succeeded", "out", "completed", "ajar">>, <<"succeeded", "out", "completed", "shut">>}
        \subseteq RunStates
  BY DEF RunStates, RowStates, Going, Tried
<1>4. /\ path \in [1..(Len(s) + 1) -> RunStates] /\ path[1] = Going
      /\ path[Len(s) + 1] = <<"succeeded", "out", "completed", "shut">>
  BY <1>1, <1>3
<1>5. ASSUME NEW i \in 1..Len(s) PROVE <<s[i], path[i], path[i + 1]>> \in RunMoves
  <2>1. s[i] \in Legal /\ path[i] \in RunStates /\ path[i + 1] \in RunStates
    <3>1. s[i] \in Legal
      BY <1>1, ElementOfSeq
    <3>2. i \in 1..(Len(s) + 1) /\ i + 1 \in 1..(Len(s) + 1)
      BY <1>1
    <3> HIDE DEF s, path
    <3> QED BY <1>4, <3>1, <3>2
  <2>2. /\ s[i].op \notin {"raise", "egress"} /\ path[i][4] = "ajar" /\ path[i + 1] = RunAfter(s[i], path[i])
        /\ s[i].op = "row" => \/ s[i].to = path[i][1]
                              \/ <<path[i][1], s[i].to>> \in TaskTransitions \cup LateFailures
    <3>1. i \in 1..5
      BY <1>1
    <3> HIDE DEF s
    <3> QED BY <1>1, <1>2, <3>1 DEF RunAfter, ToldBy, Do, Save, Row, Event, TaskTransitions, Going
  <2> QED BY <2>1, <2>2, RunMove
<1>6. <<"succeeded", "out", "completed", "shut">> \in RunPlaces["over"]
  BY <1>3 DEF RunPlaces, Places, Adapted, Ends
<1> HIDE DEF path
<1> QED BY <1>4, <1>5, <1>6 DEF Leads

\* A node that fails raises, and what comes then is for the handler.
LEMMA RunFails ==
  ASSUME NEW m \in Nodes
  PROVE  /\ Leads(RunMoves, RunStates, Failure(m), Going, RunPlaces["over"])
         /\ Leads(RunMoves, RunStates, Denied(m), Going, RunPlaces["over"])
<1> DEFINE s == Failure(m)  end == <<"failed", "out", "failed", "shut">>
           path == [i \in 1..(Len(s) + 1) |-> IF i = 4 THEN end ELSE Going]
<1>1. s \in Seq(RunAside) /\ s \in Seq(Legal) /\ Len(s) = 3 /\ s[3] = Do("raise")
  BY RunAsideParts, PartTypes DEF Failure
<1>2. Going \in RunStates /\ end \in RunStates /\ end \in RunPlaces["over"] /\ Going[4] = "ajar"
  BY DEF RunStates, RowStates, Going, Tried, RunPlaces, Places, Adapted, Ends
<1>3. \A o \in RunAside : <<o, Going, Going>> \in RunMoves
  BY <1>2 DEF RunMoves, RunAside, RunAfter, Going, ToldBy
<1>4. s[1] \in RunAside /\ s[2] \in RunAside /\ s[3] \in Legal
  <2>1. \A i \in 1..Len(s) : s[i] \in RunAside
    BY <1>1, ElementOfSeq
  <2> HIDE DEF s
  <2> QED BY <1>1, <2>1 DEF RunAside
<1>5. <<s[3], Going, end>> \in RunMoves
  <2> PICK o \in Legal : o = s[3] /\ o.op = "raise"
    BY <1>1, <1>4 DEF Do, Save
  <2> HIDE DEF s, end
  <2>1. <<o, Going, end>> \in RunMoves
    BY <1>2 DEF RunMoves
  <2> QED BY <2>1
<1> HIDE DEF s, end
<1>6. /\ path \in [1..(Len(s) + 1) -> RunStates] /\ path[1] = Going /\ path[2] = Going
      /\ path[3] = Going /\ path[4] = end /\ path[Len(s) + 1] \in RunPlaces["over"]
  BY <1>1, <1>2
<1> HIDE DEF path
<1>7. \A i \in 1..Len(s) : <<s[i], path[i], path[i + 1]>> \in RunMoves
  <2>1. \A i \in 1..Len(s) : i = 1 \/ i = 2 \/ i = 3
    BY <1>1
  <2> QED BY <1>3, <1>4, <1>5, <1>6, <2>1
<1>8. Leads(RunMoves, RunStates, s, Going, RunPlaces["over"])
  BY <1>6, <1>7 DEF Leads
<1>9. <<Event("policy.decision", m)>> \in Seq(RunAside) /\ <<Event("policy.decision", m)>> \in Seq(Legal)
  <2>1. Event("policy.decision", m) \in Legal
    BY OpTypes DEF Subjects, Kinds
  <2>2. Event("policy.decision", m) \in RunAside
    BY <2>1 DEF RunAside, Event
  <2> QED BY <2>1, <2>2
<1>10. Leads(RunMoves, RunStates, <<Event("policy.decision", m)>>, Going, {Going})
  BY <1>9, RunsAside
<1>11. Leads(RunMoves, RunStates, Denied(m), Going, RunPlaces["over"])
  BY <1>1, <1>8, <1>9, <1>10, LeadsJoined DEF Denied, s
<1> QED BY <1>8, <1>11 DEF s

\* What a coroutine begins to do takes its run to where it is suspended or over.
LEMMA RunCourses ==
  ASSUME NEW p \in Places, NEW a \in RunPlaces[p], NEW todo, NEW next, Course(p, todo, next)
  PROVE  Leads(RunMoves, RunStates, todo, a, RunPlaces[next])
<1> DEFINE M == RunMoves  S == RunStates
           E == "extract_facts_local"  R == "public_research"  W == "write_sink"
<1>1. /\ RunPlaces["queued"] = {<<"created", "out", "other", "ajar">>}
      /\ \A q \in {"gate", E, R, W} : RunPlaces[q] = {Going}
  BY DEF RunPlaces, Places, Adapted
<1>2. /\ {E, R, W} = Adapted /\ Adapted \subseteq Nodes /\ {"ingest_contract", "merge"} \subseteq Nodes
      /\ {"ingest_contract", "merge"} = InProcess
  BY DEF Nodes, Adapted, InProcess
<1> HIDE DEF M, S
<1>3. \A s \in Seq(RunAside) : Leads(M, S, s, Going, {Going}) /\ s \in Seq(Legal)
  BY RunsAside DEF M, S, RunAside
<1>4. \A x, y \in Seq(Legal) : \A u, v, B : Leads(M, S, x, u, {v}) /\ Leads(M, S, y, v, B)
                                              => Leads(M, S, x \o y, u, B) /\ x \o y \in Seq(Legal)
  BY LeadsJoined, ConcatProperties
<1>5. CASE p = "queued"
  <2>1. /\ todo = (Opening \o Inline("ingest_contract", "lift")) \o Request(E) /\ next = E
        /\ a = <<"created", "out", "other", "ajar">>
    BY <1>1, <1>5 DEF Course
  <2>2. Opening \in Seq(Legal) /\ Leads(M, S, Opening, a, {Going})
    BY <1>2, <2>1, PartTypes, RunOpens DEF M, S
  <2>3. /\ Leads(M, S, Inline("ingest_contract", "lift"), Going, {Going})
        /\ Inline("ingest_contract", "lift") \in Seq(Legal)
        /\ Leads(M, S, Request(E), Going, {Going}) /\ Request(E) \in Seq(Legal)
    BY <1>2, <1>3, RunAsideParts
  <2>4. /\ Leads(M, S, Opening \o Inline("ingest_contract", "lift"), a, {Going})
        /\ Opening \o Inline("ingest_contract", "lift") \in Seq(Legal)
    BY <1>4, <2>2, <2>3
  <2>5. Leads(M, S, todo, a, {Going})
    BY <1>4, <2>1, <2>3, <2>4
  <2> QED BY <1>1, <2>1, <2>5 DEF M, S
<1>6. CASE todo = Rejection /\ next = "over" /\ p = "gate"
  BY <1>1, <1>6, RunIsRejected
<1>7. CASE p = W
  <2>1. todo = Answer(W) \o Closing /\ next = "over" /\ a = Going
    BY <1>1, <1>7 DEF Course
  <2>2. Leads(M, S, Answer(W), Going, {Going}) /\ Answer(W) \in Seq(Legal) /\ Closing \in Seq(Legal)
    BY <1>2, <1>3, RunAsideParts, PartTypes
  <2>3. Leads(M, S, Closing, Going, RunPlaces["over"])
    BY RunCloses DEF M, S
  <2>4. Leads(M, S, todo, a, RunPlaces["over"])
    BY <1>4, <2>1, <2>2, <2>3
  <2> QED BY <2>1, <2>4 DEF M, S
<1>8. CASE p \in {E, R} \/ (p = "gate" /\ next = W)
  <2>1. \A x, y \in Seq(RunAside) : x \o y \in Seq(RunAside)
    BY ConcatProperties
  <2>2. todo \in Seq(RunAside) /\ a = Going /\ RunPlaces[next] = {Going}
    <3>1. CASE todo = Answer(E) \o Request(R) /\ next = R
      BY <1>1, <1>2, <1>8, <2>1, <3>1, RunAsideParts
    <3>2. CASE todo = (Answer(R) \o Inline("merge", "merge")) \o Awaiting /\ next = "gate"
      BY <1>1, <1>2, <1>8, <2>1, <3>2, RunAsideParts
    <3>3. CASE todo = Approval \o Request(W) /\ next = W
      BY <1>1, <1>2, <1>8, <2>1, <3>3, RunAsideParts
    <3> QED BY <1>8, <3>1, <3>2, <3>3 DEF Course
  <2> QED BY <1>3, <2>2 DEF M, S
<1> QED BY <1>5, <1>6, <1>7, <1>8 DEF Course

\* An op of the task, and what leaves a task alone.
LEMMA RunEffect ==
  ASSUME TInv, Popping, loop.task \in Tasks
  PROVE  RunState'[loop.task] = RunAfter(Op, RunState[loop.task])
<1> PICK t \in Tasks : t = loop.task
  OBVIOUS
<1>1. /\ row'[t] = IF Op.op = "row" THEN Op.to ELSE row[t]
      /\ log'[t] = IF Op.op = "event" THEN Append(log[t], <<Op.to, Op.node>>) ELSE log[t]
      /\ closed' = IF Op.op = "close" THEN closed \cup {t} ELSE closed
      /\ log[t] \in Seq(Kinds \X Subjects)
  BY OpEffect DEF TInv
<1>2. /\ Inside(loop, at, t) = loop.guarded /\ Inside(loop', at', t) = loop'.guarded
      /\ loop.guarded \in BOOLEAN /\ loop'.guarded \in BOOLEAN
      /\ Op.op \notin {"try", "untry"} => loop'.guarded = loop.guarded
      /\ Op.op = "try" => loop'.guarded
      /\ Op.op = "untry" => ~loop'.guarded
  BY PopLoop DEF Inside, Job
<1>3. LastTold(log'[t]) = IF Op.op = "event" THEN ToldBy(Op.to) ELSE LastTold(log[t])
  <2>1. CASE Op.op = "event"
    <3>0. <<Op.to, Op.node>> \in Kinds \X Subjects
      BY <2>1, PopLoop DEF Legal, Ops
    <3> PICK x \in Kinds \X Subjects : x = <<Op.to, Op.node>>
      BY <3>0
    <3>1. Append(log[t], x) # <<>> /\ Append(log[t], x)[Len(Append(log[t], x))] = x
      BY <1>1, AppendProperties, LenProperties
    <3> QED BY <1>1, <2>1, <3>1 DEF LastTold
  <2> QED BY <1>1, <2>1
<1>4. RunState'[t] = <<row'[t], IF Inside(loop', at', t) THEN "in" ELSE "out", LastTold(log'[t]),
                       IF t \in closed' THEN "shut" ELSE "ajar">>
  BY DEF RunState
<1>5. RunState[t] = <<row[t], IF Inside(loop, at, t) THEN "in" ELSE "out", LastTold(log[t]),
                      IF t \in closed THEN "shut" ELSE "ajar">>
  BY DEF RunState
<1> QED BY <1>1, <1>2, <1>3, <1>4, <1>5 DEF RunAfter

\* How the state of a run follows what is stored of it.
LEMMA RunParts ==
  ASSUME NEW u \in Tasks, TInv, TInv'
  PROVE  /\ RunState[u] = <<row[u], IF Inside(loop, at, u) THEN "in" ELSE "out", LastTold(log[u]),
                            IF u \in closed THEN "shut" ELSE "ajar">>
         /\ RunState'[u] = <<row'[u], IF Inside(loop', at', u) THEN "in" ELSE "out", LastTold(log'[u]),
                             IF u \in closed' THEN "shut" ELSE "ajar">>
         /\ LastTold(log[u]) \in {"other", "completed", "failed"}
         /\ row[u] \in RowStates
  BY DEF RunState, LastTold, ToldBy, TInv

LEMMA RunStep == TInv /\ RunInv /\ [Next]_vars => RunInv'
<1> SUFFICES ASSUME TInv, RunInv, [Next]_vars
             PROVE  OnCourse(RunMoves, RunStates, RunPlaces, RunState', loop', at')
  BY DEF RunInv
<1> DEFINE M == RunMoves  S == RunStates  G == RunPlaces
<1>1. PICK st : st = RunState
  OBVIOUS
<1>2. PICK to : to = RunState'
  OBVIOUS
<1>3. /\ OnCourse(M, S, G, st, loop, at) /\ TInv' /\ at \in [Tasks -> Places] /\ at' \in [Tasks -> Places]
      /\ loop # Idle => loop \in Job /\ loop.task \in Tasks /\ at[loop.task] \in Suspended /\ loop.next \in Places
      /\ \A u \in Tasks :
           /\ st[u] = <<row[u], IF Inside(loop, at, u) THEN "in" ELSE "out", LastTold(log[u]),
                        IF u \in closed THEN "shut" ELSE "ajar">>
           /\ to[u] = <<row'[u], IF Inside(loop', at', u) THEN "in" ELSE "out", LastTold(log'[u]),
                        IF u \in closed' THEN "shut" ELSE "ajar">>
           /\ row[u] \in RowStates /\ LastTold(log[u]) \in {"other", "completed", "failed"}
  BY <1>1, <1>2, TypeStep, RunParts DEF RunInv, TInv, Job
<1>4. /\ G["none"] = {<<"none", "out", "other", "ajar">>} /\ G["queued"] = {<<"created", "out", "other", "ajar">>}
      /\ \A p \in {"gate"} \cup Adapted : G[p] = {Going}
      /\ G["over"] = {a \in RunStates : <<a[1], a[3]>> \in Ends}
      /\ \A p \in {"escaped", "lost"} : G[p] = {a \in RunStates : a[2] = "out" /\ a[4] = "ajar"}
      /\ Places = {"none", "queued", "over", "escaped", "lost"} \cup ({"gate"} \cup Adapted)
      /\ \A p \in Places : G[p] \subseteq S
  <2>1. Going \in RunStates /\ {<<r, "out", "other", "ajar">> : r \in {"none", "created"}} \subseteq RunStates
    BY DEF RunStates, RowStates, Going, Tried
  <2> QED BY <2>1 DEF RunPlaces, Places, Adapted
<1>5. Popping => \A b \in S : <<Op, st[loop.task], b>> \in M => to[loop.task] = b
  <2> SUFFICES ASSUME Popping PROVE \A b \in S : <<Op, st[loop.task], b>> \in M => to[loop.task] = b
    OBVIOUS
  <2>1. loop.task \in Tasks /\ Op.op # "raise"
    BY PopLoop DEF Job
  <2>2. to[loop.task] = RunAfter(Op, st[loop.task])
    BY <1>1, <1>2, <2>1, RunEffect
  <2> QED BY <2>1, <2>2 DEF RunMoves
<1>6. ASSUME NEW u \in Tasks, SameRecord(u), closed' = closed, Inside(loop', at', u) = Inside(loop, at, u)
      PROVE  to[u] = st[u]
  BY <1>3, <1>6 DEF SameRecord
<1>7. ASSUME NEW t \in Tasks, Resume(t) \/ AdapterFails(t)
      PROVE  closed' = closed /\ loop = Idle /\ at' = at /\ \A u \in Tasks : to[u] = st[u]
  <2>1. closed' = closed /\ loop = Idle /\ at' = at /\ at[t] \in Suspended
    BY <1>3, <1>7, ResumedType DEF Resume, AdapterFails, bus, Suspended
  <2>2. loop' # Idle /\ loop'.task = t /\ loop'.guarded = (at[t] # "queued")
    <3>1. loop'.task = t /\ loop'.guarded = (at[t] # "queued")
      <4>1. CASE AdapterFails(t)
        BY <4>1 DEF AdapterFails, Adapted
      <4>2. CASE Resume(t)
        BY <4>2 DEF Resume, Guarded
      <4> QED BY <1>7, <4>1, <4>2
    <3>2. loop' \in Job
      <4>1. CASE AdapterFails(t)
        <5>1. Failure(at[t]) \in Seq(Legal)
          BY <4>1, PartTypes DEF AdapterFails, Nodes
        <5> QED BY <4>1, <5>1 DEF AdapterFails, Job, Places
      <4>2. CASE Resume(t)
        <5>1. PICK r \in Resumed(t) :
                loop' = [task |-> t, todo |-> r.todo, next |-> r.next, guarded |-> Guarded(t)]
          BY <4>2 DEF Resume
        <5>2. r.todo \in Seq(Legal) /\ r.next \in Places
          BY <1>3, ResumedType
        <5> QED BY <5>1, <5>2 DEF Job, Guarded
      <4> QED BY <1>7, <4>1, <4>2
    <3> QED BY <3>1, <3>2, JobsRun
  <2>3. \A u \in Tasks : Inside(loop', at', u) = Inside(loop, at, u)
    BY <2>1, <2>2 DEF Inside, Suspended, Adapted
  <2> QED BY <1>6, <1>7, <2>1, <2>3, StepKeeps
<1>8. \A t \in Tasks : (Resume(t) \/ AdapterFails(t)) /\ st[t] \in G[at[t]]
         => Leads(M, S, loop'.todo, to[t], G[loop'.next])
  <2> SUFFICES ASSUME NEW t \in Tasks, Resume(t) \/ AdapterFails(t), st[t] \in G[at[t]]
               PROVE  Leads(M, S, loop'.todo, to[t], G[loop'.next])
    OBVIOUS
  <2>1. to[t] = st[t]
    BY <1>7
  <2>2. CASE AdapterFails(t)
    <3>1. loop'.todo = Failure(at[t]) /\ loop'.next = "over" /\ at[t] \in Adapted
      BY <2>2 DEF AdapterFails
    <3>2. to[t] = Going
      BY <1>4, <2>1, <3>1
    <3> QED BY <3>1, <3>2, RunFails DEF Nodes
  <2>3. CASE Resume(t)
    <3>1. PICK r \in Resumed(t) :
            loop' = [task |-> t, todo |-> r.todo, next |-> r.next, guarded |-> Guarded(t)]
      BY <2>3 DEF Resume
    <3>2. Course(at[t], r.todo, r.next) /\ at[t] \in Places
      BY <1>3, ResumedCases
    <3> QED BY <2>1, <3>1, <3>2, RunCourses
  <2> QED BY <2>2, <2>3
<1>9. (Deny \/ Raise) /\ st[loop.task] \in S /\ (\E b \in S : <<Op, st[loop.task], b>> \in M)
         => IF Raise /\ ~loop.guarded THEN to[loop.task] \in G["escaped"]
            ELSE Leads(M, S, loop'.todo, to[loop.task], G["over"])
  <2> SUFFICES ASSUME Deny \/ Raise, st[loop.task] \in S, \E b \in S : <<Op, st[loop.task], b>> \in M
               PROVE IF Raise /\ ~loop.guarded THEN to[loop.task] \in G["escaped"]
                     ELSE Leads(M, S, loop'.todo, to[loop.task], G["over"])
    OBVIOUS
  <2>1. loop \in Job /\ loop # Idle /\ loop.task \in Tasks /\ loop.guarded \in BOOLEAN
    BY <1>3 DEF Deny, Raise, Busy, Job
  <2> PICK t \in Tasks : t = loop.task
    BY <2>1
  <2>2. /\ st[t][4] = "ajar" /\ closed' = closed /\ SameRecord(t)
        /\ Op.op = "egress" => st[t] = Going
    BY StepKeeps DEF RunMoves, Deny, Raise, bus
  <2>3. Inside(loop, at, t) = loop.guarded
    BY <2>1 DEF Inside
  <2>4. CASE Raise /\ ~loop.guarded
    <3>1. ~Inside(loop', at', t)
      BY <1>3, <2>1, <2>4 DEF Raise, Inside, Adapted
    <3>2. to[t] = <<row[t], "out", LastTold(log[t]), "ajar">>
      BY <1>3, <2>2, <3>1 DEF SameRecord
    <3>3. to[t] \in RunStates
      BY <1>3, <3>2 DEF RunStates
    <3> QED BY <1>4, <2>4, <3>2, <3>3
  <2>5. CASE Raise /\ loop.guarded
    <3>1. loop'.todo = Handler /\ loop'.task = t /\ ~loop'.guarded /\ at' = at
      BY <2>1, <2>5 DEF Raise, Job
    <3>2. loop' # Idle
      <4>1. Handler \in Seq(Legal)
        BY PartTypes DEF Nodes, InProcess
      <4>2. loop' \in Job
        BY <2>1, <2>5, <4>1 DEF Raise, Job, Places
      <4> QED BY <4>2, JobsRun
    <3>3. to[t] = <<row[t], "out", LastTold(log[t]), "ajar">>
      BY <1>3, <2>2, <3>1, <3>2 DEF SameRecord, Inside
    <3>4. row[t] \in Tried
      <4>1. st[t] = <<row[t], "in", LastTold(log[t]), "ajar">>
        <5>1. Inside(loop, at, t)
          BY <2>3, <2>5, Zenon
        <5>2. st[t] = <<row[t], "in", LastTold(log[t]), IF t \in closed THEN "shut" ELSE "ajar">>
          BY <1>3, <5>1
        <5>3. (IF t \in closed THEN "shut" ELSE "ajar") = "ajar"
          BY <2>2, <5>2
        <5> QED BY <5>2, <5>3
      <4>2. st[t] \in RunStates
        OBVIOUS
      <4> QED BY <4>1, <4>2 DEF RunStates
    <3>5. to[t] \in RunStates
      BY <1>3, <3>3 DEF RunStates
    <3> QED BY <2>5, <3>1, <3>3, <3>4, <3>5, RunHandles
  <2>6. CASE Deny /\ ~Raise
    <3>1. /\ loop'.todo = Denied(Op.node) /\ loop'.task = t /\ loop'.guarded = loop.guarded
          /\ at' = at /\ Op.node \in Nodes /\ Op.op = "egress"
      BY <2>1, <2>6 DEF Deny, Job, Egress, Adapted, Nodes
    <3>2. loop' # Idle
      <4>1. Denied(Op.node) \in Seq(Legal)
        BY <3>1, PartTypes
      <4>2. loop' \in Job
        BY <2>1, <2>6, <4>1 DEF Deny, Job, Places
      <4> QED BY <4>2, JobsRun
    <3>3. to[t] = st[t]
      BY <1>6, <2>2, <2>3, <3>1, <3>2 DEF Inside
    <3> QED BY <2>2, <2>6, <3>1, <3>3, RunFails
  <2> QED BY <2>4, <2>5, <2>6
<1>10. Suspend /\ st[loop.task] \in G[loop.next] => to[loop.task] \in G[loop.next]
  <2> SUFFICES ASSUME Suspend, st[loop.task] \in G[loop.next] PROVE to[loop.task] \in G[loop.next]
    OBVIOUS
  <2>1. loop # Idle /\ loop.task \in Tasks /\ loop.next \in Places
    BY <1>3 DEF Suspend
  <2> PICK t \in Tasks : t = loop.task
    BY <2>1
  <2>2. SameRecord(t) /\ closed' = closed /\ (Inside(loop', at', t) <=> loop.next \in {"gate"} \cup Adapted)
    BY <1>3, <2>1, StepKeeps DEF Suspend, Inside, bus
  <2>3. to[t] = <<st[t][1], IF loop.next \in {"gate"} \cup Adapted THEN "in" ELSE "out", st[t][3], st[t][4]>>
    BY <1>3, <2>2 DEF SameRecord
  <2>4. st[t] \in S
    BY <1>4, <2>1
  <2>5. loop.next \notin {"gate"} \cup Adapted => to[t] \in RunStates
    <3>1. PICK a, b, c, d : /\ st[t] = <<a, b, c, d>> /\ a \in RowStates /\ d \in {"ajar", "shut"}
                            /\ c \in {"other", "completed", "failed"}
      BY <2>4 DEF RunStates
    <3>2. loop.next \notin {"gate"} \cup Adapted => to[t] = <<a, "out", c, d>>
      BY <2>3, <3>1
    <3>3. <<a, "out", c, d>> \in RunStates
      BY <3>1 DEF RunStates
    <3> QED BY <3>2, <3>3, Zenon
  <2>6. CASE loop.next \in {"gate"} \cup Adapted
    <3>1. G[loop.next] = {Going}
      BY <1>4, <2>6
    <3>2. st[t] = Going
      BY <3>1
    <3>3. to[t] = <<Going[1], "in", Going[3], Going[4]>>
      BY <2>3, <2>6, <3>2
    <3>4. to[t] = Going
      BY <3>3 DEF Going
    <3> QED BY <3>1, <3>4
  <2>7. CASE loop.next \notin {"gate"} \cup Adapted
    <3> PICK p \in Places : p = loop.next
      BY <2>1
    <3>1. to[t] = <<st[t][1], "out", st[t][3], st[t][4]>> /\ to[t] \in RunStates /\ st[t] \in G[p]
      BY <2>3, <2>5, <2>7
    <3>2. p \in {"none", "queued", "over", "escaped", "lost"}
      BY <2>7 DEF Places
    <3>3. CASE p \in {"none", "queued"}
      BY <1>4, <3>1, <3>3
    <3>4. CASE p = "over"
      BY <1>4, <3>1, <3>4
    <3>5. CASE p \in {"escaped", "lost"}
      BY <1>4, <3>1, <3>5
    <3> QED BY <3>2, <3>3, <3>4, <3>5
  <2> QED BY <2>6, <2>7
<1>11. Crash => \A u \in Tasks : /\ to[u] = <<row[u], "out", LastTold(log[u]), "ajar">>
                                 /\ to[u] \in RunStates
  <2> SUFFICES ASSUME Crash, NEW u \in Tasks
               PROVE  to[u] = <<row[u], "out", LastTold(log[u]), "ajar">> /\ to[u] \in RunStates
    OBVIOUS
  <2>1. ~Inside(loop', at', u) /\ closed' = {} /\ SameRecord(u)
    BY <1>3, StepKeeps DEF Crash, Inside, Adapted
  <2>2. to[u] = <<row[u], "out", LastTold(log[u]), "ajar">>
    BY <1>3, <2>1 DEF SameRecord
  <2> QED BY <1>3, <2>2 DEF RunStates
<1>12. /\ Crash /\ loop # Idle /\ st[loop.task] \in S => to[loop.task] \in G["lost"]
       /\ UNCHANGED vars /\ loop # Idle => to[loop.task] = st[loop.task]
  <2>1. ASSUME UNCHANGED vars PROVE to = st
    BY <1>1, <1>2, <2>1 DEF vars, runVars, bus, RunState, Inside, LastTold
  <2> QED BY <1>3, <1>4, <1>11, <2>1
<1>13. Crash => \A t \in Tasks : st[t] \in G[at[t]] => to[t] \in G[at'[t]]
  <2> SUFFICES ASSUME Crash, NEW t \in Tasks, st[t] \in G[at[t]] PROVE to[t] \in G[at'[t]]
    OBVIOUS
  <2>1. at'[t] = IF at[t] \in {"queued", "gate"} \cup Adapted THEN "lost" ELSE at[t]
    BY <1>3 DEF Crash
  <2>2. /\ to[t] = <<row[t], "out", LastTold(log[t]), "ajar">> /\ to[t] \in RunStates
        /\ st[t][1] = row[t] /\ st[t][3] = LastTold(log[t]) /\ at[t] \in Places
    BY <1>3, <1>11
  <2> PICK p \in Places : p = at[t]
    BY <2>2
  <2>3. CASE p \in {"none", "queued"}
    BY <1>4, <2>1, <2>2, <2>3
  <2>4. CASE p = "over"
    <3>1. at[t] = "over" /\ at'[t] = "over"
      BY <2>1, <2>4 DEF Adapted
    <3>2. G["over"] = {a \in RunStates : <<a[1], a[3]>> \in Ends}
      BY <1>4
    <3>3. <<st[t][1], st[t][3]>> \in Ends
      BY <3>1, <3>2
    <3>4. <<to[t][1], to[t][3]>> \in Ends
      BY <2>2, <3>3
    <3> QED BY <2>2, <3>1, <3>2, <3>4
  <2>5. CASE p \in {"escaped", "lost"}
    BY <1>4, <2>1, <2>2, <2>5 DEF Adapted
  <2>6. CASE p \in {"gate"} \cup Adapted
    BY <1>4, <2>1, <2>2, <2>6
  <2> QED BY <2>3, <2>4, <2>5, <2>6 DEF Places
<1>14. \A t \in Tasks : Submit(t) /\ st[t] \in G[at[t]] => to[t] \in G["queued"]
  <2> SUFFICES ASSUME NEW t \in Tasks, Submit(t), st[t] \in G[at[t]] PROVE to[t] \in G["queued"]
    OBVIOUS
  <2>1. /\ at[t] = "none" /\ row'[t] = "created" /\ log' = log /\ closed' = closed
        /\ loop' = Idle /\ at'[t] = "queued"
    BY <1>3 DEF Submit, TInv, bus
  <2>2. ~Inside(loop', at', t)
    BY <2>1 DEF Inside, Adapted
  <2>3. st[t] = <<"none", "out", "other", "ajar">>
    BY <1>4, <2>1
  <2> QED BY <1>3, <1>4, <2>1, <2>2, <2>3
<1>15. \A u \in Tasks : ~Crash /\ ~Submit(u) /\ (loop = Idle \/ u # loop.task) /\ st[u] \in G[at[u]]
          => to[u] \in G[at[u]]
  <2> SUFFICES ASSUME NEW u \in Tasks, ~Crash, ~Submit(u), loop = Idle \/ u # loop.task
               PROVE  to[u] = st[u]
    OBVIOUS
  <2>1. CASE \E t \in Tasks : Resume(t) \/ AdapterFails(t)
    BY <1>7, <2>1
  <2>2. CASE \A t \in Tasks : ~Resume(t) /\ ~AdapterFails(t)
    <3>1. SameRecord(u)
      BY PopLoop, StepKeeps
    <3>2. u \in closed' <=> u \in closed
      <4>1. CASE Popping
        <5>1. closed' = IF Op.op = "close" THEN closed \cup {loop.task} ELSE closed
          BY <4>1, OpEffect
        <5>2. u # loop.task
          BY <4>1, PopLoop
        <5> QED BY <5>1, <5>2
      <4>2. CASE ~Popping
        BY <2>2, <4>2 DEF Popping, Next, RunOp, vars, bus, Deny, Raise, Suspend, Submit,
                          Receive, Disconnect, Connect, Drain, Subscribe, Unsubscribe
      <4> QED BY <4>1, <4>2
    <3>3. Inside(loop', at', u) = Inside(loop, at, u)
      <4>1. at'[u] = at[u] /\ (loop' = Idle \/ loop'.task # u)
        <5>1. CASE Popping
          BY <5>1, PopLoop
        <5>2. CASE Deny
          BY <1>3, <5>2 DEF Deny, Job, Busy
        <5>3. CASE Raise
          BY <1>3, <5>3 DEF Raise, Job, Busy
        <5>4. CASE Suspend
          BY <1>3, <5>4 DEF Suspend
        <5>5. ASSUME NEW t \in Tasks, Submit(t) PROVE at'[u] = at[u] /\ loop' = Idle
          BY <1>3, <5>5 DEF Submit, TInv
        <5>6. CASE UNCHANGED <<loop, at>>
          BY <5>6
        <5>7. \/ Popping \/ Deny \/ Raise \/ Suspend \/ UNCHANGED <<loop, at>>
              \/ \E t \in Tasks : Submit(t)
          BY <2>2 DEF Popping, Next, RunOp, vars, runVars, Receive, Disconnect, Connect
        <5> QED BY <5>1, <5>2, <5>3, <5>4, <5>5, <5>6, <5>7
      <4> QED BY <4>1 DEF Inside
    <3> QED BY <1>3, <3>1, <3>2, <3>3 DEF SameRecord
  <2> QED BY <2>1, <2>2
<1> HIDE DEF M, S, G
<1>16. OnCourse(M, S, G, to, loop', at')
  BY <1>3, <1>5, <1>8, <1>9, <1>10, <1>12, <1>13, <1>14, <1>15, CourseStep
<1> QED BY <1>2, <1>16 DEF M, S, G
\* The run and the node automata start where no task is submitted.
LEMMA CoursesStart == Init => RunInv /\ StageInv
<1> SUFFICES ASSUME Init PROVE RunInv /\ StageInv
  OBVIOUS
<1>1. /\ loop = Idle /\ "none" \in Places /\ closed = {} /\ \A u \in Tasks : log[u] = <<>>
      /\ \A u \in Tasks : row[u] = "none" /\ at[u] = "none" /\ \A n \in Nodes : node[u][n] = "none"
  BY DEF Init, Places, BusInit
<1>2. RunInv
  <2>1. RunPlaces["none"] = {<<"none", "out", "other", "ajar">>}
    BY DEF RunPlaces, Places, Adapted
  <2>2. \A u \in Tasks : RunState[u] = <<"none", "out", "other", "ajar">>
    BY <1>1 DEF RunState, Inside, LastTold, Adapted
  <2> QED BY <1>1, <2>1, <2>2 DEF RunInv, OnCourse
<1>3. StageInv
  <2> SUFFICES ASSUME NEW n \in Nodes
               PROVE  OnCourse(StageMoves(n), Stages, StagePlaces(n), StageState(n), loop, at)
    BY DEF StageInv
  <2>1. StagePlaces(n)["none"] = {Fresh}
    BY <1>1 DEF StagePlaces, SettledAt, Nodes, Adapted, InProcess
  <2>2. \A u \in Tasks : StageState(n)[u] = Fresh
    <3> SUFFICES ASSUME NEW u \in Tasks PROVE StageState(n)[u] = Fresh
      OBVIOUS
    <3>1. Told(log[u], n) = {}
      BY <1>1 DEF Told
    <3>2. Shown(u, n) = "pending"
      BY <3>1, ShownIs DEF ShownIn
    <3> QED BY <1>1, <3>2 DEF StageState, Fresh
  <2> QED BY <1>1, <2>1, <2>2 DEF OnCourse
<1> QED BY <1>2, <1>3

\* A node that the console shows as succeeded is told to have succeeded.
LEMMA ShownIsLogged ==
  ASSUME TInv, NEW t \in Tasks, NEW n \in Nodes, Shown(t, n) = "succeeded"
  PROVE  Logged(t, "node.succeeded", n)
<1> DEFINE told == Told(log[t], n)
           last == CHOOSE i \in told : \A j \in told : j <= i
<1>1. log[t] \in Seq(Kinds \X Subjects)
  BY DEF TInv
<1>2. told \in SUBSET (1..Len(log[t])) /\ Len(log[t]) \in Nat
  BY <1>1 DEF Told
<1>3. told # {} /\ ShownAs[log[t][last][1]] = "succeeded"
  BY ShownIs DEF ShownIn
<1>4. \E i \in told : \A j \in told : j <= i
  BY <1>2, <1>3, LastExists
<1>5. last \in told
  BY <1>4
<1> HIDE DEF last
<1>6. log[t][last][2] = n /\ log[t][last][1] \in DOMAIN ShownAs /\ last \in DOMAIN log[t]
  BY <1>5 DEF Told
<1>7. log[t][last][1] = "node.succeeded"
  BY <1>3, <1>6 DEF ShownAs
<1>8. log[t][last] = <<"node.succeeded", n>>
  BY <1>1, <1>6, <1>7
<1> QED BY <1>6, <1>8 DEF Logged

\* What is right for a run that is over.
LEMMA EndFits == TInv /\ RunInv /\ StageInv /\ ReceiptInv => EndIsToldAlike
<1> SUFFICES ASSUME TInv, RunInv, StageInv, ReceiptInv, NEW t \in Tasks, at[t] = "over"
             PROVE  /\ <<row[t], log[t][Len(log[t])][1]>> \in {<<"succeeded", "task.completed">>,
                                                 <<"cancelled", "task.failed">>,
                                                 <<"failed", "task.failed">>}
                    /\ \A n \in Nodes : Shown(t, n) \in {"succeeded", "failed"} => node[t][n] = Shown(t, n)
                    /\ row[t] = "succeeded" => /\ \A n \in Nodes : /\ node[t][n] = "succeeded"
                                                                  /\ Shown(t, n) = "succeeded"
                                               /\ signed[t] = Adapted
  BY DEF EndIsToldAlike
<1>1. ~(loop # Idle /\ loop.task = t) /\ "over" \in Places
  BY DEF TInv, Suspended, Adapted, Places
<1>2. <<row[t], LastTold(log[t])>> \in Ends
  <2>1. RunState[t] \in RunPlaces["over"]
    BY <1>1 DEF RunInv, OnCourse
  <2>2. RunPlaces["over"] = {a \in RunStates : <<a[1], a[3]>> \in Ends}
    BY <1>1 DEF RunPlaces, Adapted
  <2>3. RunState[t][1] = row[t] /\ RunState[t][3] = LastTold(log[t])
    BY DEF RunState
  <2> QED BY <2>1, <2>2, <2>3
<1>3. <<row[t], log[t][Len(log[t])][1]>> \in {<<"succeeded", "task.completed">>,
                                              <<"cancelled", "task.failed">>, <<"failed", "task.failed">>}
  BY <1>2 DEF Ends, LastTold, ToldBy
<1>4. ASSUME NEW n \in Nodes
      PROVE  <<node[t][n], Shown(t, n), IF row[t] = "succeeded" THEN "won" ELSE "open">> \in Stages
  <2>1. StageState(n)[t] \in StagePlaces(n)["over"]
    BY <1>1 DEF StageInv, OnCourse
  <2>2. StagePlaces(n)["over"] = Stages
    BY <1>1 DEF StagePlaces
  <2>3. StageState(n)[t] = <<node[t][n], Shown(t, n), IF row[t] = "succeeded" THEN "won" ELSE "open">>
    BY DEF StageState
  <2> QED BY <2>1, <2>2, <2>3
<1>5. ASSUME NEW n \in Nodes
      PROVE  /\ Shown(t, n) \in {"succeeded", "failed"} => node[t][n] = Shown(t, n)
             /\ row[t] = "succeeded" => node[t][n] = "succeeded" /\ Shown(t, n) = "succeeded"
  BY <1>4 DEF Stages, Fresh, Entered, Running, Answered, Settled, Refused, Broken, Crowned
<1>6. ASSUME row[t] = "succeeded" PROVE signed[t] = Adapted
  <2>1. \A n \in Adapted : n \in Nodes /\ Logged(t, "node.succeeded", n)
    BY <1>5, <1>6, ShownIsLogged DEF Nodes
  <2>2. \A n \in Adapted : n \in signed[t]
    BY <2>1 DEF ReceiptInv, ReceiptsAreStored
  <2> QED BY <2>2 DEF TInv
<1> QED BY <1>3, <1>5, <1>6

LEMMA RecordStep == TInv /\ RunInv /\ StageInv /\ ReceiptInv /\ [Next]_vars
                      => (TInv /\ RunInv /\ StageInv /\ ReceiptInv)'
BY TypeStep, RunStep, StageStep, ReceiptStep

\* However runs, failures and restarts interleave, a run that has returned is told alike by its
\* row, by the last event of its timeline and by the console; if it succeeded, every node did
\* and every adapter call has its stored receipt.
THEOREM EndHolds == Spec => []EndIsToldAlike
<1>1. Init => TInv /\ RunInv /\ StageInv /\ ReceiptInv
  <2> SUFFICES ASSUME Init PROVE ReceiptInv
    BY TInit, CoursesStart
  <2>1. loop = Idle /\ log = [t \in Tasks |-> <<>>] /\ at = [t \in Tasks |-> "none"] /\ "none" \in Places
    BY DEF Init, Places
  <2> QED BY <2>1 DEF ReceiptInv, ReceiptsAreStored, Logged, OnCourse, ReceiptState, Flags
<1>2. TInv /\ RunInv /\ StageInv /\ ReceiptInv /\ [Next]_vars
        => (TInv /\ RunInv /\ StageInv /\ ReceiptInv)'
  BY RecordStep
<1> QED BY <1>1, <1>2, EndFits, PTL DEF Spec
\* One step moves rows along the tables.
LEMMA TableStep ==
  ASSUME TInv, RunInv, StageInv, [Next]_vars, NEW t \in Tasks
  PROVE  /\ row'[t] # row[t] => /\ <<row[t], row'[t]>> \in TaskTransitions \cup LateFailures
                                /\ at[t] \notin {"over", "escaped", "lost"}
         /\ \A n \in Nodes : node'[t][n] # node[t][n]
                              => <<node[t][n], node'[t][n]>> \in NodeTransitions
<1>1. CASE Popping
  <2>1. loop \in Job /\ loop.todo # <<>> /\ Op \in Legal /\ Op.op # "raise"
    BY <1>1, PopLoop
  <2>2. /\ row'[t] = IF Op.op = "row" /\ t = loop.task THEN Op.to ELSE row[t]
        /\ \A n \in Nodes : node'[t][n] = IF Op.op = "node" /\ t = loop.task /\ n = Op.node
                                          THEN Op.to ELSE node[t][n]
    BY <1>1, OpEffect
  <2>3. t = loop.task => at[t] \in Suspended
    BY <1>1, PopLoop DEF TInv
  <2>4. ASSUME t = loop.task, Op.op = "row", Op.to # row[t]
        PROVE  <<row[t], Op.to>> \in TaskTransitions \cup LateFailures
    <3>1. \E b \in RunStates : <<Op, RunState[t], b>> \in RunMoves
      <4>1. OnCourse(RunMoves, RunStates, RunPlaces, RunState, loop, at)
        BY DEF RunInv
      <4>2. \E b \in RunStates : <<Head(loop.todo), RunState[loop.task], b>> \in RunMoves
        BY <2>1, <4>1, CourseMove
      <4> QED BY <2>4, <4>2 DEF Op
    <3>2. \/ Op.to = RunState[t][1]
          \/ <<RunState[t][1], Op.to>> \in TaskTransitions \cup LateFailures
      BY <2>4, <3>1 DEF RunMoves
    <3>3. RunState[t][1] = row[t]
      BY DEF RunState
    <3> QED BY <2>4, <3>2, <3>3
  <2>5. ASSUME NEW n \in Nodes, t = loop.task, Op.op = "node", Op.node = n
        PROVE  <<node[t][n], Op.to>> \in NodeTransitions
    <3>1. \E b \in Stages : <<Op, StageState(n)[t], b>> \in StageMoves(n)
      <4>1. OnCourse(StageMoves(n), Stages, StagePlaces(n), StageState(n), loop, at)
        BY DEF StageInv
      <4>2. \E b \in Stages : <<Head(loop.todo), StageState(n)[loop.task], b>> \in StageMoves(n)
        BY <2>1, <4>1, CourseMove
      <4> QED BY <2>5, <4>2 DEF Op
    <3>2. <<StageState(n)[t][1], Op.to>> \in NodeTransitions
      BY <2>5, <3>1 DEF StageMoves, OfRow
    <3>3. StageState(n)[t][1] = node[t][n]
      BY DEF StageState
    <3> QED BY <3>2, <3>3
  <2> QED BY <2>2, <2>3, <2>4, <2>5 DEF Suspended, Adapted
<1>2. CASE ~Popping /\ Submit(t)
  <2>1. node' = node /\ at[t] = "none" /\ row'[t] = "created"
    BY <1>2 DEF Submit, TInv
  <2>2. loop = Idle /\ "none" \in Places
    BY <1>2 DEF Submit, Places
  <2>3. RunState[t] \in RunPlaces["none"]
    BY <2>1, <2>2 DEF RunInv, OnCourse
  <2>4. RunPlaces["none"] = {<<"none", "out", "other", "ajar">>}
    BY DEF RunPlaces, Places, Adapted
  <2>5. RunState[t][1] = row[t]
    BY DEF RunState
  <2>6. row[t] = "none"
    BY <2>3, <2>4, <2>5
  <2> QED BY <2>1, <2>6 DEF TaskTransitions
<1>3. CASE ~Popping /\ ~Submit(t)
  <2>1. node' = node
    BY <1>3, QuietStep
  <2>2. row'[t] = row[t]
    BY <1>3, StepKeeps DEF SameRecord
  <2> QED BY <2>1, <2>2
<1> QED BY <1>1, <1>2, <1>3

\* The engine writes the states of tasks and nodes without asking the transition tables; still
\* no step moves one against them, but for a failure after a recorded end, and none moves a
\* task whose coroutine has ended.
THEOREM TablesHold == Spec => StatesFollowTables
<1>1. Init => TInv /\ RunInv /\ StageInv
  BY TInit, CoursesStart
<1>2. TInv /\ RunInv /\ StageInv /\ [Next]_vars => (TInv /\ RunInv /\ StageInv)'
  BY TypeStep, RunStep, StageStep
<1>3. TInv /\ RunInv /\ StageInv /\ [Next]_vars
        => [\A t \in Tasks :
              /\ row'[t] # row[t] => /\ <<row[t], row'[t]>> \in TaskTransitions \cup LateFailures
                                     /\ at[t] \notin {"over", "escaped", "lost"}
              /\ \A n \in Nodes : node'[t][n] # node[t][n]
                                   => <<node[t][n], node'[t][n]>> \in NodeTransitions]_vars
  BY TableStep
<1> QED BY <1>1, <1>2, <1>3, PTL DEF Spec, StatesFollowTables
-----------------------------------------------------------------------------
(* The length of a timeline. *)

\* The ops before the next suspension bound what a coroutine can still log.
Most == [p \in Places |-> CASE p \in {"none", "queued"} -> 0
                            [] p = "extract_facts_local" -> 19
                            [] p = "public_research" -> 31
                            [] p = "gate" -> 44
                            [] p = "write_sink" -> 50
                            [] OTHER -> 65]

\* Ops that neither enter the try block nor may be denied.
Final == {o \in Legal : o.op \notin {"try", "egress"}}

\* A coroutine that has logged n events has room for its ops, and inside the try block for
\* those of the handler too.
Room(l, n) ==
    /\ l.next \notin {"escaped", "lost"}
    /\ IF l.next = "over" THEN l.todo \in Seq(Final) /\ n + Len(l.todo) <= (IF l.guarded THEN 62 ELSE 65)
       ELSE n + Len(l.todo) <= Most[l.next]

LengthInv == \A t \in Tasks : IF loop # Idle /\ loop.task = t THEN Room(loop, Len(log[t]))
                              ELSE Len(log[t]) <= Most[at[t]]

LEMMA MostIs == /\ Most["none"] = 0 /\ Most["queued"] = 0 /\ Most["extract_facts_local"] = 19
                /\ Most["public_research"] = 31 /\ Most["gate"] = 44 /\ Most["write_sink"] = 50
                /\ Most["over"] = 65 /\ Most["escaped"] = 65 /\ Most["lost"] = 65
  BY DEF Most, Places, Adapted

LEMMA MostBound ==
  ASSUME NEW p \in Places
  PROVE  Most[p] \in Nat /\ Most[p] <= 65 /\ (p \notin {"over", "escaped", "lost"} => Most[p] <= 50)
  BY MostIs DEF Places, Adapted

\* One list of ops after another.
LEMMA Joined ==
  ASSUME NEW s \in Seq(Legal), NEW r \in Seq(Legal)
  PROVE  s \o r \in Seq(Legal) /\ Len(s \o r) = Len(s) + Len(r)
  BY ConcatProperties

LEMMA PartLengths ==
  /\ \A n \in Nodes : /\ Len(Request(n)) = 5 /\ Len(Failure(n)) = 3 /\ Len(Denied(n)) = 4
                      /\ Len(Inline(n, "lift")) = 5 /\ Len(Inline(n, "merge")) = 5
  /\ \A n \in Adapted : Len(Answer(n)) = 7
  /\ Len(Opening) = 9 /\ Len(Handler) = 3 /\ Len(Closing) = 5 /\ Len(Rejection) = 4
  /\ Len(Awaiting) = 1 /\ Len(Approval) = 1
<1>1. \A n \in Nodes : Enter(n) \in Seq(Legal) /\ Len(Enter(n)) = 2 /\ Failure(n) \in Seq(Legal) /\ Len(Failure(n)) = 3
  BY PartTypes DEF Enter, Failure
<1>3. ASSUME NEW n \in Nodes PROVE Len(Request(n)) = 5 /\ Len(Denied(n)) = 4
  <2>1. n \in Subjects
    BY DEF Subjects
  <2>2. Grant(n) \in Seq(Legal) /\ Len(Grant(n)) = 2 /\ <<Save("egress", n)>> \in Seq(Legal)
    BY <2>1, OpTypes DEF Grant, Passing, Kinds
  <2>3. <<Event("policy.decision", n)>> \in Seq(Legal)
    BY <2>1, OpTypes DEF Kinds
  <2>4. Len(Request(n)) = 5
    <3> DEFINE s == Enter(n) \o Grant(n)
    <3>1. s \in Seq(Legal) /\ Len(s) = Len(Enter(n)) + Len(Grant(n))
      BY <1>1, <2>2, Joined, Zenon
    <3>2. Len(<<Save("egress", n)>>) = 1
      OBVIOUS
    <3> HIDE DEF s
    <3>3. Len(s \o <<Save("egress", n)>>) = Len(s) + Len(<<Save("egress", n)>>)
      BY <2>2, <3>1, Joined, Zenon
    <3>4. Request(n) = s \o <<Save("egress", n)>>
      BY DEF Request, s
    <3>5. Len(s) = 2 + 2
      BY <1>1, <2>2, <3>1, Zenon
    <3>6. Len(Request(n)) = (2 + 2) + 1
      BY <3>2, <3>3, <3>4, <3>5, Zenon
    <3> QED BY <3>6
  <2>5. Len(Denied(n)) = 4
    <3>1. Len(<<Event("policy.decision", n)>>) = 1
      OBVIOUS
    <3>2. Len(Denied(n)) = Len(<<Event("policy.decision", n)>>) + Len(Failure(n))
      BY <1>1, <2>3, Joined, Zenon DEF Denied
    <3>3. Len(Denied(n)) = 1 + 3
      BY <1>1, <3>1, <3>2, Zenon
    <3> QED BY <3>3
  <2> QED BY <2>4, <2>5
<1>4. ASSUME NEW n \in Nodes, NEW c \in {"lift", "merge"} PROVE Len(Inline(n, c)) = 5
  <2>1. n \in Subjects
    BY DEF Subjects
  <2>2. <<Do(c), NodeRow(n, "succeeded"), Event("node.succeeded", n)>> \in Seq(Legal)
    BY <2>1, OpTypes DEF Passing, NodeStates, Kinds
  <2>3. Len(<<Do(c), NodeRow(n, "succeeded"), Event("node.succeeded", n)>>) = 3
    OBVIOUS
  <2>4. Len(Inline(n, c)) = Len(Enter(n)) + Len(<<Do(c), NodeRow(n, "succeeded"), Event("node.succeeded", n)>>)
    BY <1>1, <2>2, Joined, Zenon DEF Inline
  <2>5. Len(Inline(n, c)) = 2 + 3
    BY <1>1, <2>3, <2>4, Zenon
  <2> QED BY <2>5
<1>5. \A n \in Adapted : Len(Answer(n)) = 7
  BY DEF Answer
<1>6. Len(Opening) = 9 /\ Len(Handler) = 3 /\ Len(Closing) = 5 /\ Len(Rejection) = 4
  BY DEF Opening, Handler, Closing, Rejection
<1>7. Len(Awaiting) = 1 /\ Len(Approval) = 1
  BY DEF Awaiting, Approval
<1> QED BY <1>1, <1>3, <1>4, <1>5, <1>6, <1>7

\* The ends of a run neither enter the try block nor may be denied.
LEMMA EndsAreFinal ==
  /\ \A n \in Nodes : Failure(n) \in Seq(Final) /\ Denied(n) \in Seq(Final)
  /\ \A n \in Adapted : Answer(n) \o Closing \in Seq(Final)
  /\ Handler \in Seq(Final) /\ Rejection \in Seq(Final)
<1> DEFINE T == Final
<1> "human_approval" \in Subjects /\ "-" \in Subjects /\ Nodes \subseteq Subjects /\ Adapted \subseteq Nodes
  BY DEF Subjects, Nodes
<1>1. /\ \A m \in Subjects, k \in Kinds : Event(k, m) \in T
      /\ \A k \in {"untry", "verify", "close", "raise"} : Do(k) \in T
      /\ \A m \in Nodes, s \in NodeStates : NodeRow(m, s) \in T
      /\ \A m \in Adapted : Receipt(m) \in T
      /\ \A s \in RowStates : Row(s) \in T
  <2>1. \A m \in Subjects, k \in Kinds : Event(k, m) \in T
    BY OpTypes DEF Final, Event
  <2>2. \A k \in {"untry", "verify", "close", "raise"} : Do(k) \in T
    BY OpTypes DEF Final, Do, Save, Passing
  <2>3. \A m \in Nodes, s \in NodeStates : NodeRow(m, s) \in T
    BY OpTypes DEF Final, NodeRow
  <2>4. \A m \in Adapted : Receipt(m) \in T
    BY OpTypes DEF Final, Receipt, Save
  <2>5. \A s \in RowStates : Row(s) \in T
    BY OpTypes DEF Final, Row
  <2> QED BY <2>1, <2>2, <2>3, <2>4, <2>5
<1> HIDE DEF T
<1>2. \A n \in Nodes : Failure(n) \in Seq(T) /\ Denied(n) \in Seq(T)
  BY <1>1 DEF Failure, Denied, NodeStates, Kinds
<1>3. \A n \in Adapted : Answer(n) \in Seq(T)
  BY <1>1 DEF Answer, NodeStates, Kinds
<1>4. Handler \in Seq(T) /\ Rejection \in Seq(T) /\ Closing \in Seq(T)
  BY <1>1 DEF Handler, Rejection, Closing, RowStates, Kinds
<1>5. \A n \in Adapted : Answer(n) \o Closing \in Seq(T)
  BY <1>3, <1>4, ConcatProperties
<1> QED BY <1>2, <1>4, <1>5 DEF T

\* A coroutine that goes on has room.
LEMMA CourseRoom ==
  ASSUME NEW p \in Places, NEW todo, NEW next, Course(p, todo, next), NEW n \in Nat, n <= Most[p]
  PROVE  /\ next \notin {"escaped", "lost"}
         /\ IF next = "over" THEN todo \in Seq(Final) /\ n + Len(todo) <= 62
            ELSE n + Len(todo) <= Most[next]
<1> USE MostIs
<1>1. /\ "extract_facts_local" \in Adapted /\ "public_research" \in Adapted
      /\ "write_sink" \in Adapted /\ {"ingest_contract", "merge"} \subseteq Nodes /\ Adapted \subseteq Nodes
  BY DEF Adapted, Nodes, InProcess
<1>2. /\ \A m \in Nodes : Request(m) \in Seq(Legal) /\ Inline(m, "lift") \in Seq(Legal) /\ Inline(m, "merge") \in Seq(Legal)
      /\ \A m \in Adapted : Answer(m) \in Seq(Legal)
      /\ Opening \in Seq(Legal) /\ Awaiting \in Seq(Legal) /\ Approval \in Seq(Legal) /\ Closing \in Seq(Legal)
  <2>1. Awaiting \in Seq(Legal) /\ Approval \in Seq(Legal)
    BY OpTypes DEF Awaiting, Approval, Subjects, Kinds
  <2>2. \A m \in Nodes : Inline(m, "lift") \in Seq(Legal) /\ Inline(m, "merge") \in Seq(Legal)
    <3> SUFFICES ASSUME NEW m \in Nodes, NEW c \in {"lift", "merge"} PROVE Inline(m, c) \in Seq(Legal)
      OBVIOUS
    <3>1. Enter(m) \in Seq(Legal) /\ m \in Subjects
      BY PartTypes DEF Subjects
    <3> QED BY <3>1, OpTypes DEF Inline, NodeStates, Kinds, Passing
  <2> QED BY <2>1, <2>2, PartTypes
<1>3. /\ \A m \in Nodes : Len(Request(m)) = 5 /\ Len(Inline(m, "lift")) = 5 /\ Len(Inline(m, "merge")) = 5
      /\ \A m \in Adapted : Len(Answer(m)) = 7
      /\ Len(Opening) = 9 /\ Len(Awaiting) = 1 /\ Len(Approval) = 1 /\ Len(Closing) = 5
      /\ "ingest_contract" \in Nodes /\ "merge" \in Nodes /\ "extract_facts_local" \in Nodes
      /\ "public_research" \in Nodes /\ "write_sink" \in Nodes
  BY <1>1, PartLengths
<1>4. CASE p = "queued" /\ next = "extract_facts_local"
  <2>1. todo = (Opening \o Inline("ingest_contract", "lift")) \o Request("extract_facts_local")
    BY <1>4 DEF Course
  <2> DEFINE s == Opening \o Inline("ingest_contract", "lift")
  <2>2. s \in Seq(Legal) /\ Len(s) = Len(Opening) + Len(Inline("ingest_contract", "lift"))
    BY <1>2, <1>3, Joined, Zenon
  <2> HIDE DEF s
  <2>3. Len(s \o Request("extract_facts_local")) = Len(s) + Len(Request("extract_facts_local"))
    BY <1>2, <1>3, <2>2, Joined, Zenon
  <2>4. todo = s \o Request("extract_facts_local")
    BY <2>1 DEF s
  <2>5. Len(todo) = (9 + 5) + 5
    BY <1>3, <2>2, <2>3, <2>4, Zenon
  <2> QED BY <1>4, <2>5
<1>5. CASE p = "extract_facts_local"
  <2>1. todo = Answer("extract_facts_local") \o Request("public_research") /\ next = "public_research"
    BY <1>5 DEF Course
  <2>2. Len(todo) = Len(Answer("extract_facts_local")) + Len(Request("public_research"))
    BY <1>1, <1>2, <1>3, <2>1, Joined, Zenon
  <2>3. Len(todo) = 7 + 5
    BY <1>1, <1>3, <2>2, Zenon
  <2> QED BY <1>5, <2>1, <2>3
<1>6. CASE p = "public_research"
  <2>1. todo = (Answer("public_research") \o Inline("merge", "merge")) \o Awaiting /\ next = "gate"
    BY <1>6 DEF Course
  <2> DEFINE s == Answer("public_research") \o Inline("merge", "merge")
  <2>2. s \in Seq(Legal) /\ Len(s) = Len(Answer("public_research")) + Len(Inline("merge", "merge"))
    BY <1>1, <1>2, <1>3, Joined, Zenon
  <2> HIDE DEF s
  <2>3. Len(s \o Awaiting) = Len(s) + Len(Awaiting)
    BY <1>2, <2>2, Joined, Zenon
  <2>4. todo = s \o Awaiting
    BY <2>1 DEF s
  <2>5. Len(todo) = (7 + 5) + 1
    BY <1>1, <1>3, <2>2, <2>3, <2>4, Zenon
  <2> QED BY <1>6, <2>1, <2>5
<1>7. CASE p = "gate" /\ next = "write_sink"
  <2>1. todo = Approval \o Request("write_sink")
    BY <1>7 DEF Course
  <2>2. Len(todo) = Len(Approval) + Len(Request("write_sink"))
    BY <1>2, <1>3, <2>1, Joined, Zenon
  <2>3. Len(todo) = 1 + 5
    BY <1>3, <2>2, Zenon
  <2> QED BY <1>7, <2>3
<1>8. CASE p = "gate" /\ next = "over"
  <2>1. todo = Rejection
    BY <1>8 DEF Course
  <2> QED BY <1>8, <2>1, PartLengths, EndsAreFinal
<1>9. CASE p = "write_sink"
  <2>1. todo = Answer("write_sink") \o Closing /\ next = "over"
    BY <1>9 DEF Course
  <2>2. Len(todo) = Len(Answer("write_sink")) + Len(Closing)
    BY <1>1, <1>2, <2>1, Joined, Zenon
  <2>3. todo \in Seq(Final)
    BY <1>1, <2>1, EndsAreFinal
  <2>4. Len(todo) = 7 + 5
    BY <1>1, <1>3, <2>2, Zenon
  <2> QED BY <1>9, <2>1, <2>3, <2>4
<1> QED BY <1>4, <1>5, <1>6, <1>7, <1>8, <1>9 DEF Course
LEMMA RoomBound ==
  ASSUME NEW l \in Job, NEW n \in Nat, Room(l, n)
  PROVE  /\ n <= 65
         /\ l.guarded => n <= 62
         /\ l.next # "over" => n <= 50
         /\ n <= Most[l.next]
<1> PICK k \in Nat : k = Len(l.todo)
  BY DEF Job
<1>1. l.next \in Places \ {"escaped", "lost"}
  BY DEF Job, Room
<1>2. CASE l.next = "over"
  <2>1. n + k <= (IF l.guarded THEN 62 ELSE 65)
    BY <1>2 DEF Room
  <2> QED BY <1>2, <2>1, MostIs
<1>3. CASE l.next # "over"
  <2>1. n + k <= Most[l.next]
    BY <1>3 DEF Room
  <2> QED BY <1>1, <1>3, <2>1, MostBound
<1> QED BY <1>2, <1>3

\* The task that does not run and is not touched stays as it is.
LEMMA LengthKept ==
  ASSUME LengthInv, NEW u \in Tasks, log'[u] = log[u], at'[u] = at[u],
         loop = Idle \/ loop.task # u, loop' = Idle \/ loop'.task # u
  PROVE  IF loop' # Idle /\ loop'.task = u THEN Room(loop', Len(log'[u])) ELSE Len(log'[u]) <= Most[at'[u]]
  BY DEF LengthInv

\* An op is gone and at most one event has come.
LEMMA Traded ==
  ASSUME NEW n \in Nat, NEW n1 \in Nat, NEW k \in Nat, NEW k1 \in Nat, NEW m \in Nat,
         n1 <= n + 1, k1 = k - 1, n + k <= m
  PROVE  n1 + k1 <= m
  OBVIOUS

LEMMA LengthStep == TInv /\ LengthInv /\ [Next]_vars => LengthInv'
<1> SUFFICES ASSUME TInv, LengthInv, [Next]_vars, NEW u \in Tasks
             PROVE  IF loop' # Idle /\ loop'.task = u THEN Room(loop', Len(log'[u]))
                    ELSE Len(log'[u]) <= Most[at'[u]]
  BY DEF LengthInv, Room
<1> DEFINE Goal == IF loop' # Idle /\ loop'.task = u THEN Room(loop', Len(log'[u]))
                   ELSE Len(log'[u]) <= Most[at'[u]]
<1>1. /\ at \in [Tasks -> Places] /\ log \in [Tasks -> Seq(Kinds \X Subjects)] /\ Len(log[u]) \in Nat
      /\ loop # Idle => loop \in Job /\ loop.task \in Tasks /\ Len(loop.todo) \in Nat /\ at[loop.task] \in Suspended
      /\ at[u] \in Places
  BY DEF TInv, Job
<1>2. loop # Idle /\ loop.task = u => Room(loop, Len(log[u]))
  BY DEF LengthInv
<1>3. ~(loop # Idle /\ loop.task = u) => Len(log[u]) <= Most[at[u]]
  BY DEF LengthInv
<1>4. CASE UNCHANGED vars
  <2>1. loop' = loop /\ at' = at /\ log' = log
    BY <1>4 DEF vars, runVars
  <2> QED BY <2>1 DEF LengthInv
<1>5. CASE Popping
  <2>1. /\ loop \in Job /\ loop # Idle /\ loop' # Idle /\ loop'.task = loop.task /\ loop'.next = loop.next
        /\ loop.todo \in Seq(Legal) /\ loop.todo # <<>> /\ loop'.todo = Tail(loop.todo) /\ at' = at
        /\ Op.op # "try" => (loop'.guarded => loop.guarded)
    BY <1>5, PopLoop
  <2>2. log'[u] = IF Op.op = "event" /\ u = loop.task THEN Append(log[u], <<Op.to, Op.node>>) ELSE log[u]
    BY <1>5, OpEffect
  <2>3. CASE u # loop.task
    BY <2>1, <2>2, <2>3, LengthKept
  <2>4. CASE u = loop.task
    <3>1. Len(log'[u]) <= Len(log[u]) + 1 /\ Len(log'[u]) \in Nat
      <4>1. CASE Op.op = "event"
        <5>1. <<Op.to, Op.node>> \in Kinds \X Subjects
          BY <1>5, <4>1, PopLoop DEF Legal, Ops
        <5> QED BY <1>1, <2>2, <2>4, <4>1, <5>1
      <4> QED BY <1>1, <2>2, <4>1
    <3>2. Len(loop'.todo) = Len(loop.todo) - 1 /\ Len(loop'.todo) \in Nat /\ loop'.todo \in Seq(Legal)
      BY <2>1
    <3>3. Room(loop, Len(log[u]))
      BY <1>2, <2>1, <2>4
    <3>6. Len(log[u]) \in Nat /\ Len(loop.todo) \in Nat
      BY <1>1, <2>1
    <3>4. CASE loop.next # "over"
      <4>1. loop.next \in Places /\ Most[loop.next] \in Nat
        BY <2>1, MostBound DEF Job
      <4>2. Len(log[u]) + Len(loop.todo) <= Most[loop.next] /\ loop.next \notin {"escaped", "lost"}
        BY <3>3, <3>4 DEF Room
      <4>3. Len(log'[u]) + Len(loop'.todo) <= Most[loop.next]
        BY <3>1, <3>2, <3>6, <4>1, <4>2, Traded, Zenon
      <4> QED BY <2>1, <2>4, <3>4, <4>2, <4>3 DEF Room
    <3>5. CASE loop.next = "over"
      <4>1. loop.todo \in Seq(Final) /\ Len(log[u]) + Len(loop.todo) <= (IF loop.guarded THEN 62 ELSE 65)
        BY <3>3, <3>5 DEF Room
      <4>2. Tail(loop.todo) \in Seq(Final) /\ Head(loop.todo) \in Final
        BY <2>1, <4>1
      <4>3. loop'.guarded => loop.guarded
        BY <2>1, <4>2 DEF Op, Final
      <4>4. Len(log'[u]) + Len(loop'.todo) <= (IF loop'.guarded THEN 62 ELSE 65)
        <5>1. PICK m \in Nat : m = (IF loop'.guarded THEN 62 ELSE 65)
          OBVIOUS
        <5>2. (IF loop.guarded THEN 62 ELSE 65) <= m
          BY <4>3, <5>1
        <5>3. Len(log[u]) + Len(loop.todo) <= m
          <6>1. PICK a \in Nat, b \in Nat : a = Len(log[u]) /\ b = Len(loop.todo)
            BY <3>6
          <6>2. a + b <= (IF loop.guarded THEN 62 ELSE 65)
            BY <4>1, <6>1
          <6>3. a + b <= m
            BY <5>2, <6>2
          <6> QED BY <6>1, <6>3
        <5>4. Len(log'[u]) + Len(loop'.todo) <= m
          BY <3>1, <3>2, <3>6, <5>3, Traded, Zenon
        <5> QED BY <5>1, <5>4
      <4> QED BY <2>1, <2>4, <3>5, <4>2, <4>4 DEF Room
    <3> QED BY <3>4, <3>5
  <2> QED BY <2>3, <2>4
<1>6. CASE Deny
  <2>1. /\ loop \in Job /\ loop # Idle /\ loop.todo # <<>> /\ Op.op = "egress" /\ Op.node \in Nodes
        /\ at' = at /\ log' = log /\ loop.todo \in Seq(Legal)
    BY <1>1, <1>6 DEF Deny, Busy, Egress, Nodes, Adapted, Job
  <2>2. loop'.todo = Denied(Op.node) /\ loop'.next = "over" /\ loop'.task = loop.task /\ loop'.guarded = loop.guarded
    BY <1>6, <2>1 DEF Deny, Job
  <2>3. CASE u # loop.task
    BY <2>1, <2>2, <2>3, LengthKept
  <2>4. CASE u = loop.task
    <3>1. Room(loop, Len(log[u])) /\ loop.next \in Places
      BY <1>2, <2>1, <2>4 DEF Job
    <3>2. loop.next # "over"
      <4> SUFFICES ASSUME loop.next = "over" PROVE FALSE
        OBVIOUS
      <4>1. loop.todo \in Seq(Final)
        BY <3>1 DEF Room
      <4>2. Head(loop.todo) \in Final
        BY <2>1, <4>1
      <4> QED BY <2>1, <4>2 DEF Op, Final
    <3>3. Len(log[u]) <= 50
      BY <1>1, <2>1, <3>1, <3>2, RoomBound
    <3>4. loop'.todo \in Seq(Final) /\ Len(loop'.todo) = 4
      BY <2>1, <2>2, EndsAreFinal, PartLengths
    <3>5. loop' # Idle
      <4>1. loop' \in Job
        BY <1>6, <2>1, PartTypes DEF Deny, Job, Places
      <4> QED BY <4>1, JobsRun
    <3> QED BY <1>1, <2>1, <2>2, <2>4, <3>3, <3>4, <3>5 DEF Room
  <2> QED BY <2>3, <2>4
<1>7. CASE Raise
  <2>1. loop \in Job /\ loop # Idle /\ loop.task \in Tasks /\ log' = log
    BY <1>1, <1>7 DEF Raise, Busy
  <2>2. CASE loop.guarded
    <3>1. loop'.todo = Handler /\ loop'.next = "over" /\ loop'.task = loop.task /\ ~loop'.guarded /\ at' = at
      BY <1>7, <2>1, <2>2 DEF Raise, Job
    <3>2. loop'.todo \in Seq(Final) /\ Len(loop'.todo) = 3
      BY <3>1, EndsAreFinal, PartLengths
    <3>3. CASE u # loop.task
      BY <2>1, <3>1, <3>3, LengthKept
    <3>4. CASE u = loop.task
      <4>1. Room(loop, Len(log[u])) /\ loop.next \in Places
        BY <1>2, <2>1, <3>4 DEF Job
      <4>2. Len(log[u]) <= 62
        BY <1>1, <2>1, <2>2, <4>1, RoomBound
      <4>3. loop' # Idle
        <5>1. Handler \in Seq(Legal)
          BY PartTypes DEF Nodes, InProcess
        <5>2. loop' \in Job
          BY <1>7, <2>1, <2>2, <5>1 DEF Raise, Job, Places
        <5> QED BY <5>2, JobsRun
      <4> QED BY <1>1, <2>1, <3>1, <3>2, <3>4, <4>2, <4>3 DEF Room
    <3> QED BY <3>3, <3>4
  <2>3. CASE ~loop.guarded
    <3>1. loop' = Idle /\ at'[u] = IF u = loop.task THEN "escaped" ELSE at[u]
      BY <1>1, <1>7, <2>1, <2>3 DEF Raise
    <3>2. CASE u # loop.task
      BY <2>1, <3>1, <3>2, LengthKept
    <3>3. CASE u = loop.task
      <4>1. Room(loop, Len(log[u])) /\ loop.next \in Places
        BY <1>2, <2>1, <3>3 DEF Job
      <4>2. Len(log[u]) <= 65
        BY <1>1, <2>1, <2>3, <4>1, RoomBound
      <4> QED BY <2>1, <3>1, <3>3, <4>2, MostIs
    <3> QED BY <3>2, <3>3
  <2> QED BY <2>2, <2>3
<1>8. CASE Suspend
  <2>1. loop \in Job /\ loop # Idle /\ loop.todo = <<>> /\ log' = log /\ loop' = Idle
        /\ at'[u] = IF u = loop.task THEN loop.next ELSE at[u]
    BY <1>1, <1>8 DEF Suspend
  <2>2. CASE u # loop.task
    BY <2>1, <2>2, LengthKept
  <2>3. CASE u = loop.task
    <3>1. Room(loop, Len(log[u])) /\ loop.next \in Places /\ Len(loop.todo) = 0
      BY <1>2, <2>1, <2>3 DEF Job
    <3>2. Len(log[u]) <= Most[loop.next]
      BY <1>1, <2>1, <3>1, RoomBound
    <3> QED BY <2>1, <2>3, <3>2
  <2> QED BY <2>2, <2>3
<1>9. CASE Crash
  <2>1. log' = log /\ loop' = Idle
        /\ at'[u] = IF at[u] \in {"queued", "gate"} \cup Adapted THEN "lost" ELSE at[u]
    BY <1>9 DEF Crash
  <2>2. Len(log[u]) <= 65
    <3>1. CASE loop # Idle /\ loop.task = u
      <4>1. Room(loop, Len(log[u])) /\ loop.next \in Places
        BY <1>1, <1>2, <3>1 DEF Job
      <4> QED BY <1>1, <3>1, <4>1, RoomBound
    <3>2. CASE ~(loop # Idle /\ loop.task = u)
      BY <1>1, <1>3, <3>2, MostBound
    <3> QED BY <3>1, <3>2
  <2>3. CASE loop # Idle /\ loop.task = u
    BY <1>1, <2>1, <2>2, <2>3, MostIs DEF Suspended
  <2>4. CASE ~(loop # Idle /\ loop.task = u)
    BY <1>3, <2>1, <2>2, <2>4, MostIs
  <2> QED BY <2>3, <2>4
<1>10. ASSUME NEW t \in Tasks, Submit(t) PROVE Goal
  <2>1. log' = log /\ loop' = Idle /\ loop = Idle /\ at'[u] = IF u = t THEN "queued" ELSE at[u]
    BY <1>1, <1>10 DEF Submit
  <2>2. u = t => at[u] = "none"
    BY <1>10 DEF Submit
  <2> QED BY <1>3, <2>1, <2>2, MostIs
<1>11. ASSUME NEW t \in Tasks, Resume(t) \/ AdapterFails(t) PROVE Goal
  <2>1. loop = Idle /\ log' = log /\ at' = at
    BY <1>11 DEF Resume, AdapterFails
  <2>2. Len(log[u]) <= Most[at[u]]
    BY <1>3, <2>1
  <2>3. CASE AdapterFails(t)
    <3>1. loop'.todo = Failure(at[t]) /\ loop'.next = "over" /\ loop'.task = t /\ loop'.guarded /\ at[t] \in Adapted
      BY <2>3 DEF AdapterFails
    <3>2. loop'.todo \in Seq(Final) /\ Len(loop'.todo) = 3
      BY <3>1, EndsAreFinal, PartLengths DEF Nodes
    <3>3. at[t] \notin {"over", "escaped", "lost"}
      BY <3>1 DEF Adapted
    <3>4. CASE u # t
      BY <2>1, <2>2, <3>1, <3>4
    <3>5. CASE u = t
      <4>1. Len(log[u]) <= 50
        BY <1>1, <2>2, <3>3, <3>5, MostBound
      <4>2. Room(loop', Len(log'[u]))
        BY <1>1, <2>1, <3>1, <3>2, <4>1 DEF Room
      <4>3. loop' # Idle
        <5>1. Failure(at[t]) \in Seq(Legal)
          BY <3>1, PartTypes DEF Nodes
        <5>2. loop' \in Job
          BY <2>3, <5>1 DEF AdapterFails, Job, Places
        <5> QED BY <5>2, JobsRun
      <4> QED BY <3>1, <3>5, <4>2, <4>3
    <3> QED BY <3>4, <3>5
  <2>4. CASE Resume(t)
    <3>1. PICK r \in Resumed(t) :
            loop' = [task |-> t, todo |-> r.todo, next |-> r.next, guarded |-> Guarded(t)]
      BY <2>4 DEF Resume
    <3>2. Course(at[t], r.todo, r.next) /\ at[t] \in Places /\ r.todo \in Seq(Legal)
      BY <1>1, ResumedCases, ResumedType
    <3>3. u = t => /\ r.next \notin {"escaped", "lost"}
                   /\ IF r.next = "over" THEN r.todo \in Seq(Final) /\ Len(log[u]) + Len(r.todo) <= 62
                      ELSE Len(log[u]) + Len(r.todo) <= Most[r.next]
      BY <1>1, <2>2, <3>2, CourseRoom
    <3>4. loop'.task = t /\ loop'.todo = r.todo /\ loop'.next = r.next
      BY <3>1
    <3>5. CASE u # t
      BY <2>1, <2>2, <3>4, <3>5
    <3>6. CASE u = t
      <4>1. Room(loop', Len(log'[u]))
        <5>1. Len(r.todo) \in Nat
          BY <3>2
        <5> QED BY <1>1, <2>1, <3>3, <3>4, <3>6, <5>1 DEF Room
      <4>2. loop' # Idle
        <5>1. loop' \in Job
          BY <1>1, <3>1, ResumedType DEF Job, Guarded
        <5> QED BY <5>1, JobsRun
      <4> QED BY <3>4, <3>6, <4>1, <4>2
    <3> QED BY <3>5, <3>6
  <2> QED BY <1>11, <2>3, <2>4
<1>12. ASSUME NEW s \in Subs, Receive(s) \/ Disconnect(s) \/ \E t \in Tasks : Connect(s, t) PROVE Goal
  <2>1. runVars' = runVars
    BY <1>12 DEF Receive, Disconnect, Connect
  <2>2. loop' = loop /\ at' = at /\ log' = log
    BY <2>1 DEF runVars
  <2> QED BY <2>2 DEF LengthInv
<1> QED BY <1>4, <1>5, <1>6, <1>7, <1>8, <1>9, <1>10, <1>11, <1>12 DEF Next, RunOp, Popping

\* No timeline has more than 65 events.
LEMMA LengthBound ==
  ASSUME NEW l \in Job \cup {Idle}, NEW p \in [Tasks -> Places], NEW g \in [Tasks -> Seq(Kinds \X Subjects)],
         NEW t \in Tasks,
         IF l # Idle /\ l.task = t THEN Room(l, Len(g[t])) ELSE Len(g[t]) <= Most[p[t]]
  PROVE  Len(g[t]) \in Nat /\ Len(g[t]) <= 65
<1>1. Len(g[t]) \in Nat /\ p[t] \in Places
  OBVIOUS
<1>2. CASE l # Idle /\ l.task = t
  BY <1>1, <1>2, RoomBound
<1>3. CASE ~(l # Idle /\ l.task = t)
  BY <1>1, <1>3, MostBound
<1> QED BY <1>2, <1>3

LEMMA LengthHolds ==
  ASSUME TInv, LengthInv, [Next]_vars, NEW t \in Tasks
  PROVE  Len(log[t]) <= 65 /\ Len(log'[t]) <= 65
<1>1. Len(log[t]) <= 65
  BY LengthBound DEF TInv, LengthInv
<1>2. TInv' /\ LengthInv'
  BY TypeStep, LengthStep
<1>3. /\ loop' \in Job \cup {Idle} /\ at' \in [Tasks -> Places] /\ log' \in [Tasks -> Seq(Kinds \X Subjects)]
      /\ IF loop' # Idle /\ loop'.task = t THEN Room(loop', Len(log'[t])) ELSE Len(log'[t]) <= Most[at'[t]]
  BY <1>2 DEF TInv, LengthInv, Room
<1>4. Len(log'[t]) <= 65
  <2> PICK l, p, g : l = loop' /\ p = at' /\ g = log'
    OBVIOUS
  <2>1. /\ l \in Job \cup {Idle} /\ p \in [Tasks -> Places] /\ g \in [Tasks -> Seq(Kinds \X Subjects)]
        /\ IF l # Idle /\ l.task = t THEN Room(l, Len(g[t])) ELSE Len(g[t]) <= Most[p[t]]
    BY <1>3
  <2> QED BY <2>1, LengthBound
<1> QED BY <1>1, <1>4

-----------------------------------------------------------------------------
(* The live bus and its streams. *)

\* The bounds of the bus hold a whole timeline and the sentinel (the defaults are 256 and 512).
Roomy == Replay >= 65 /\ QueueMax > 65

Events == Kinds \X Subjects

\* What the bus keeps of a task is its timeline, or nothing since the process was started again.
HistInv == \A t \in Tasks : /\ hist[t] \in {log[t], <<>>}
                            /\ at[t] \in Suspended => hist[t] = log[t]
                            /\ at[t] = "none" => log[t] = <<>>

\* The events q wait for a client that reads.
Waiting(s, q) == /\ got[s] \o q = hist[topic[s]]
                 /\ queue[s] = IF topic[s] \in closed THEN Append(q, Done) ELSE q
StreamFits(s) ==
    /\ client[s] = "away" => got[s] = <<>>
    /\ client[s] = "done" => /\ topic[s] \in Tasks /\ at[topic[s]] = "over"
                             /\ got[s] \in {log[topic[s]], <<>>}
    /\ client[s] = "reading" => /\ topic[s] \in Tasks /\ (topic[s] \notin closed => s \in attached)
                                /\ \E q \in Seq(Events) : Waiting(s, q)

BusType == /\ hist \in [Tasks -> Seq(Events)] /\ got \in [Subs -> Seq(Events)]
           /\ queue \in [Subs -> Seq(Events \cup {Done})]
           /\ topic \in [Subs -> Tasks \cup {NoTask}] /\ attached \in SUBSET Subs
           /\ client \in [Subs -> {"away", "reading", "done"}]
BusInv == BusType /\ HistInv /\ \A s \in Subs : StreamFits(s)

LEMMA LinesAre ==
  ASSUME NEW q \in Seq(Events)
  PROVE  /\ Lines(q) = q /\ \A i \in DOMAIN q : q[i] # Done
         /\ Lines(Append(q, Done)) = q /\ ~\A i \in DOMAIN Append(q, Done) : Append(q, Done)[i] # Done
         /\ Append(q, Done) # <<>> /\ Append(q, Done)[Len(Append(q, Done))] = Done
<1>1. \A i \in DOMAIN q : q[i] \in Events /\ q[i] # Done
  BY ElementOfSeq, CoordinatorAssumption DEF Events
<1>2. Lines(q) = q
  BY <1>1 DEF Lines
<1>3. PICK r : r = Append(q, Done)
  OBVIOUS
<1>4. /\ Len(r) = Len(q) + 1 /\ r[Len(q) + 1] = Done /\ DOMAIN r = 1..(Len(q) + 1) /\ Len(q) \in Nat
      /\ \A i \in 1..Len(q) : r[i] = q[i]
  BY <1>3
<1>5. {i \in DOMAIN r : r[i] = Done} = {Len(q) + 1}
  BY <1>1, <1>4
<1>6. Lines(r) = SubSeq(r, 1, (Len(q) + 1) - 1)
  <2> DEFINE ends == {i \in DOMAIN r : r[i] = Done}
  <2>1. (CHOOSE i \in ends : \A j \in ends : i <= j) = Len(q) + 1
    BY <1>4, <1>5
  <2> QED BY <1>5, <2>1 DEF Lines
<1>7. SubSeq(r, 1, Len(q)) = q
  BY <1>3, <1>4
<1>8. Lines(r) = q
  BY <1>4, <1>6, <1>7
<1>9. r # <<>> /\ r[Len(r)] = Done /\ ~\A i \in DOMAIN r : r[i] # Done
  BY <1>4
<1> QED BY <1>1, <1>2, <1>3, <1>8, <1>9

\* Nothing is left to do for a task whose topic is closed.
LEMMA ClosedIsOver ==
  ASSUME TInv, RunInv, NEW t \in closed
  PROVE  IF loop # Idle /\ loop.task = t THEN loop.todo = <<>> ELSE at[t] = "over"
<1>1. t \in Tasks /\ RunState[t][4] = "shut"
  BY DEF TInv, RunState
<1>2. CASE loop # Idle /\ loop.task = t
  <2> SUFFICES ASSUME loop.todo # <<>> PROVE FALSE
    BY <1>2
  <2>1. loop \in Job
    BY <1>2 DEF TInv
  <2>2. OnCourse(RunMoves, RunStates, RunPlaces, RunState, loop, at)
    BY DEF RunInv
  <2>3. \E b \in RunStates : <<Head(loop.todo), RunState[loop.task], b>> \in RunMoves
    BY <2>1, <2>2, CourseMove
  <2> QED BY <1>1, <1>2, <2>3 DEF RunMoves
<1>3. CASE ~(loop # Idle /\ loop.task = t)
  <2>1. RunState[t] \in RunPlaces[at[t]] /\ at[t] \in Places
    BY <1>1, <1>3 DEF RunInv, OnCourse, TInv
  <2> PICK p \in Places : p = at[t]
    BY <2>1
  <2>2. p # "over" => \A a \in RunPlaces[p] : a[4] = "ajar"
    <3>1. CASE p \in {"none", "queued"}
      BY <3>1 DEF RunPlaces, Places, Adapted
    <3>2. CASE p \in {"gate"} \cup Adapted
      BY <3>2 DEF RunPlaces, Places, Adapted, Going
    <3>3. CASE p \in {"escaped", "lost"}
      BY <3>3 DEF RunPlaces, Places, Adapted
    <3> QED BY <3>1, <3>2, <3>3 DEF Places
  <2> QED BY <1>1, <1>3, <2>1, <2>2
<1> QED BY <1>2, <1>3

\* A task whose coroutine has returned is left alone.
LEMMA OverStays ==
  ASSUME TInv, [Next]_vars, NEW t \in Tasks, at[t] = "over"
  PROVE  at'[t] = "over" /\ log'[t] = log[t] /\ ~(loop # Idle /\ loop.task = t)
<1>1. ~(loop # Idle /\ loop.task = t)
  BY DEF TInv, Suspended, Adapted
<1>2. log'[t] = log[t]
  <2>1. ~Submit(t)
    BY DEF Submit
  <2>2. ~Popping \/ t # loop.task
    BY <1>1, PopLoop
  <2> QED BY <2>1, <2>2, StepKeeps DEF SameRecord
<1>3. at'[t] = "over"
  <2>1. CASE Popping
    BY <2>1, PopLoop
  <2>2. CASE Raise
    BY <1>1, <2>2 DEF Raise, Busy, TInv
  <2>3. CASE Suspend
    BY <1>1, <2>3 DEF Suspend, TInv
  <2>4. CASE Crash
    BY <2>4 DEF Crash, Adapted
  <2>5. ASSUME NEW u \in Tasks, Submit(u) PROVE at'[t] = "over"
    BY <2>5 DEF Submit, TInv
  <2>6. CASE at' = at
    BY <2>6
  <2>7. \/ Popping \/ Raise \/ Suspend \/ Crash \/ at' = at \/ \E u \in Tasks : Submit(u)
    BY DEF Popping, Next, RunOp, vars, runVars, Deny, Resume, AdapterFails, Receive, Disconnect, Connect
  <2> QED BY <2>1, <2>2, <2>3, <2>4, <2>5, <2>6, <2>7
<1> QED BY <1>1, <1>2, <1>3

\* An event that is emitted fits into what the bus keeps.
LEMMA EmitKeeps ==
  ASSUME TInv, LengthInv, Roomy, BusInv, Emit
  PROVE  \E t \in Tasks, e \in Events :
            /\ t = loop.task /\ loop # Idle /\ at[t] \in Suspended /\ loop.todo # <<>>
            /\ Len(hist[t]) <= 64 /\ log'[t] = Append(hist[t], e) /\ hist'[t] = Append(hist[t], e)
            /\ \A u \in Tasks \ {t} : log'[u] = log[u] /\ hist'[u] = hist[u]
            /\ ToAttached(t, e) /\ UNCHANGED <<at, closed, topic, attached, client, got>>
<1>1. PICK t \in Tasks : t = loop.task /\ loop # Idle /\ at[t] \in Suspended /\ loop.todo # <<>>
  BY DEF Emit, Busy, TInv, Job
<1>2. PICK e \in Events : e = <<Op.to, Op.node>>
  BY PopLoop DEF Popping, Emit, Legal, Ops, Events
<1>3. /\ log' = [log EXCEPT ![t] = Append(@, e)] /\ hist' = [hist EXCEPT ![t] = Kept(@, e)]
      /\ ToAttached(t, e) /\ UNCHANGED <<at, closed, topic, attached, client, got>>
  BY <1>1, <1>2 DEF Emit, Publish, clientVars
<1>4. hist[t] = log[t] /\ log \in [Tasks -> Seq(Events)] /\ hist \in [Tasks -> Seq(Events)]
  BY <1>1 DEF BusInv, HistInv, BusType, TInv, Events
<1>5. log'[t] = Append(log[t], e) /\ hist'[t] = Kept(hist[t], e)
      /\ \A u \in Tasks \ {t} : log'[u] = log[u] /\ hist'[u] = hist[u]
  BY <1>3, <1>4
<1>6. Len(log'[t]) <= 65
  BY LengthHolds DEF Next, RunOp
<1>7. Len(log'[t]) = Len(log[t]) + 1 /\ Len(log[t]) \in Nat
  BY <1>4, <1>5
<1>8. Len(hist[t]) <= 64
  BY <1>4, <1>6, <1>7
<1>9. Kept(hist[t], e) = Append(hist[t], e)
  BY <1>4, <1>7, <1>6, CoordinatorAssumption DEF Kept, Roomy
<1> QED BY <1>1, <1>3, <1>4, <1>5, <1>8, <1>9
LEMMA HistStep ==
  ASSUME TInv, LengthInv, Roomy, BusInv, [Next]_vars
  PROVE  HistInv'
<1> SUFFICES ASSUME NEW u \in Tasks
             PROVE  /\ hist'[u] \in {log'[u], <<>>}
                    /\ at'[u] \in Suspended => hist'[u] = log'[u]
                    /\ at'[u] = "none" => log'[u] = <<>>
  BY DEF HistInv
<1> DEFINE Goal == /\ hist'[u] \in {log'[u], <<>>}
                   /\ at'[u] \in Suspended => hist'[u] = log'[u]
                   /\ at'[u] = "none" => log'[u] = <<>>
<1>1. /\ hist[u] \in {log[u], <<>>} /\ (at[u] \in Suspended => hist[u] = log[u])
      /\ at[u] = "none" => log[u] = <<>>
  BY DEF BusInv, HistInv
<1>2. at \in [Tasks -> Places] /\ log \in [Tasks -> Seq(Events)] /\ at[u] \in Places
  BY DEF TInv, Events
<1>3. CASE Emit
  <2>1. PICK t \in Tasks, e \in Events :
            /\ at[t] \in Suspended /\ at' = at
            /\ log'[t] = Append(hist[t], e) /\ hist'[t] = Append(hist[t], e)
            /\ \A v \in Tasks \ {t} : log'[v] = log[v] /\ hist'[v] = hist[v]
    BY <1>3, EmitKeeps
  <2>2. CASE u = t
    BY <2>1, <2>2 DEF Suspended, Adapted
  <2>3. CASE u # t
    BY <1>1, <2>1, <2>3
  <2> QED BY <2>2, <2>3
<1>4. CASE Crash
  <2>1. hist'[u] = <<>> /\ log' = log
        /\ at'[u] = IF at[u] \in {"queued", "gate"} \cup Adapted THEN "lost" ELSE at[u]
    BY <1>4 DEF Crash
  <2> QED BY <1>1, <2>1 DEF Suspended, Adapted
<1>5. CASE Suspend
  <2>1. /\ hist' = hist /\ log' = log /\ loop # Idle /\ loop.todo = <<>> /\ loop \in Job
        /\ at'[u] = IF u = loop.task THEN loop.next ELSE at[u]
    BY <1>2, <1>5 DEF Suspend, bus, TInv
  <2>2. CASE u # loop.task
    BY <1>1, <2>1, <2>2
  <2>3. CASE u = loop.task
    <3>1. hist[u] = log[u]
      BY <1>1, <2>1, <2>3 DEF TInv
    <3>2. loop.next = "none" => log[u] = <<>>
      <4> SUFFICES ASSUME loop.next = "none" PROVE log[u] = <<>>
        OBVIOUS
      <4>1. Room(loop, Len(log[u]))
        BY <2>1, <2>3 DEF LengthInv
      <4>2. Len(log[u]) \in Nat /\ Len(log[u]) <= 0
        BY <1>2, <2>1, <4>1, RoomBound, MostIs
      <4> QED BY <1>2, <4>2
    <3> QED BY <2>1, <2>3, <3>1, <3>2
  <2> QED BY <2>2, <2>3
<1>6. CASE Raise
  <2>1. hist' = hist /\ log' = log /\ (at'[u] = at[u] \/ at'[u] = "escaped")
    BY <1>2, <1>6 DEF Raise, bus
  <2> QED BY <1>1, <2>1 DEF Suspended, Adapted
<1>7. ASSUME NEW t \in Tasks, Submit(t) PROVE Goal
  <2>1. hist' = hist /\ log' = log /\ at'[u] = (IF u = t THEN "queued" ELSE at[u])
        /\ (u = t => at[u] = "none")
    BY <1>2, <1>7 DEF Submit, bus
  <2> QED BY <1>1, <2>1
<1>8. CASE hist' = hist /\ log' = log /\ at' = at
  BY <1>1, <1>8
<1> QED
  <2>1. \/ Emit \/ Crash \/ Suspend \/ Raise \/ (\E t \in Tasks : Submit(t))
        \/ (hist' = hist /\ log' = log /\ at' = at)
    BY DEF Next, RunOp, SetRow, SetNode, SaveReceipt, KeepInputs, LiftInputs, Pass, Deny, CloseBus, Close,
           Resume, AdapterFails, Receive, Disconnect, Connect, Subscribe, Unsubscribe, Drain,
           vars, runVars, bus
  <2> QED BY <1>3, <1>4, <1>5, <1>6, <1>7, <1>8, <2>1

\* A stream whose client, topic and events a step leaves alone fits after it.
LEMMA FitsAlike ==
  ASSUME NEW r \in Subs, StreamFits(r), UNCHANGED <<hist, log, at, closed>>,
         got'[r] = got[r], queue'[r] = queue[r], client'[r] = client[r], topic'[r] = topic[r],
         r \in attached => r \in attached'
  PROVE  StreamFits(r)'
<1>1. hist' = hist /\ log' = log /\ at' = at /\ closed' = closed
  OBVIOUS
<1>2. ASSUME NEW q \in Seq(Events), Waiting(r, q) PROVE Waiting(r, q)'
  BY <1>1, <1>2 DEF Waiting
<1>3. client'[r] = "away" => got'[r] = <<>>
  BY DEF StreamFits
<1>4. client'[r] = "done" => /\ topic'[r] \in Tasks /\ at'[topic'[r]] = "over"
                             /\ got'[r] \in {log'[topic'[r]], <<>>}
  BY <1>1 DEF StreamFits
<1>5. client'[r] = "reading" => /\ topic'[r] \in Tasks /\ (topic'[r] \notin closed' => r \in attached')
                                /\ \E q \in Seq(Events) : Waiting(r, q)'
  <2> SUFFICES ASSUME client'[r] = "reading"
               PROVE  /\ topic'[r] \in Tasks /\ (topic'[r] \notin closed' => r \in attached')
                      /\ \E q \in Seq(Events) : Waiting(r, q)'
    OBVIOUS
  <2>1. /\ topic[r] \in Tasks /\ (topic[r] \notin closed => r \in attached)
        /\ \E q \in Seq(Events) : Waiting(r, q)
    BY DEF StreamFits
  <2>2. \E q \in Seq(Events) : Waiting(r, q)'
    BY <1>2, <2>1
  <2> QED BY <1>1, <2>1, <2>2
<1> QED BY <1>3, <1>4, <1>5 DEF StreamFits

LEMMA AppendLast ==
  ASSUME NEW x \in Seq(Events), NEW q \in Seq(Events), NEW e \in Events
  PROVE  Append(q, e) \in Seq(Events) /\ x \o Append(q, e) = Append(x \o q, e)
<1>1. Append(q, e) \in Seq(Events)
  OBVIOUS
<1>2. Append(q, e) = q \o <<e>> /\ Append(x \o q, e) = (x \o q) \o <<e>>
  BY AppendIsConcat, ConcatProperties
<1>3. x \o (q \o <<e>>) = (x \o q) \o <<e>>
  BY ConcatAssociative
<1> QED BY <1>1, <1>2, <1>3

\* What a client has and what waits for it grow by the event that is emitted.
LEMMA FitsEmit ==
  ASSUME TInv, RunInv, LengthInv, Roomy, BusInv, Emit, NEW s \in Subs
  PROVE  StreamFits(s)'
<1>1. PICK t \in Tasks, e \in Events :
            /\ t = loop.task /\ loop # Idle /\ at[t] \in Suspended /\ loop.todo # <<>>
            /\ Len(hist[t]) <= 64 /\ log'[t] = Append(hist[t], e) /\ hist'[t] = Append(hist[t], e)
            /\ \A u \in Tasks \ {t} : log'[u] = log[u] /\ hist'[u] = hist[u]
            /\ ToAttached(t, e) /\ UNCHANGED <<at, closed, topic, attached, client, got>>
  BY EmitKeeps
<1>2. StreamFits(s) /\ client[s] \in {"away", "reading", "done"}
      /\ hist[t] \in Seq(Events) /\ got[s] \in Seq(Events) /\ closed \subseteq Tasks
  BY DEF BusInv, BusType, TInv
<1>3. t \notin closed
  BY <1>1, ClosedIsOver
<1>4. queue'[s] = IF s \in attached /\ topic[s] = t THEN Put(queue[s], e) ELSE queue[s]
  BY <1>1 DEF ToAttached
<1>5. CASE client[s] = "away"
  BY <1>1, <1>2, <1>5 DEF StreamFits
<1>6. CASE client[s] = "done"
  <2>1. topic[s] \in Tasks /\ topic[s] # t
    BY <1>1, <1>2, <1>6 DEF StreamFits, Suspended, Adapted
  <2> QED BY <1>1, <1>2, <1>6, <2>1 DEF StreamFits
<1>7. CASE client[s] = "reading"
  <2>1. topic[s] \in Tasks /\ (topic[s] \notin closed => s \in attached)
    BY <1>2, <1>7 DEF StreamFits
  <2>2. PICK q \in Seq(Events) : Waiting(s, q)
    BY <1>2, <1>7 DEF StreamFits
  <2>3. CASE topic[s] = t
    <3>1. queue[s] = q /\ got[s] \o q = hist[t] /\ s \in attached
      BY <1>3, <2>1, <2>2, <2>3 DEF Waiting
    <3>2. Len(q) <= 64 /\ Len(q) \in Nat
      BY <1>1, <1>2, <3>1
    <3>3. queue'[s] = Append(q, e)
      BY <1>4, <2>3, <3>1, <3>2, CoordinatorAssumption DEF Put, Roomy
    <3>4. Append(q, e) \in Seq(Events) /\ got[s] \o Append(q, e) = Append(got[s] \o q, e)
      BY <1>2, AppendLast
    <3>5. got'[s] \o Append(q, e) = hist'[topic'[s]]
      BY <1>1, <2>3, <3>1, <3>4
    <3> QED BY <1>1, <1>3, <1>7, <2>1, <2>3, <3>1, <3>3, <3>4, <3>5 DEF StreamFits, Waiting
  <2>4. CASE topic[s] # t
    <3>1. queue'[s] = queue[s] /\ hist'[topic[s]] = hist[topic[s]]
      BY <1>1, <1>4, <2>1, <2>4
    <3> QED BY <1>1, <1>7, <2>1, <2>2, <3>1 DEF StreamFits, Waiting
  <2> QED BY <2>3, <2>4
<1> QED BY <1>2, <1>5, <1>6, <1>7

\* The sentinel goes behind the events that wait.
LEMMA FitsClose ==
  ASSUME TInv, RunInv, LengthInv, Roomy, BusInv, CloseBus, NEW s \in Subs
  PROVE  StreamFits(s)'
<1>1. PICK t \in Tasks : t = loop.task /\ loop # Idle /\ at[t] \in Suspended /\ loop.todo # <<>>
  BY DEF CloseBus, Busy, TInv, Job
<1>2. t \notin closed
  BY <1>1, ClosedIsOver
<1>3. /\ UNCHANGED <<hist, log, at, topic, attached, client, got>> /\ closed' = closed \cup {t}
      /\ queue'[s] = IF s \in attached /\ topic[s] = t THEN Put(queue[s], Done) ELSE queue[s]
  BY <1>1, <1>2 DEF CloseBus, Close, ToAttached, clientVars
<1>4. StreamFits(s) /\ client[s] \in {"away", "reading", "done"} /\ hist[t] \in Seq(Events)
      /\ got[s] \in Seq(Events) /\ hist[t] = log[t]
  BY <1>1 DEF BusInv, BusType, HistInv
<1>5. CASE client[s] # "reading"
  BY <1>3, <1>4, <1>5 DEF StreamFits
<1>6. CASE client[s] = "reading"
  <2>1. topic[s] \in Tasks /\ (topic[s] \notin closed => s \in attached)
    BY <1>4, <1>6 DEF StreamFits
  <2>2. PICK q \in Seq(Events) : Waiting(s, q)
    BY <1>4, <1>6 DEF StreamFits
  <2>3. CASE topic[s] = t
    <3>1. queue[s] = q /\ got[s] \o q = hist[t] /\ s \in attached
      BY <1>2, <2>1, <2>2, <2>3 DEF Waiting
    <3>2. Len(q) <= 65 /\ Len(q) \in Nat
      <4>1. Len(hist[t]) <= 65
        BY <1>4, LengthHolds DEF Next, RunOp
      <4> QED BY <1>4, <3>1, <4>1
    <3>3. queue'[s] = Append(q, Done)
      BY <1>3, <2>3, <3>1, <3>2, CoordinatorAssumption DEF Put, Roomy
    <3> QED BY <1>3, <1>6, <2>1, <2>2, <2>3, <3>3 DEF StreamFits, Waiting
  <2>4. CASE topic[s] # t
    BY <1>3, <1>6, <2>1, <2>2, <2>4 DEF StreamFits, Waiting
  <2> QED BY <2>3, <2>4
<1> QED BY <1>5, <1>6

\* A new client gets what there has been, and the sentinel if that is all.
LEMMA FitsConnect ==
  ASSUME TInv, LengthInv, Roomy, BusInv, NEW s \in Subs, NEW t \in Tasks, Connect(s, t), NEW r \in Subs
  PROVE  StreamFits(r)'
<1>1. /\ UNCHANGED <<hist, log, at, closed, got>>
      /\ topic' = [topic EXCEPT ![s] = t] /\ queue' = [queue EXCEPT ![s] = First(t)]
      /\ attached' = (IF t \in closed THEN attached ELSE attached \cup {s})
      /\ client' = [client EXCEPT ![s] = "reading"] /\ client[s] = "away"
  BY DEF Connect, Subscribe, runVars
<1>2. BusType /\ StreamFits(r) /\ StreamFits(s) /\ hist[t] \in Seq(Events)
  BY DEF BusInv, BusType
<1>3. CASE r # s
  <2>1. /\ topic'[r] = topic[r] /\ queue'[r] = queue[r] /\ client'[r] = client[r] /\ got'[r] = got[r]
        /\ r \in attached => r \in attached'
    BY <1>1, <1>2, <1>3 DEF BusType
  <2> QED BY <1>1, <1>2, <2>1, FitsAlike
<1>4. CASE r = s
  <2>1. topic'[s] = t /\ queue'[s] = First(t) /\ client'[s] = "reading" /\ got[s] = <<>>
    BY <1>1, <1>2 DEF BusType, StreamFits
  <2>2. Len(hist[t]) <= 65 /\ Len(hist[t]) \in Nat
    <3>1. hist[t] \in {log[t], <<>>}
      BY DEF BusInv, HistInv
    <3>2. Len(log[t]) <= 65
      BY LengthHolds DEF Next
    <3> QED BY <1>2, <3>1, <3>2
  <2>3. Snapshot(t) = hist[t]
    <3>1. Snapshot(t) = SubSeq(hist[t], 1, Len(hist[t]))
      BY <2>2, CoordinatorAssumption DEF Snapshot, Roomy
    <3> QED BY <1>2, <3>1
  <2>4. First(t) = IF t \in closed THEN Append(hist[t], Done) ELSE hist[t]
    BY <2>2, <2>3, CoordinatorAssumption DEF First, Put, Roomy
  <2>5. <<>> \o hist[t] = hist[t]
    BY <1>2
  <2> QED BY <1>1, <1>2, <1>4, <2>1, <2>4, <2>5 DEF StreamFits, Waiting
<1> QED BY <1>3, <1>4

\* A client takes what waits, and has ended if the sentinel was behind it.
LEMMA FitsReceive ==
  ASSUME TInv, RunInv, BusInv, NEW s \in Subs, Receive(s), NEW r \in Subs
  PROVE  StreamFits(r)'
<1>1. /\ UNCHANGED <<hist, log, at, closed, topic>> /\ loop = Idle /\ client[s] = "reading"
      /\ queue' = [queue EXCEPT ![s] = <<>>] /\ got' = [got EXCEPT ![s] = @ \o Lines(queue[s])]
      /\ IF \A i \in DOMAIN queue[s] : queue[s][i] # Done THEN UNCHANGED <<client, attached>>
         ELSE client' = [client EXCEPT ![s] = "done"] /\ attached' = attached \ {s}
  BY DEF Receive, Drain, runVars
<1>2. BusType /\ StreamFits(r) /\ StreamFits(s)
  BY DEF BusInv
<1>3. CASE r # s
  <2>1. /\ got'[r] = got[r] /\ queue'[r] = queue[r] /\ client'[r] = client[r] /\ topic'[r] = topic[r]
        /\ r \in attached => r \in attached'
    BY <1>1, <1>2, <1>3 DEF BusType
  <2> QED BY <1>1, <1>2, <2>1, FitsAlike
<1>4. CASE r = s
  <2>1. PICK t \in Tasks : t = topic[s] /\ (t \notin closed => s \in attached)
    BY <1>1, <1>2 DEF StreamFits
  <2>2. PICK q \in Seq(Events) : Waiting(s, q)
    BY <1>1, <1>2 DEF StreamFits
  <2>3. queue'[s] = <<>> /\ got'[s] = got[s] \o Lines(queue[s]) /\ got[s] \in Seq(Events)
    BY <1>1, <1>2 DEF BusType
  <2>4. got[s] \o q = hist[t] /\ queue[s] = (IF t \in closed THEN Append(q, Done) ELSE q)
    BY <2>1, <2>2 DEF Waiting
  <2>5. got'[s] = hist[t]
    BY <2>3, <2>4, LinesAre
  <2>6. CASE t \in closed
    <3>1. client'[s] = "done" /\ at[t] = "over" /\ hist[t] \in {log[t], <<>>}
      <4>1. ~\A i \in DOMAIN queue[s] : queue[s][i] # Done
        BY <2>4, <2>6, LinesAre
      <4>2. at[t] = "over"
        BY <1>1, <2>6, ClosedIsOver
      <4> QED BY <1>1, <1>2, <4>1, <4>2 DEF BusInv, BusType, HistInv
    <3> QED BY <1>1, <1>4, <2>1, <2>5, <3>1 DEF StreamFits
  <2>7. CASE t \notin closed
    <3>1. client' = client /\ attached' = attached
      BY <1>1, <2>4, <2>7, LinesAre
    <3>2. hist[t] \o <<>> = hist[t] /\ <<>> \in Seq(Events)
      BY <1>2 DEF BusType
    <3> QED BY <1>1, <1>4, <2>1, <2>3, <2>5, <2>7, <3>1, <3>2 DEF StreamFits, Waiting
  <2> QED BY <2>6, <2>7
<1> QED BY <1>3, <1>4

LEMMA FitsElse ==
  ASSUME TInv, BusInv, [Next]_vars, ~Emit, ~CloseBus, NEW r \in Subs,
         \A s \in Subs : ~Receive(s) /\ \A t \in Tasks : ~Connect(s, t)
  PROVE  StreamFits(r)'
<1>1. BusType /\ StreamFits(r)
  BY DEF BusInv
<1>2. CASE Crash
  BY <1>2 DEF Crash, StreamFits
<1>3. ASSUME NEW s \in Subs, Disconnect(s) PROVE StreamFits(r)'
  <2>1. /\ UNCHANGED <<hist, log, at, closed>> /\ topic' = [topic EXCEPT ![s] = NoTask]
        /\ queue' = [queue EXCEPT ![s] = <<>>] /\ got' = [got EXCEPT ![s] = <<>>]
        /\ client' = [client EXCEPT ![s] = "away"] /\ attached' = attached \ {s}
    BY <1>3 DEF Disconnect, Unsubscribe, runVars
  <2>2. CASE r = s
    <3>1. client'[s] = "away" /\ got'[s] = <<>>
      BY <1>1, <2>1 DEF BusType
    <3> QED BY <2>2, <3>1 DEF StreamFits
  <2>3. CASE r # s
    <3>1. /\ got'[r] = got[r] /\ queue'[r] = queue[r] /\ client'[r] = client[r] /\ topic'[r] = topic[r]
          /\ (r \in attached => r \in attached')
      BY <1>1, <2>1, <2>3 DEF BusType
    <3> QED BY <1>1, <2>1, <3>1, FitsAlike
  <2> QED BY <2>2, <2>3
<1>4. CASE UNCHANGED <<clientVars, bus>>
  <2>1. UNCHANGED <<hist, closed, topic, attached, queue, client, got>>
    BY <1>4 DEF clientVars, bus
  <2>2. client[r] = "done" => at'[topic[r]] = "over" /\ log'[topic[r]] = log[topic[r]]
    BY <1>1, OverStays DEF StreamFits
  <2> QED BY <1>1, <2>1, <2>2 DEF StreamFits, Waiting
<1> QED
  <2>1. Crash \/ (\E s \in Subs : Disconnect(s)) \/ UNCHANGED <<clientVars, bus>>
    BY DEF Next, RunOp, SetRow, SetNode, SaveReceipt, KeepInputs, LiftInputs, Pass, Deny, Raise, Suspend,
           Submit, Resume, AdapterFails, vars
  <2> QED BY <1>2, <1>3, <1>4, <2>1
\* The bus and the clients keep their types, and every stream goes on fitting its timeline.
LEMMA BusTypeStep ==
  ASSUME TInv, LengthInv, Roomy, BusInv, [Next]_vars
  PROVE  BusType'
<1> DEFINE Q == Seq(Events \cup {Done})
<1>1. /\ hist \in [Tasks -> Seq(Events)] /\ got \in [Subs -> Seq(Events)] /\ queue \in [Subs -> Q]
      /\ topic \in [Subs -> Tasks \cup {NoTask}] /\ attached \in SUBSET Subs
      /\ client \in [Subs -> {"away", "reading", "done"}] /\ closed \subseteq Tasks
  BY DEF BusInv, BusType, TInv
<1>2. CASE Emit
  <2>1. PICK t \in Tasks, e \in Events :
            /\ Len(hist[t]) <= 64 /\ hist'[t] = Append(hist[t], e)
            /\ \A u \in Tasks \ {t} : hist'[u] = hist[u]
            /\ ToAttached(t, e) /\ UNCHANGED <<topic, attached, client, got>>
    BY <1>2, EmitKeeps
  <2>2. PICK k \in Events, w \in Tasks : hist' = [hist EXCEPT ![w] = Kept(@, k)]
    <3>1. PICK k \in Events : k = <<Op.to, Op.node>>
      BY <1>2, PopLoop DEF Popping, Emit, Legal, Ops, Events
    <3>2. loop.task \in Tasks
      BY <1>2 DEF Emit, Busy, TInv, Job
    <3> QED BY <1>2, <3>1, <3>2 DEF Emit, Publish
  <2>3. hist' \in [Tasks -> Seq(Events)]
    <3>1. hist[w] \in Seq(Events)
      BY <1>1
    <3>2. Kept(hist[w], k) \in Seq(Events)
      <4> PICK h \in Seq(Events) : h = hist[w]
        BY <3>1
      <4>1. Append(h, k) \in Seq(Events) /\ Append(h, k) # <<>>
        OBVIOUS
      <4>2. Tail(Append(h, k)) \in Seq(Events)
        BY <4>1
      <4> QED BY <4>1, <4>2 DEF Kept
    <3> QED BY <1>1, <2>2, <3>2
  <2>4. \A s \in Subs : Put(queue[s], e) \in Q /\ queue[s] \in Q
    <3> TAKE s \in Subs
    <3>1. queue[s] \in Q
      BY <1>1
    <3>2. Append(queue[s], e) \in Q
      BY <3>1
    <3> QED BY <3>1, <3>2 DEF Put
  <2>5. queue' \in [Subs -> Q]
    BY <2>1, <2>4 DEF ToAttached
  <2> QED BY <1>1, <2>1, <2>3, <2>5 DEF BusType
<1>3. CASE CloseBus
  <2>1. PICK t \in Tasks : t = loop.task
    BY <1>3 DEF CloseBus, Busy, TInv, Job
  <2>2. UNCHANGED <<hist, topic, attached, client, got>> /\ (queue' = queue \/ ToAttached(t, Done))
    BY <1>3, <2>1 DEF CloseBus, Close, clientVars
  <2>3. \A s \in Subs : Put(queue[s], Done) \in Q /\ queue[s] \in Q
    <3> TAKE s \in Subs
    <3>1. queue[s] \in Q /\ Append(queue[s], Done) \in Q
      BY <1>1
    <3> QED BY <3>1 DEF Put
  <2>4. queue' \in [Subs -> Q]
    BY <1>1, <2>2, <2>3 DEF ToAttached
  <2> QED BY <1>1, <2>2, <2>4 DEF BusType
<1>4. CASE Crash
  BY <1>1, <1>4 DEF Crash, BusType
<1>5. ASSUME NEW s \in Subs, NEW t \in Tasks, Connect(s, t) PROVE BusType'
  <2>1. /\ UNCHANGED <<hist, got>> /\ topic' = [topic EXCEPT ![s] = t] /\ queue' = [queue EXCEPT ![s] = First(t)]
        /\ attached' = (IF t \in closed THEN attached ELSE attached \cup {s})
        /\ client' = [client EXCEPT ![s] = "reading"]
    BY <1>5 DEF Connect, Subscribe, runVars
  <2>2. Snapshot(t) \in Seq(Events)
    <3>1. hist[t] \in Seq(Events)
      BY <1>1
    <3>2. PICK n \in Nat : n <= Len(hist[t]) /\ Snapshot(t) = SubSeq(hist[t], 1, n)
      BY <3>1, CoordinatorAssumption DEF Snapshot
    <3> QED BY <3>1, <3>2
  <2>3. Snapshot(t) \in Q
    BY <2>2
  <2>4. First(t) \in Q
    <3>1. Append(Snapshot(t), Done) \in Q
      BY <2>3
    <3> QED BY <2>3, <3>1 DEF First, Put
  <2>5. queue' \in [Subs -> Q]
    BY <1>1, <2>1, <2>4
  <2>6. topic' \in [Subs -> Tasks \cup {NoTask}] /\ client' \in [Subs -> {"away", "reading", "done"}]
    BY <1>1, <2>1
  <2> QED BY <1>1, <2>1, <2>5, <2>6 DEF BusType
<1>6. ASSUME NEW s \in Subs, Receive(s) PROVE BusType'
  <2>1. /\ UNCHANGED <<hist, topic>> /\ client[s] = "reading"
        /\ queue' = [queue EXCEPT ![s] = <<>>] /\ got' = [got EXCEPT ![s] = @ \o Lines(queue[s])]
        /\ client' \in {client, [client EXCEPT ![s] = "done"]} /\ attached' \in {attached, attached \ {s}}
    BY <1>6 DEF Receive, Drain, runVars
  <2>2. Lines(queue[s]) \in Seq(Events)
    <3>1. PICK q \in Seq(Events) : queue[s] = q \/ queue[s] = Append(q, Done)
      BY <2>1 DEF BusInv, StreamFits, Waiting
    <3> QED BY <3>1, LinesAre
  <2>3. got[s] \o Lines(queue[s]) \in Seq(Events)
    BY <1>1, <2>2, ConcatProperties
  <2>4. got' \in [Subs -> Seq(Events)]
    BY <1>1, <2>1, <2>3
  <2>5. queue' \in [Subs -> Q] /\ attached' \in SUBSET Subs /\ client' \in [Subs -> {"away", "reading", "done"}]
    <3>1. <<>> \in Q
      OBVIOUS
    <3> QED BY <1>1, <2>1, <3>1
  <2> QED BY <1>1, <2>1, <2>4, <2>5 DEF BusType
<1>7. ASSUME NEW s \in Subs, Disconnect(s) PROVE BusType'
  <2>1. /\ UNCHANGED hist /\ topic' = [topic EXCEPT ![s] = NoTask]
        /\ queue' = [queue EXCEPT ![s] = <<>>] /\ got' = [got EXCEPT ![s] = <<>>]
        /\ client' = [client EXCEPT ![s] = "away"] /\ attached' = attached \ {s}
    BY <1>7 DEF Disconnect, Unsubscribe, runVars
  <2>2. <<>> \in Q /\ <<>> \in Seq(Events)
    OBVIOUS
  <2> QED BY <1>1, <2>1, <2>2 DEF BusType
<1>8. CASE UNCHANGED <<clientVars, bus>>
  BY <1>1, <1>8 DEF BusType, clientVars, bus
<1> QED
  <2>1. \/ Emit \/ CloseBus \/ Crash \/ UNCHANGED <<clientVars, bus>>
        \/ \E s \in Subs : Receive(s) \/ Disconnect(s) \/ \E t \in Tasks : Connect(s, t)
    BY DEF Next, RunOp, SetRow, SetNode, SaveReceipt, KeepInputs, LiftInputs, Pass, Deny, Raise, Suspend,
           Submit, Resume, AdapterFails, vars
  <2> QED BY <1>2, <1>3, <1>4, <1>5, <1>6, <1>7, <1>8, <2>1

LEMMA BusStep == TInv /\ RunInv /\ LengthInv /\ Roomy /\ BusInv /\ [Next]_vars => BusInv'
<1> SUFFICES ASSUME TInv, RunInv, LengthInv, Roomy, BusInv, [Next]_vars, NEW r \in Subs
             PROVE  StreamFits(r)'
  BY BusTypeStep, HistStep DEF BusInv
<1>1. CASE Emit
  BY <1>1, FitsEmit
<1>2. CASE CloseBus
  BY <1>2, FitsClose
<1>3. ASSUME NEW s \in Subs, NEW t \in Tasks, Connect(s, t) PROVE StreamFits(r)'
  BY <1>3, FitsConnect
<1>4. ASSUME NEW s \in Subs, Receive(s) PROVE StreamFits(r)'
  BY <1>4, FitsReceive
<1> QED BY <1>1, <1>2, <1>3, <1>4, FitsElse

LEMMA BusStart == Init => LengthInv /\ BusInv
<1> SUFFICES ASSUME Init PROVE LengthInv /\ BusInv
  OBVIOUS
<1>1. /\ loop = Idle /\ at = [t \in Tasks |-> "none"] /\ log = [t \in Tasks |-> <<>>]
      /\ hist = [t \in Tasks |-> <<>>] /\ topic = [s \in Subs |-> NoTask] /\ attached = {}
      /\ queue = [s \in Subs |-> <<>>] /\ client = [s \in Subs |-> "away"] /\ got = [s \in Subs |-> <<>>]
  BY DEF Init, BusInit
<1>2. LengthInv
  <2>1. \A t \in Tasks : at[t] = "none" /\ log[t] = <<>> /\ Len(log[t]) = 0
    BY <1>1
  <2>2. Most["none"] = 0
    BY MostIs
  <2>3. ASSUME NEW t \in Tasks PROVE Len(log[t]) <= Most[at[t]]
    <3>1. Len(log[t]) = 0 /\ Most[at[t]] = 0
      BY <2>1, <2>2, Zenon
    <3> QED BY <3>1
  <2> QED BY <1>1, <2>3 DEF LengthInv
<1>3. BusType
  BY <1>1 DEF BusType
<1>4. HistInv
  BY <1>1 DEF HistInv
<1>5. \A s \in Subs : StreamFits(s)
  BY <1>1 DEF StreamFits
<1> QED BY <1>2, <1>3, <1>4, <1>5 DEF BusInv

LEMMA StreamsKept == Roomy => (Spec => [](TInv /\ RunInv /\ BusInv))
<1> SUFFICES ASSUME Roomy PROVE Spec => [](TInv /\ RunInv /\ BusInv)
  OBVIOUS
<1> DEFINE I == TInv /\ RunInv /\ LengthInv /\ BusInv
<1>1. Init => I
  BY TInit, CoursesStart, BusStart
<1>2. I /\ [Next]_vars => I'
  BY TypeStep, RunStep, LengthStep, BusStep
<1>3. I => TInv /\ RunInv /\ BusInv
  OBVIOUS
<1> HIDE DEF I
<1> QED BY <1>1, <1>2, <1>3, PTL DEF Spec

\* GET /tasks/{id}/events/stream: whatever the runs, the connections and the restarts, what a client
\* has read and what waits in its queue are together the timeline of its task, in order, without a
\* gap and without a double (or nothing, once the process has lost it), and a stream that has ended
\* is that of a run that is over.  It takes a bus that holds a whole timeline, of at most 65 events,
\* and the sentinel: InProcessEventBus keeps 256 events of a topic and 512 in a queue.
THEOREM StreamHolds == Roomy => (Spec => []StreamIsTimeline)
<1> SUFFICES ASSUME Roomy PROVE Spec => []StreamIsTimeline
  OBVIOUS
<1>1. TInv /\ RunInv /\ BusInv => StreamIsTimeline
  <2> SUFFICES ASSUME BusInv, NEW s \in Subs
               PROVE  /\ client[s] = "reading" => /\ got[s] \o Lines(queue[s]) = hist[topic[s]]
                                                  /\ hist[topic[s]] \in {log[topic[s]], <<>>}
                      /\ client[s] = "done" => got[s] \in {log[topic[s]], <<>>} /\ at[topic[s]] = "over"
    BY DEF StreamIsTimeline
  <2>1. StreamFits(s) /\ HistInv
    BY DEF BusInv
  <2>2. client[s] = "done" => got[s] \in {log[topic[s]], <<>>} /\ at[topic[s]] = "over"
    BY <2>1 DEF StreamFits
  <2>3. ASSUME client[s] = "reading"
        PROVE  got[s] \o Lines(queue[s]) = hist[topic[s]] /\ hist[topic[s]] \in {log[topic[s]], <<>>}
    <3>1. PICK q \in Seq(Events) : Waiting(s, q)
      BY <2>1, <2>3 DEF StreamFits
    <3>2. Lines(queue[s]) = q
      BY <3>1, LinesAre DEF Waiting
    <3>3. topic[s] \in Tasks
      BY <2>1, <2>3 DEF StreamFits
    <3> QED BY <2>1, <3>1, <3>2, <3>3 DEF Waiting, HistInv
  <2> QED BY <2>2, <2>3
<1>2. Spec => [](TInv /\ RunInv /\ BusInv)
  BY StreamsKept
<1> QED BY <1>1, <1>2, PTL

\* close() puts the sentinel behind everything that is published, and subscribe() into the queue of
\* a client that comes later: no client of a closed topic is left waiting without it.
THEOREM ClosedHolds == Roomy => (Spec => []ClosedStreamEnds)
<1> SUFFICES ASSUME Roomy PROVE Spec => []ClosedStreamEnds
  OBVIOUS
<1>1. TInv /\ RunInv /\ BusInv => ClosedStreamEnds
  <2> SUFFICES ASSUME BusInv, NEW s \in Subs, client[s] = "reading", topic[s] \in closed
               PROVE  queue[s] # <<>> /\ queue[s][Len(queue[s])] = Done
    BY DEF ClosedStreamEnds
  <2>1. PICK q \in Seq(Events) : Waiting(s, q)
    BY DEF BusInv, StreamFits
  <2>2. queue[s] = Append(q, Done)
    BY <2>1 DEF Waiting
  <2> QED BY <2>2, LinesAre
<1>2. Spec => [](TInv /\ RunInv /\ BusInv)
  BY StreamsKept
<1> QED BY <1>1, <1>2, PTL

=============================================================================
