------------------------- MODULE LifecycleProofs -------------------------
(***************************************************************************)
(* Proofs about Lifecycle, for every number of resources, holds and        *)
(* workers and every retry budget.                                         *)
(***************************************************************************)
EXTENDS Lifecycle, TLAPS

Executing == {"reset", "read", "start", "erase", "redact", "finish", "fail"}
Counting == {"start", "erase", "redact", "finish", "fail"}

\* What holds of a call c in the middle, given the copies cp and the jobs j: it has a
\* resource, its job exists, it read no more attempts than there are, and evidence that
\* nothing was kept is true.
CallInv(c, cp, j) ==
    /\ c.pc # "idle" => c.res \in Resources
    /\ c.pc \in Executing => j[c.res] # NoJob
    /\ c.pc \in Counting => c.attempt <= j[c.res].attempt
    /\ c.pc = "redact" /\ ~c.kept => "main" \notin cp[c.res]
    /\ c.pc = "finish" /\ ~c.kept => cp[c.res] = {}

\* Jobs stay, attempts and erasures are never undone.
Onward(cp, j, cp2, j2) ==
    \A r \in Resources : /\ cp2[r] \subseteq cp[r]
                         /\ j[r] # NoJob => j2[r] # NoJob /\ j2[r].attempt >= j[r].attempt

CopiesKnown == \A r \in Resources : copies[r] \subseteq Known(kind[r])

CallsInv == \A w \in Workers : CallInv(call[w], copies, job)

\* The inductive invariant.  DeletedIsGone and FailedIsSpent are not inductive by
\* themselves: both depend on what the calls in the middle have seen.
IInv == TypeOK /\ CopiesKnown /\ CallsInv /\ DeletedIsGone /\ FailedIsSpent

-----------------------------------------------------------------------------

LEMMA CallMonotone ==
  ASSUME NEW c \in Call, NEW cp, NEW j, NEW cp2, NEW j2,
         j \in [Resources -> Job \cup {NoJob}], j2 \in [Resources -> Job \cup {NoJob}],
         CallInv(c, cp, j), Onward(cp, j, cp2, j2)
  PROVE  CallInv(c, cp2, j2)
<1>1. c.pc # "idle" => c.res \in Resources
  BY DEF CallInv
<1>2. CASE c.pc = "idle"
  BY <1>2 DEF CallInv, Executing, Counting
<1>3. CASE c.pc # "idle"
  <2>1. c.res \in Resources
    BY <1>1, <1>3
  <2>2. /\ cp2[c.res] \subseteq cp[c.res]
        /\ j[c.res] # NoJob => j2[c.res] # NoJob /\ j2[c.res].attempt >= j[c.res].attempt
    BY <2>1 DEF Onward
  <2>3. c.pc \in Counting => c.pc \in Executing
    BY DEF Counting, Executing
  <2>4. ASSUME c.pc \in Counting PROVE c.attempt <= j2[c.res].attempt
    <3>1. j[c.res] # NoJob /\ c.attempt <= j[c.res].attempt
      BY <2>3, <2>4 DEF CallInv
    <3>2. j[c.res] \in Job /\ j2[c.res] \in Job
      BY <3>1, <2>1, <2>2
    <3>3. QED BY <3>1, <3>2, <2>2 DEF Job, Call
  <2>5. QED BY <2>1, <2>2, <2>4 DEF CallInv
<1>4. QED BY <1>2, <1>3

\* A step that changes at most the call of one worker, and nothing backwards.
LEMMA OthersKeep ==
  ASSUME IInv, TypeOK', NEW w \in Workers, Onward(copies, job, copies', job'),
         \A v \in Workers \ {w} : call'[v] = call[v],
         CallInv(call'[w], copies', job')
  PROVE  CallsInv'
<1>1. SUFFICES ASSUME NEW v \in Workers PROVE CallInv(call'[v], copies', job')
  BY DEF CallsInv
<1>2. CASE v = w
  BY <1>2
<1>3. CASE v # w
  <2>1. call'[v] = call[v] /\ call[v] \in Call
    BY <1>3 DEF IInv, TypeOK
  <2>2. CallInv(call[v], copies, job)
    BY DEF IInv, CallsInv
  <2>3. job \in [Resources -> Job \cup {NoJob}] /\ job' \in [Resources -> Job \cup {NoJob}]
    BY DEF IInv, TypeOK
  <2>4. CallInv(call[v], copies', job')
    BY <2>1, <2>2, <2>3, CallMonotone
  <2>5. QED BY <2>1, <2>4
<1>4. QED BY <1>2, <1>3

LEMMA NothingMoved ==
  ASSUME TypeOK, UNCHANGED <<copies, job>>
  PROVE  Onward(copies, job, copies', job')
<1>1. \A r \in Resources : job[r] # NoJob => job[r].attempt \in Nat
  BY DEF TypeOK, Job
<1>2. QED BY <1>1 DEF Onward

\* An update of the job of resource r.
LEMMA UpdateMoves ==
  ASSUME TypeOK, NEW r \in Resources, job[r] # NoJob, NEW state \in JobStates,
         NEW more \in {0, 1}, UpdateJob(r, state, more), copies' = copies
  PROVE  /\ job' \in [Resources -> Job \cup {NoJob}]
         /\ job'[r] = [state |-> state, attempt |-> job[r].attempt + more]
         /\ job'[r] # NoJob
         /\ \A s \in Resources \ {r} : job'[s] = job[s]
         /\ Onward(copies, job, copies', job')
<1>1. job \in [Resources -> Job \cup {NoJob}] /\ job[r] \in Job
  BY DEF TypeOK
<1>2. job'[r] = [state |-> state, attempt |-> job[r].attempt + more]
  BY <1>1 DEF UpdateJob
<1>3. \A s \in Resources \ {r} : job'[s] = job[s]
  BY <1>1 DEF UpdateJob
<1>4. job[r].attempt + more \in Nat /\ job[r].attempt \in Nat
  BY <1>1 DEF Job
<1>5. job'[r] \in Job
  BY <1>2, <1>4 DEF Job
<1>6. job'[r] # NoJob
  BY <1>5, SentinelType
<1>7. job' \in [Resources -> Job \cup {NoJob}]
  BY <1>1, <1>5 DEF UpdateJob
<1>8. job'[r].attempt >= job[r].attempt
  BY <1>2, <1>4
<1>9. \A s \in Resources : job[s] # NoJob => job[s].attempt \in Nat
  BY <1>1 DEF Job
<1>10. Onward(copies, job, copies', job')
  BY <1>3, <1>6, <1>8, <1>9 DEF Onward
<1>11. QED BY <1>2, <1>3, <1>6, <1>7, <1>10

-----------------------------------------------------------------------------
(* Type correctness. *)

LEMMA TypeInit == Init => TypeOK
  BY DEF Init, TypeOK, IdleCall, Call, Known

LEMMA IdleTyped ==
  ASSUME NEW r \in Resources \cup {Nothing}, NEW force \in BOOLEAN, NEW n \in Nat,
         NEW pc \in {"retention", "reset", "start"}
  PROVE  /\ IdleCall \in Call
         /\ [IdleCall EXCEPT !.pc = pc, !.res = r, !.force = force] \in Call
         /\ [IdleCall EXCEPT !.pc = pc, !.res = r] \in Call
         /\ [IdleCall EXCEPT !.pc = pc, !.res = r, !.attempt = n] \in Call
  BY DEF IdleCall, Call

\* A call inside an execution is about a resource that has a job.
LEMMA CallFacts ==
  ASSUME IInv, NEW w \in Workers, call[w].pc # "idle"
  PROVE  /\ call[w] \in Call /\ call[w].res \in Resources
         /\ call[w].pc \in Executing =>
              job[call[w].res] # NoJob /\ job[call[w].res] \in Job
         /\ call[w].pc \in Counting => call[w].attempt <= job[call[w].res].attempt
  BY DEF IInv, TypeOK, CallsInv, CallInv

LEMMA CallsTyped ==
  ASSUME TypeOK, NEW w \in Workers, NEW c \in Call, call' = [call EXCEPT ![w] = c]
  PROVE  call' \in [Workers -> Call] /\ call'[w] = c
         /\ \A v \in Workers \ {w} : call'[v] = call[v]
  BY DEF TypeOK

\* What is left to show of a step of worker w that writes no job and no copy.
LEMMA QuietStep ==
  ASSUME IInv, NEW w \in Workers, NEW c \in Call, call' = [call EXCEPT ![w] = c],
         UNCHANGED <<kind, copies, policy, hold, job>>, CallInv(c, copies, job)
  PROVE  IInv'
<1>1. TypeOK'
  BY CallsTyped DEF IInv, TypeOK
<1>2. Onward(copies, job, copies', job')
  BY NothingMoved DEF IInv
<1>3. CallInv(call'[w], copies', job')
  BY CallsTyped DEF IInv
<1>4. \A v \in Workers \ {w} : call'[v] = call[v]
  BY CallsTyped DEF IInv
<1>5. CallsInv'
  BY <1>1, <1>2, <1>3, <1>4, OthersKeep
<1>6. CopiesKnown' /\ DeletedIsGone' /\ FailedIsSpent'
  BY DEF IInv, CopiesKnown, DeletedIsGone, FailedIsSpent, InState
<1>7. QED BY <1>1, <1>5, <1>6 DEF IInv

\* A step of worker w that updates the job it executes.
LEMMA UpdateStep ==
  ASSUME IInv, NEW w \in Workers, NEW c \in Call, call' = [call EXCEPT ![w] = c],
         UNCHANGED <<kind, copies, policy, hold>>,
         call[w].pc \in Executing, NEW state \in JobStates, NEW more \in {0, 1},
         UpdateJob(call[w].res, state, more),
         CallInv(c, copies, job'),
         state = "deleted" => copies[call[w].res] = {},
         state = "failed" => job[call[w].res].attempt + more >= MaxAttempts
  PROVE  IInv'
<1>1. PICK r \in Resources : r = call[w].res /\ job[r] # NoJob /\ job[r] \in Job
  BY CallFacts DEF Executing
<1>2. /\ job' \in [Resources -> Job \cup {NoJob}]
      /\ job'[r] = [state |-> state, attempt |-> job[r].attempt + more]
      /\ \A s \in Resources \ {r} : job'[s] = job[s]
      /\ Onward(copies, job, copies', job')
  BY <1>1, UpdateMoves DEF IInv
<1>3. TypeOK'
  BY <1>2, CallsTyped DEF IInv, TypeOK
<1>4. CallInv(call'[w], copies', job')
  BY CallsTyped DEF IInv
<1>5. \A v \in Workers \ {w} : call'[v] = call[v]
  BY CallsTyped DEF IInv
<1>6. CallsInv'
  BY <1>2, <1>3, <1>4, <1>5, OthersKeep
<1>7. DeletedIsGone'
  BY <1>1, <1>2 DEF IInv, DeletedIsGone, InState
<1>8. FailedIsSpent'
  BY <1>1, <1>2 DEF IInv, FailedIsSpent, InState
<1>9. CopiesKnown'
  BY DEF IInv, CopiesKnown
<1>10. QED BY <1>3, <1>6, <1>7, <1>8, <1>9 DEF IInv

\* A step of worker w that removes copies S of its resource.
LEMMA RemoveStep ==
  ASSUME IInv, NEW w \in Workers, NEW c \in Call, call' = [call EXCEPT ![w] = c],
         UNCHANGED <<kind, policy, hold, job>>,
         NEW r \in Resources, NEW S, copies' = [copies EXCEPT ![r] = @ \ S],
         CallInv(c, copies', job)
  PROVE  IInv'
<1>1. /\ copies' \in [Resources -> SUBSET {"main", "event"}]
      /\ \A s \in Resources : copies'[s] \subseteq copies[s]
  BY DEF IInv, TypeOK
<1>2. TypeOK'
  BY <1>1, CallsTyped DEF IInv, TypeOK
<1>3. \A s \in Resources : job[s] # NoJob => job[s].attempt \in Nat
  BY DEF IInv, TypeOK, Job
<1>4. Onward(copies, job, copies', job')
  BY <1>1, <1>3 DEF Onward
<1>5. CallInv(call'[w], copies', job')
  BY CallsTyped DEF IInv
<1>6. \A v \in Workers \ {w} : call'[v] = call[v]
  BY CallsTyped DEF IInv
<1>7. CallsInv'
  BY <1>2, <1>4, <1>5, <1>6, OthersKeep
<1>8. CopiesKnown' /\ DeletedIsGone' /\ FailedIsSpent'
  BY <1>1 DEF IInv, CopiesKnown, DeletedIsGone, FailedIsSpent, InState
<1>9. QED BY <1>2, <1>7, <1>8 DEF IInv

-----------------------------------------------------------------------------
(* The invariant is inductive. *)

LEMMA InvInit == Init => IInv
<1> SUFFICES ASSUME Init PROVE IInv
  OBVIOUS
<1>1. TypeOK
  BY TypeInit
<1>2. CopiesKnown /\ DeletedIsGone /\ FailedIsSpent
  BY DEF Init, CopiesKnown, DeletedIsGone, FailedIsSpent, InState
<1>3. \A w \in Workers : call[w].pc = "idle"
  BY DEF Init, IdleCall
<1>4. CallsInv
  BY <1>3 DEF CallsInv, CallInv, Executing, Counting
<1>5. QED BY <1>1, <1>2, <1>4 DEF IInv

\* A call whose pc is the only thing that changes.
LEMMA ToCall ==
  ASSUME IInv, NEW w \in Workers, call[w].pc # "idle",
         NEW pc \in {"create", "erase", "redact", "finish", "fail", "read"}, To(w, pc)
  PROVE  \E c \in Call : /\ call' = [call EXCEPT ![w] = c]
                         /\ c.pc = pc /\ c.res = call[w].res
                         /\ c.attempt = call[w].attempt /\ c.kept = call[w].kept
<1> DEFINE c == [call[w] EXCEPT !.pc = pc]
<1>1. call[w] \in Call
  BY CallFacts
<1>2. c \in Call /\ c.pc = pc /\ c.res = call[w].res /\ c.attempt = call[w].attempt
      /\ c.kept = call[w].kept
  BY <1>1 DEF Call
<1>3. call' = [call EXCEPT ![w] = c]
  BY DEF To
<1>4. QED BY <1>2, <1>3

\* The same with the evidence.
KeepTo(w, kept, pc) == call' = [call EXCEPT ![w].kept = kept, ![w].pc = pc]

LEMMA KeptCall ==
  ASSUME IInv, NEW w \in Workers, call[w].pc # "idle", NEW kept \in BOOLEAN,
         NEW pc \in {"redact", "finish"}, KeepTo(w, kept, pc)
  PROVE  \E c \in Call : /\ call' = [call EXCEPT ![w] = c]
                         /\ c.pc = pc /\ c.res = call[w].res
                         /\ c.attempt = call[w].attempt /\ c.kept = kept
<1> DEFINE c == [[call[w] EXCEPT !.kept = kept] EXCEPT !.pc = pc]
<1>1. call[w] \in Call /\ call \in [Workers -> Call]
  BY CallFacts DEF IInv, TypeOK
<1>2. c \in Call /\ c.pc = pc /\ c.res = call[w].res /\ c.attempt = call[w].attempt
      /\ c.kept = kept
  BY <1>1 DEF Call
<1>3. call' = [call EXCEPT ![w] = c]
  BY <1>1 DEF KeepTo
<1>4. QED BY <1>2, <1>3

\* Calls that are idle or at a gate carry no obligation but their resource.
LEMMA IdleInv == \A cp, j : CallInv(IdleCall, cp, j)
  BY DEF CallInv, IdleCall, Executing, Counting

LEMMA IdleStep ==
  ASSUME IInv, NEW w \in Workers, call' = [call EXCEPT ![w] = IdleCall],
         UNCHANGED <<kind, copies, policy, hold, job>>
  PROVE  IInv'
<1>1. IdleCall \in Call
  BY DEF IdleCall, Call
<1>2. QED BY <1>1, IdleInv, QuietStep

LEMMA RequestSteps ==
  ASSUME IInv, NEW w \in Workers, NEW r \in Resources, NEW force \in BOOLEAN,
         RequestDelete(w, r, force)
  PROVE  IInv'
<1> DEFINE c == [IdleCall EXCEPT !.pc = "retention", !.res = r, !.force = force]
<1>1. c \in Call
  BY DEF IdleCall, Call
<1>2. CallInv(c, copies, job)
  BY DEF CallInv, IdleCall, Executing, Counting
<1>3. QED BY <1>1, <1>2, QuietStep DEF RequestDelete

LEMMA ReadSteps ==
  ASSUME IInv, NEW w \in Workers, NEW r \in Resources, Read(w, r)
  PROVE  IInv'
<1>1. job[r] \in Job /\ job[r] # NoJob
  BY DEF Read, IInv, TypeOK
<1>2. CASE job[r].state \in Terminal
  BY <1>2, IdleStep DEF Read
<1>3. CASE job[r].state \notin Terminal
  <2> DEFINE c == [IdleCall EXCEPT !.pc = "start", !.res = r, !.attempt = job[r].attempt]
  <2>1. c \in Call /\ job[r].attempt \in Nat
    BY <1>1 DEF IdleCall, Call, Job
  <2>2. c.pc = "start" /\ c.res = r /\ c.attempt = job[r].attempt
    BY DEF IdleCall
  <2>3. CallInv(c, copies, job)
    BY <1>1, <2>1, <2>2 DEF CallInv
  <2>4. QED BY <1>3, <2>1, <2>3, QuietStep DEF Read
<1>4. QED BY <1>2, <1>3

LEMMA RetryStep ==
  ASSUME IInv, NEW w \in Workers, NEW r \in Resources, RetryJob(w, r)
  PROVE  IInv'
<1> DEFINE c == [IdleCall EXCEPT !.pc = "reset", !.res = r]
<1>1. c \in Call
  BY DEF IdleCall, Call
<1>2. CallInv(c, copies, job)
  BY DEF CallInv, IdleCall, Executing, Counting, RetryJob
<1>3. QED BY <1>1, <1>2, QuietStep DEF RetryJob

LEMMA GateStep ==
  ASSUME IInv, NEW w \in Workers, RetentionGate(w)
  PROVE  IInv'
<1>1. CASE Permitted(w)
  <2>1. To(w, "create") /\ call[w].pc # "idle"
    BY <1>1 DEF RetentionGate
  <2>2. PICK c \in Call : /\ call' = [call EXCEPT ![w] = c]
                          /\ c.pc = "create" /\ c.res = call[w].res
    BY <2>1, ToCall
  <2>3. CallInv(c, copies, job)
    BY <2>1, <2>2, CallFacts DEF CallInv, Executing, Counting
  <2>4. QED BY <2>2, <2>3, QuietStep DEF RetentionGate
<1>2. CASE ~Permitted(w)
  BY <1>2, IdleStep DEF RetentionGate
<1>3. QED BY <1>1, <1>2

LEMMA CreateStep ==
  ASSUME IInv, NEW w \in Workers, CreateJob(w)
  PROVE  IInv'
<1>1. PICK r \in Resources : r = call[w].res
  BY CallFacts DEF CreateJob
<1>2. CASE job[r] # NoJob
  <2>1. job' = job
    BY <1>1, <1>2 DEF CreateJob, Upserted, IInv, TypeOK
  <2>2. QED BY <2>1, IdleStep DEF CreateJob
<1>3. CASE job[r] = NoJob
  <2>1. job \in [Resources -> Job \cup {NoJob}]
    BY DEF IInv, TypeOK
  <2>2. [state |-> "pending", attempt |-> 0] \in Job
    BY DEF Job, JobStates
  <2>3. job' = [job EXCEPT ![r] = [state |-> "pending", attempt |-> 0]]
    BY <1>1, <1>3 DEF CreateJob, Upserted
  <2>4. job' \in [Resources -> Job \cup {NoJob}]
    BY <2>1, <2>2, <2>3
  <2>5. IdleCall \in Call
    BY DEF IdleCall, Call
  <2>6. call' = [call EXCEPT ![w] = IdleCall] /\ UNCHANGED <<kind, copies, policy, hold>>
    BY DEF CreateJob
  <2>7. TypeOK'
    BY <2>4, <2>5, <2>6, CallsTyped DEF IInv, TypeOK
  <2>8. \A s \in Resources : job[s] # NoJob => job'[s] = job[s] /\ job[s].attempt \in Nat
    BY <2>1, <2>3, <1>3 DEF Job
  <2>9. Onward(copies, job, copies', job')
    BY <2>6, <2>8 DEF Onward
  <2>10. CallInv(call'[w], copies', job') /\ \A v \in Workers \ {w} : call'[v] = call[v]
    BY <2>5, <2>6, IdleInv, CallsTyped DEF IInv
  <2>11. CallsInv'
    BY <2>7, <2>9, <2>10, OthersKeep
  <2>12. CopiesKnown' /\ DeletedIsGone' /\ FailedIsSpent'
    BY <2>1, <2>3, <2>6 DEF IInv, CopiesKnown, DeletedIsGone, FailedIsSpent, InState
  <2>13. QED BY <2>7, <2>11, <2>12 DEF IInv
<1>4. QED BY <1>2, <1>3

\* The state running or pending written first, with the call carried on.
LEMMA MarkStep ==
  ASSUME IInv, NEW w \in Workers, StartJob(w) \/ ResetJob(w)
  PROVE  IInv'
<1>1. PICK r \in Resources : r = call[w].res
  BY CallFacts DEF StartJob, ResetJob
<1>2. /\ call[w].pc \in Executing /\ call[w].pc # "idle"
      /\ job[r] # NoJob
      /\ UNCHANGED <<kind, copies, policy, hold>>
  BY <1>1, CallFacts DEF StartJob, ResetJob, Executing
<1>3. CASE StartJob(w)
  <2>1. PICK c \in Call : /\ call' = [call EXCEPT ![w] = c]
                          /\ c.pc = "erase" /\ c.res = r /\ c.attempt = call[w].attempt
    BY <1>1, <1>2, <1>3, ToCall DEF StartJob
  <2>2. UpdateJob(r, "running", 0) /\ "running" \in JobStates
    BY <1>1, <1>3 DEF StartJob, JobStates
  <2>3. /\ job'[r] = [state |-> "running", attempt |-> job[r].attempt + 0]
        /\ job'[r] # NoJob
    BY <1>2, <2>2, UpdateMoves DEF IInv
  <2>4. c.attempt <= job[r].attempt /\ job[r].attempt \in Nat
    BY <1>1, <1>3, <2>1, CallFacts DEF StartJob, Executing, Counting, Job
  <2>5. CallInv(c, copies, job')
    BY <2>1, <2>3, <2>4 DEF CallInv
  <2>6. QED BY <1>1, <1>2, <2>1, <2>2, <2>5, UpdateStep
<1>4. CASE ResetJob(w)
  <2>1. PICK c \in Call : /\ call' = [call EXCEPT ![w] = c]
                          /\ c.pc = "read" /\ c.res = r
    BY <1>1, <1>2, <1>4, ToCall DEF ResetJob
  <2>2. UpdateJob(r, "pending", 0) /\ "pending" \in JobStates
    BY <1>1, <1>4 DEF ResetJob, JobStates
  <2>3. job'[r] # NoJob
    BY <1>2, <2>2, UpdateMoves DEF IInv
  <2>4. CallInv(c, copies, job')
    BY <2>1, <2>3 DEF CallInv, Counting
  <2>5. QED BY <1>1, <1>2, <2>1, <2>2, <2>4, UpdateStep
<1>5. QED BY <1>3, <1>4

\* The call that goes on from the main copy, whether it was removed or not.
LEMMA AfterMainCall ==
  ASSUME IInv, NEW w \in Workers, call[w].pc = "erase", NEW kept \in BOOLEAN,
         NEW r \in Resources, r = call[w].res, NEW cp, AfterMain(w, kept),
         ~kept => cp[r] \subseteq Known(kind[r]) \ {"main"}
  PROVE  \E c \in Call : call' = [call EXCEPT ![w] = c] /\ CallInv(c, cp, job)
<1>1. PICK pc \in {"redact", "finish"} :
        /\ pc = IF kind[r] = "receipt" THEN "redact" ELSE "finish"
        /\ KeepTo(w, kept, pc) /\ call[w].pc # "idle"
  BY DEF AfterMain, KeepTo
<1>2. PICK c \in Call : /\ call' = [call EXCEPT ![w] = c]
                        /\ c.pc = pc /\ c.res = r
                        /\ c.attempt = call[w].attempt /\ c.kept = kept
  BY <1>1, KeptCall
<1>3. job[r] # NoJob /\ call[w].attempt <= job[r].attempt
  BY CallFacts DEF Executing, Counting
<1>4. pc = "finish" /\ ~kept => cp[r] = {}
  <2>1. SUFFICES ASSUME kind[r] # "receipt", ~kept PROVE cp[r] = {}
    BY <1>1
  <2>2. cp[r] \subseteq {}
    BY <2>1 DEF Known
  <2>3. QED BY <2>2
<1>5. CallInv(c, cp, job)
  BY <1>2, <1>3, <1>4 DEF CallInv
<1>6. QED BY <1>2, <1>5

LEMMA EraseStep ==
  ASSUME IInv, NEW w \in Workers, Erase(w)
  PROVE  IInv'
<1>1. PICK r \in Resources : r = call[w].res
  BY CallFacts DEF Erase
<1>2. copies' = [copies EXCEPT ![r] = @ \ Removable(r)] /\ AfterMain(w, KeptMain(r))
      /\ UNCHANGED <<kind, policy, hold, job>> /\ call[w].pc = "erase"
  BY <1>1 DEF Erase
<1>3. PICK cp \in [Resources -> SUBSET {"main", "event"}] : cp = copies'
  BY <1>2 DEF IInv, TypeOK
<1>4. PICK kept \in BOOLEAN : kept = KeptMain(r)
  BY DEF KeptMain
<1>5. ~kept => cp[r] \subseteq Known(kind[r]) \ {"main"}
  <2>1. SUFFICES ASSUME ~kept PROVE cp[r] \subseteq Known(kind[r]) \ {"main"}
    OBVIOUS
  <2>2. kind[r] # "backup"
    BY <1>4, <2>1 DEF KeptMain
  <2>3. cp[r] = copies[r] \ {"main"}
    BY <1>2, <1>3, <2>2 DEF Removable, IInv, TypeOK
  <2>4. copies[r] \subseteq Known(kind[r])
    BY DEF IInv, CopiesKnown
  <2>5. QED BY <2>3, <2>4
<1>6. PICK c \in Call : call' = [call EXCEPT ![w] = c] /\ CallInv(c, cp, job)
  BY <1>1, <1>2, <1>4, <1>5, AfterMainCall
<1>7. CallInv(c, copies', job)
  BY <1>3, <1>6
<1>8. QED BY <1>2, <1>6, <1>7, RemoveStep

LEMMA ErrorSteps ==
  ASSUME IInv, NEW w \in Workers, EraseError(w) \/ EraseRaises(w)
  PROVE  IInv'
<1>1. PICK r \in Resources : r = call[w].res
  BY CallFacts DEF EraseError, EraseRaises
<1>2. CASE EraseError(w)
  <2>1. call[w].pc = "erase" /\ AfterMain(w, TRUE)
    BY <1>2 DEF EraseError
  <2>2. PICK c \in Call : call' = [call EXCEPT ![w] = c] /\ CallInv(c, copies, job)
    BY <1>1, <2>1, AfterMainCall
  <2>3. QED BY <1>2, <2>2, QuietStep DEF EraseError
<1>3. CASE EraseRaises(w)
  <2>1. call[w].pc = "erase" /\ To(w, "fail")
    BY <1>3 DEF EraseRaises
  <2>2. PICK c \in Call : /\ call' = [call EXCEPT ![w] = c]
                          /\ c.pc = "fail" /\ c.res = r /\ c.attempt = call[w].attempt
    BY <1>1, <2>1, ToCall
  <2>3. job[r] # NoJob /\ call[w].attempt <= job[r].attempt
    BY <1>1, <2>1, CallFacts DEF Executing, Counting
  <2>4. CallInv(c, copies, job)
    BY <2>2, <2>3 DEF CallInv
  <2>5. QED BY <1>3, <2>2, <2>4, QuietStep DEF EraseRaises
<1>4. QED BY <1>2, <1>3

LEMMA RedactStep ==
  ASSUME IInv, NEW w \in Workers, Redact(w)
  PROVE  IInv'
<1>1. PICK r \in Resources : r = call[w].res
  BY CallFacts DEF Redact
<1>2. PICK ok \in BOOLEAN :
        /\ copies' = [copies EXCEPT ![r] = IF ok THEN @ \ {"event"} ELSE @]
        /\ call' = [call EXCEPT ![w].pc = "finish", ![w].kept = RedactKept(w, ok)]
  BY <1>1 DEF Redact
<1>3. call[w].pc = "redact" /\ call[w].pc # "idle" /\ call[w] \in Call
      /\ UNCHANGED <<kind, policy, hold, job>>
  BY CallFacts DEF Redact
<1>4. PICK kept \in BOOLEAN : kept = RedactKept(w, ok)
  BY <1>3 DEF RedactKept, Call
<1>5. KeepTo(w, kept, "finish")
  BY <1>2, <1>3, <1>4 DEF IInv, TypeOK, KeepTo
<1>6. PICK c \in Call : /\ call' = [call EXCEPT ![w] = c]
                        /\ c.pc = "finish" /\ c.res = r
                        /\ c.attempt = call[w].attempt /\ c.kept = kept
  BY <1>1, <1>3, <1>5, KeptCall
<1>7. PICK S : S = IF ok THEN {"event"} ELSE {}
  OBVIOUS
<1>8. copies' = [copies EXCEPT ![r] = @ \ S]
  BY <1>2, <1>7
<1>9. ~kept => copies'[r] = {}
  <2>1. SUFFICES ASSUME ~kept PROVE copies'[r] = {}
    OBVIOUS
  <2>2. ok /\ ~call[w].kept
    BY <1>4, <2>1 DEF RedactKept
  <2>3. "main" \notin copies[r]
    BY <1>1, <1>3, <2>2 DEF IInv, CallsInv, CallInv
  <2>4. copies[r] \subseteq {"main", "event"} /\ copies'[r] = copies[r] \ {"event"}
    BY <1>2, <2>2 DEF IInv, TypeOK
  <2>5. QED BY <2>3, <2>4
<1>10. job[r] # NoJob /\ call[w].attempt <= job[r].attempt
  BY <1>1, <1>3, CallFacts DEF Executing, Counting
<1>11. CallInv(c, copies', job)
  BY <1>6, <1>9, <1>10 DEF CallInv
<1>12. QED BY <1>3, <1>6, <1>8, <1>11, RemoveStep

LEMMA FinishStep ==
  ASSUME IInv, NEW w \in Workers, FinishJob(w)
  PROVE  IInv'
<1>1. PICK state \in {"partial", "deleted"} :
        state = IF call[w].kept THEN "partial" ELSE "deleted"
  OBVIOUS
<1>2. /\ UpdateJob(call[w].res, state, 0)
      /\ call[w].pc = "finish" /\ call' = [call EXCEPT ![w] = IdleCall]
      /\ UNCHANGED <<kind, copies, policy, hold>>
  BY <1>1 DEF FinishJob
<1>3. state = "deleted" => copies[call[w].res] = {}
  BY <1>1, <1>2 DEF IInv, CallsInv, CallInv
<1>4. IdleCall \in Call /\ CallInv(IdleCall, copies, job')
  BY IdleInv DEF IdleCall, Call
<1>5. QED BY <1>1, <1>2, <1>3, <1>4, UpdateStep DEF JobStates, Executing

LEMMA FailStep ==
  ASSUME IInv, NEW w \in Workers, FailJob(w)
  PROVE  IInv'
<1>1. PICK state \in {"failed", "partial"} : state = Outcome(call[w].attempt)
  BY DEF Outcome
<1>2. /\ UpdateJob(call[w].res, state, 1)
      /\ call[w].pc = "fail" /\ call' = [call EXCEPT ![w] = IdleCall]
      /\ UNCHANGED <<kind, copies, policy, hold>>
  BY <1>1 DEF FailJob
<1>3. /\ call[w].attempt <= job[call[w].res].attempt
      /\ call[w].attempt \in Nat /\ job[call[w].res].attempt \in Nat
  BY <1>2, CallFacts DEF Counting, Executing, Call, Job
<1>4. state = "failed" => job[call[w].res].attempt + 1 >= MaxAttempts
  BY <1>1, <1>3, BudgetType DEF Outcome
<1>5. IdleCall \in Call /\ CallInv(IdleCall, copies, job')
  BY IdleInv DEF IdleCall, Call
<1>6. QED BY <1>1, <1>2, <1>4, <1>5, UpdateStep DEF JobStates, Executing

\* Policies and holds do not touch the calls, the jobs or the copies.
LEMMA AdminStep ==
  ASSUME IInv, TypeOK', UNCHANGED <<kind, copies, job, call>>
  PROVE  IInv'
<1>1. CallsInv'
  BY DEF IInv, CallsInv
<1>2. CopiesKnown' /\ DeletedIsGone' /\ FailedIsSpent'
  BY DEF IInv, CopiesKnown, DeletedIsGone, FailedIsSpent, InState
<1>3. QED BY <1>1, <1>2 DEF IInv

LEMMA InvStep == IInv /\ [Next]_vars => IInv'
<1> SUFFICES ASSUME IInv, [Next]_vars PROVE IInv'
  OBVIOUS
<1>1. ASSUME NEW r \in Resources, NEW p \in {"retain", "auto_delete"}, SetPolicy(kind[r], p)
      PROVE  IInv'
  <2>1. TypeOK'
    BY <1>1 DEF SetPolicy, IInv, TypeOK
  <2>2. QED BY <1>1, <2>1, AdminStep DEF SetPolicy
<1>2. ASSUME NEW h \in Holds, NEW scope \in SUBSET Resources, CreateHold(h, scope)
      PROVE  IInv'
  <2>1. [scope |-> scope, active |-> TRUE] \in Hold
    BY DEF Hold
  <2>2. TypeOK'
    BY <1>2, <2>1 DEF CreateHold, IInv, TypeOK
  <2>3. QED BY <1>2, <2>2, AdminStep DEF CreateHold
<1>3. ASSUME NEW h \in Holds, ReleaseHold(h) PROVE IInv'
  <2>1. hold \in [Holds -> Hold \cup {NoHold}] /\ hold[h] \in Hold
    BY <1>3 DEF ReleaseHold, IInv, TypeOK
  <2>2. [hold[h] EXCEPT !.active = FALSE] \in Hold
    BY <2>1 DEF Hold
  <2>3. hold' = [hold EXCEPT ![h] = [hold[h] EXCEPT !.active = FALSE]]
    BY <1>3, <2>1 DEF ReleaseHold
  <2>4. TypeOK'
    BY <1>3, <2>1, <2>2, <2>3 DEF ReleaseHold, IInv, TypeOK
  <2>5. QED BY <1>3, <2>4, AdminStep DEF ReleaseHold
<1>4. ASSUME NEW w \in Workers, NEW r \in Resources, NEW force \in BOOLEAN,
             RequestDelete(w, r, force)
      PROVE  IInv'
  BY <1>4, RequestSteps
<1>5. ASSUME NEW w \in Workers, NEW r \in Resources, ExecuteJob(w, r) \/ RetryJob(w, r)
      PROVE  IInv'
  BY <1>5, ReadSteps, RetryStep DEF ExecuteJob
<1>6. ASSUME NEW w \in Workers, Continue(w) PROVE IInv'
  <2>1. ASSUME ExecuteAgain(w) PROVE IInv'
    <3>1. PICK r \in Resources : r = call[w].res
      BY <2>1, CallFacts DEF ExecuteAgain
    <3>2. QED BY <2>1, <3>1, ReadSteps DEF ExecuteAgain
  <2>2. QED BY <1>6, <2>1, GateStep, CreateStep, MarkStep, EraseStep, ErrorSteps, RedactStep,
               FinishStep, FailStep DEF Continue
<1>7. ASSUME NEW w \in Workers, Abandon(w) PROVE IInv'
  BY <1>7, IdleStep DEF Abandon
<1>8. CASE UNCHANGED vars
  <2>1. TypeOK'
    BY <1>8 DEF vars, IInv, TypeOK
  <2>2. QED BY <1>8, <2>1, AdminStep DEF vars
<1>9. QED BY <1>1, <1>2, <1>3, <1>4, <1>5, <1>6, <1>7, <1>8 DEF Next

-----------------------------------------------------------------------------
(* Theorems. *)

LEMMA InvHolds == Spec => []IInv
<1>1. Init => IInv
  BY InvInit
<1>2. IInv /\ [Next]_vars => IInv'
  BY InvStep
<1>3. QED BY <1>1, <1>2, PTL DEF Spec

\* The rows of the retention tables, the copies and the calls keep their types; a job's
\* state is one of the five DeletionStates the code writes.
THEOREM LifecycleTypeCorrect == Spec => []TypeOK
<1>1. IInv => TypeOK
  BY DEF IInv
<1>2. QED BY <1>1, InvHolds, PTL

\* A deletion job never claims a removal that did not happen (execute_deletion,
\* _final_state): however executions, retries and failures of it interleave, a job in state
\* deleted has no copy left.
THEOREM DeletedIsGoneHolds == Spec => []DeletedIsGone
<1>1. IInv => DeletedIsGone
  BY DEF IInv
<1>2. QED BY <1>1, InvHolds, PTL

\* A job is never given up before its budget is spent (_handle_adapter_failure), although
\* the attempt it compares may be old when it is written.
THEOREM FailedIsSpentHolds == Spec => []FailedIsSpent
<1>1. IInv => FailedIsSpent
  BY DEF IInv
<1>2. QED BY <1>1, InvHolds, PTL

\* A step of an execution is a step on its resource, and on no other.
LEMMA ForeignStep ==
  ASSUME TypeOK, CallsInv, NEW r \in Resources, Untouched(r), NEW w \in Workers,
         Continue(w) \/ Abandon(w)
  PROVE  Untouched(r)'
<1>1. call[w].res # r /\ call[w].pc # "idle" /\ call[w] \in Call
  BY DEF Untouched, TypeOK, Continue, Abandon, RetentionGate, CreateJob, StartJob, Erase,
         EraseError, EraseRaises, Redact, FinishJob, FailJob, ResetJob, ExecuteAgain
<1>2. PICK s \in Resources : s = call[w].res /\ s # r
  BY <1>1 DEF CallsInv, CallInv
<1>3. copies \in [Resources -> SUBSET {"main", "event"}]
      /\ job \in [Resources -> Job \cup {NoJob}] /\ call \in [Workers -> Call]
  BY DEF TypeOK
<1>4. kind' = kind
  BY DEF Continue, Abandon, RetentionGate, CreateJob, StartJob, Erase,
         EraseError, EraseRaises, Redact, FinishJob, FailJob, ResetJob, ExecuteAgain, Read
<1>5. copies'[r] = copies[r]
  BY <1>2, <1>3 DEF Continue, Abandon, RetentionGate, CreateJob, StartJob, Erase,
         EraseError, EraseRaises, Redact, FinishJob, FailJob, ResetJob, ExecuteAgain, Read
<1>6. job'[r] = job[r]
  BY <1>2, <1>3 DEF Continue, Abandon, RetentionGate, CreateJob, StartJob, Erase, UpdateJob,
         EraseError, EraseRaises, Redact, FinishJob, FailJob, ResetJob, ExecuteAgain, Read
<1>7. IdleCall.res # r
  BY SentinelType DEF IdleCall
<1>8. call'[w].res # r
  <2>1. CASE ExecuteAgain(w)
    BY <1>2, <1>3, <1>7, <2>1 DEF ExecuteAgain, Read, IdleCall
  <2>2. CASE RetentionGate(w) \/ CreateJob(w) \/ StartJob(w) \/ EraseRaises(w) \/ FinishJob(w)
             \/ FailJob(w) \/ ResetJob(w) \/ Abandon(w)
    BY <1>1, <1>3, <1>7, <2>2 DEF Abandon, RetentionGate, CreateJob, StartJob, EraseRaises,
         FinishJob, FailJob, ResetJob, To, Call
  <2>3. CASE Erase(w) \/ EraseError(w) \/ Redact(w)
    BY <1>1, <1>3, <2>3 DEF Erase, EraseError, Redact, AfterMain, Call
  <2>4. QED BY <2>1, <2>2, <2>3 DEF Continue
<1>9. \A v \in Workers \ {w} : call'[v] = call[v]
  BY <1>3 DEF Continue, Abandon, RetentionGate, CreateJob, StartJob, Erase, To, AfterMain,
         EraseError, EraseRaises, Redact, FinishJob, FailJob, ResetJob, ExecuteAgain, Read
<1>10. QED BY <1>4, <1>5, <1>6, <1>8, <1>9 DEF Untouched

\* A call that begins names its resource.
LEMMA BeginStep ==
  ASSUME TypeOK, NEW r \in Resources, Untouched(r), NEW w \in Workers, NEW s \in Resources,
         NEW c, c.res = s \/ c.res = Nothing, s # r, call' = [call EXCEPT ![w] = c],
         UNCHANGED <<kind, copies, job>>
  PROVE  Untouched(r)'
<1>1. call'[w].res # r
  BY SentinelType DEF TypeOK
<1>2. \A v \in Workers \ {w} : call'[v] = call[v]
  BY DEF TypeOK
<1>3. QED BY <1>1, <1>2 DEF Untouched

LEMMA FreezeStep ==
  IInv /\ [Next]_vars => \A r \in Resources : Held(r) /\ Untouched(r) => Untouched(r)'
<1> SUFFICES ASSUME IInv, [Next]_vars, NEW r \in Resources, Held(r), Untouched(r)
             PROVE  Untouched(r)'
  OBVIOUS
<1>0. TypeOK /\ CallsInv
  BY DEF IInv
<1>1. CASE UNCHANGED <<kind, copies, job, call>>
  BY <1>1 DEF Untouched
<1>2. ASSUME NEW w \in Workers, NEW s \in Resources, NEW force \in BOOLEAN,
             RequestDelete(w, s, force)
      PROVE  Untouched(r)'
  <2>1. s # r
    BY <1>2 DEF RequestDelete
  <2> DEFINE c == [IdleCall EXCEPT !.pc = "retention", !.res = s, !.force = force]
  <2>2. c.res = s /\ call' = [call EXCEPT ![w] = c] /\ UNCHANGED <<kind, copies, job>>
    BY <1>2 DEF RequestDelete, IdleCall
  <2>3. QED BY <1>0, <2>1, <2>2, BeginStep
<1>3. ASSUME NEW w \in Workers, NEW s \in Resources, ExecuteJob(w, s)
      PROVE  Untouched(r)'
  <2>1. s # r
    BY <1>3 DEF ExecuteJob, Read, Untouched
  <2> DEFINE c == IF job[s].state \in Terminal THEN IdleCall
                  ELSE [IdleCall EXCEPT !.pc = "start", !.res = s, !.attempt = job[s].attempt]
  <2>2. (c.res = s \/ c.res = Nothing) /\ call' = [call EXCEPT ![w] = c]
        /\ UNCHANGED <<kind, copies, job>>
    BY <1>3 DEF ExecuteJob, Read, IdleCall
  <2>3. PICK d : d = c
    OBVIOUS
  <2>4. QED BY <1>0, <2>1, <2>2, <2>3, BeginStep
<1>4. ASSUME NEW w \in Workers, NEW s \in Resources, RetryJob(w, s)
      PROVE  Untouched(r)'
  <2>1. s # r
    BY <1>4 DEF RetryJob, Untouched
  <2> DEFINE c == [IdleCall EXCEPT !.pc = "reset", !.res = s]
  <2>2. c.res = s /\ call' = [call EXCEPT ![w] = c] /\ UNCHANGED <<kind, copies, job>>
    BY <1>4 DEF RetryJob, IdleCall
  <2>3. QED BY <1>0, <2>1, <2>2, BeginStep
<1>5. ASSUME NEW w \in Workers, Continue(w) \/ Abandon(w) PROVE Untouched(r)'
  BY <1>0, <1>5, ForeignStep
<1>6. QED
  BY <1>1, <1>2, <1>3, <1>4, <1>5 DEF Next, vars, SetPolicy, CreateHold, ReleaseHold

\* The hold gate of delete() protects a resource nobody has asked for: as long as a hold
\* covers it, no call is begun for it, no job is created and no copy of it goes.
THEOREM HoldFreezesHolds == Spec => HoldFreezes
<1>1. IInv /\ [Next]_vars =>
        [\A r \in Resources : Held(r) /\ Untouched(r) /\ Held(r)' => Untouched(r)']_vars
  BY FreezeStep
<1>2. QED BY <1>1, InvHolds, PTL DEF Spec, HoldFreezes

\* Only the updates of an execution and the upsert of a request write a job.
LEMMA WriterStep ==
  ASSUME IInv, NEW w \in Workers, Continue(w), job' # job
  PROVE  \/ CreateJob(w)
         \/ /\ call[w].pc \in Executing /\ copies' = copies
            /\ \E state \in JobStates, more \in {0, 1} : UpdateJob(call[w].res, state, more)
<1>1. CASE StartJob(w) \/ ResetJob(w)
  BY <1>1 DEF StartJob, ResetJob, Executing, JobStates
<1>2. CASE FinishJob(w)
  <2>1. PICK state \in JobStates : state = IF call[w].kept THEN "partial" ELSE "deleted"
    BY DEF JobStates
  <2>2. QED BY <1>2, <2>1 DEF FinishJob, Executing
<1>3. CASE FailJob(w)
  <2>1. PICK state \in JobStates : state = Outcome(call[w].attempt)
    BY DEF Outcome, JobStates
  <2>2. QED BY <1>3, <2>1 DEF FailJob, Executing
<1>4. QED
  BY <1>1, <1>2, <1>3 DEF Continue, RetentionGate, Erase, EraseError, EraseRaises, Redact,
     ExecuteAgain, Read

LEMMA KeptStep ==
  IInv /\ [Next]_vars =>
    [\A r \in Resources : job[r] # NoJob => /\ job'[r] # NoJob
                                            /\ job'[r].attempt >= job[r].attempt]_job
<1> SUFFICES ASSUME IInv, [Next]_vars, job' # job, NEW r \in Resources, job[r] # NoJob
             PROVE  job'[r] # NoJob /\ job'[r].attempt >= job[r].attempt
  OBVIOUS
<1>1. PICK w \in Workers : Continue(w)
  BY DEF Next, vars, SetPolicy, CreateHold, ReleaseHold, RequestDelete, ExecuteJob, Read,
         RetryJob, Abandon
<1>2. job \in [Resources -> Job \cup {NoJob}] /\ job[r].attempt \in Nat
  BY DEF IInv, TypeOK, Job
<1>3. CASE CreateJob(w)
  <2>1. PICK s \in Resources : s = call[w].res
    BY <1>3, CallFacts DEF CreateJob
  <2>2. job' = [job EXCEPT ![s] = Upserted(s)]
    BY <1>3, <2>1 DEF CreateJob
  <2>3. job'[r] = job[r]
    BY <1>2, <2>2 DEF Upserted
  <2>4. QED BY <1>2, <2>3
<1>4. CASE /\ call[w].pc \in Executing /\ copies' = copies
           /\ \E state \in JobStates, more \in {0, 1} : UpdateJob(call[w].res, state, more)
  <2>1. PICK s \in Resources : s = call[w].res /\ job[s] # NoJob
    BY <1>4, CallFacts DEF Executing
  <2>2. PICK state \in JobStates, more \in {0, 1} : UpdateJob(s, state, more)
    BY <1>4, <2>1
  <2>3. Onward(copies, job, copies', job')
    BY <1>4, <2>1, <2>2, UpdateMoves DEF IInv
  <2>4. QED BY <2>3 DEF Onward
<1>5. QED BY <1>1, <1>3, <1>4, WriterStep

\* create_deletion_job's ON CONFLICT clause keeps the row that is there: no request and no
\* retry gives attempts back, so a budget that is spent stays spent.
THEOREM JobIsKeptHolds == Spec => JobIsKept
<1>1. IInv /\ [Next]_vars =>
        [\A r \in Resources : job[r] # NoJob => /\ job'[r] # NoJob
                                                /\ job'[r].attempt >= job[r].attempt]_job
  BY KeptStep
<1>2. QED BY <1>1, InvHolds, PTL DEF Spec, JobIsKept
=============================================================================
