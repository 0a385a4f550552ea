----------------------------- MODULE ApiProofs -----------------------------
(***************************************************************************)
(* Proofs about Api, for every set of clients and tasks, every size of     *)
(* bucket and history, and every bound on the clock and the calls.         *)
(***************************************************************************)
EXTENDS Api, SequenceTheorems, TLAPS

-----------------------------------------------------------------------------
(* The rate limiter.  RateIsKept is not inductive: what the bucket still holds must be
   accounted for, for every request that it let through (Balanced). *)

\* The requests of s from any of them on, and tokens more, are within the rate at instant at.
Accounted(s, tokens, at) ==
    \A i \in DOMAIN s : Len(s) - i + 1 + tokens <= Burst + Rate * (at - s[i])

\* RateIsKept for the requests of one bucket.
WithinRate(s) == \A i, j \in DOMAIN s : i <= j => j - i + 1 <= Burst + Rate * (s[j] - s[i])

Balanced(k) == IF bucket[k] = NoBucket THEN served[k] = <<>>
               ELSE /\ bucket[k].last <= now
                    /\ Accounted(served[k], bucket[k].tokens, bucket[k].last)

RateType == /\ now \in Nat
            /\ bucket \in [Keys -> Bucket \cup {NoBucket}]
            /\ served \in [Keys -> Seq(Nat)]

RateInv == /\ RateType
           /\ \A k \in Keys : Balanced(k)
           /\ RateIsKept

LEMMA BucketConstants ==
  /\ Burst \in Nat \ {0} /\ Rate \in Nat \ {0}
  /\ \A c \in Clients : Key(c) \in Keys
  BY ApiAssumption DEF Key, Keys

\* The refill between two instants, taken in two steps.
LEMMA RefillAdds ==
  ASSUME NEW r \in Nat, NEW a \in Int, NEW b \in Int, NEW c \in Int
  PROVE  r * (a - c) = r * (b - c) + (a - b) * r
  BY SMT

\* A bound on what a bucket holds carries over to what its refill gives.
LEMMA RefillKeepsBound ==
  ASSUME NEW passed \in Int, NEW tokens \in Int, NEW refilled \in Int, NEW fresh \in Int,
         NEW before \in Int, NEW after \in Int,
         passed + tokens <= Burst + before, after = before + fresh, refilled <= tokens + fresh
  PROVE  passed + refilled <= Burst + after
  BY BucketConstants

\* What the next request of k finds in its bucket.
LEMMA RefilledBalance ==
  ASSUME RateInv, NEW k \in Keys
  PROVE  LET b == BucketOf(k)
         IN /\ Refilled(b) \in Nat /\ Refilled(b) <= Burst
            /\ Accounted(served[k], Refilled(b), now)
<1>1. served[k] \in Seq(Nat) /\ now \in Nat /\ Balanced(k)
  BY DEF RateInv, RateType
<1>2. CASE bucket[k] = NoBucket
  <2>1. served[k] = <<>>
    BY <1>1, <1>2 DEF Balanced
  <2>2. Refilled(BucketOf(k)) = Least(Burst, Burst + 0 * Rate)
    BY <1>1, <1>2 DEF Refilled, BucketOf
  <2>3. Refilled(BucketOf(k)) = Burst
    BY <2>2, BucketConstants DEF Least
  <2> QED BY <2>1, <2>3, BucketConstants DEF Accounted
<1>3. CASE bucket[k] # NoBucket
  <2> DEFINE b == bucket[k]
             fresh == (now - b.last) * Rate
  <2>1. b \in Bucket /\ BucketOf(k) = b /\ b.last <= now
    BY <1>1, <1>3 DEF BucketOf, Balanced, RateInv, RateType
  <2>2. b.tokens \in Nat /\ b.last \in Nat
    BY <2>1 DEF Bucket
  <2>3. fresh \in Nat
    <3>1. now - b.last \in Nat
      BY <1>1, <2>1, <2>2
    <3> QED BY <3>1, BucketConstants
  <2>4. Refilled(b) = IF Burst <= b.tokens + fresh THEN Burst ELSE b.tokens + fresh
    BY DEF Refilled, Least
  <2>5. Refilled(b) \in Nat /\ Refilled(b) <= Burst /\ Refilled(b) <= b.tokens + fresh
    BY <2>2, <2>3, <2>4, BucketConstants
  <2>6. ASSUME NEW i \in DOMAIN served[k]
        PROVE  Len(served[k]) - i + 1 + Refilled(b) <= Burst + Rate * (now - served[k][i])
    <3>1. served[k][i] \in Nat /\ i \in Nat /\ Len(served[k]) \in Nat
      BY <1>1, <2>6
    <3>2. Rate * (now - served[k][i]) = Rate * (b.last - served[k][i]) + fresh
      <4>1. now \in Int /\ b.last \in Int /\ served[k][i] \in Int /\ Rate \in Nat
        BY <1>1, <2>2, <3>1, BucketConstants
      <4> QED BY <4>1, RefillAdds, Zenon
    <3>3. Len(served[k]) - i + 1 + b.tokens <= Burst + Rate * (b.last - served[k][i])
      BY <1>1, <1>3, <2>6 DEF Balanced, Accounted
    <3>4. Rate * (b.last - served[k][i]) \in Int
      BY <2>2, <3>1, BucketConstants
    <3>p. Len(served[k]) - i + 1 \in Int
      BY <3>1
    <3>5. PICK passed \in Int : passed = Len(served[k]) - i + 1
      BY <3>p, Zenon
    <3>6. PICK before \in Int : before = Rate * (b.last - served[k][i])
      BY <3>4
    <3>7. Rate * (now - served[k][i]) \in Int
      BY <1>1, <3>1, BucketConstants
    <3>8. PICK after \in Int : after = Rate * (now - served[k][i])
      BY <3>7
    <3> HIDE DEF fresh, b
    <3>9. passed + b.tokens <= Burst + before /\ after = before + fresh
      BY <3>2, <3>3, <3>5, <3>6, <3>8
    <3>10. passed + Refilled(b) <= Burst + after
      BY <2>2, <2>3, <2>5, <3>9, RefillKeepsBound
    <3> QED BY <3>5, <3>8, <3>10
  <2> QED BY <2>1, <2>5, <2>6 DEF Accounted
<1> QED BY <1>2, <1>3

\* One more request, let through with a token that was there.
LEMMA AppendKeepsRate ==
  ASSUME NEW s \in Seq(Nat), NEW t \in Nat, NEW r \in Nat, 1 <= r, r <= Burst,
         Accounted(s, r, t), WithinRate(s)
  PROVE  /\ Append(s, t) \in Seq(Nat)
         /\ Accounted(Append(s, t), r - 1, t)
         /\ WithinRate(Append(s, t))
<1> DEFINE n == Len(s)
           w == Append(s, t)
<1>1. /\ n \in Nat /\ w \in Seq(Nat) /\ Len(w) = n + 1 /\ DOMAIN w = 1..(n + 1) /\ DOMAIN s = 1..n
      /\ w[n + 1] = t /\ \A i \in 1..n : w[i] = s[i] /\ s[i] \in Nat
  OBVIOUS
<1> HIDE DEF n, w
<1>2. Rate * (t - t) = 0
  BY BucketConstants
<1>3. ASSUME NEW i \in 1..n
      PROVE  /\ n - i + 1 + r <= Burst + Rate * (t - w[i])
             /\ Rate * (t - w[i]) \in Int
  <2>1. i \in DOMAIN s /\ w[i] = s[i] /\ t - w[i] \in Int
    BY <1>1, <1>3
  <2>2. n - i + 1 + r <= Burst + Rate * (t - s[i])
    BY <2>1 DEF Accounted, n
  <2>3. \A x \in Int : Rate * x \in Int
    BY BucketConstants
  <2> QED BY <2>1, <2>2, <2>3
<1>4. Accounted(w, r - 1, t)
  <2> SUFFICES ASSUME NEW i \in DOMAIN w
               PROVE  Len(w) - i + 1 + (r - 1) <= Burst + Rate * (t - w[i])
    BY DEF Accounted
  <2>1. CASE i = n + 1
    BY <2>1, <1>1, <1>2, BucketConstants
  <2>2. CASE i # n + 1
    <3>1. i \in 1..n
      BY <1>1, <2>2
    <3>2. n - i + 1 + r <= Burst + Rate * (t - w[i]) /\ Rate * (t - w[i]) \in Int
      BY <1>3, <3>1
    <3>3. PICK a \in Int : a = Rate * (t - w[i])
      BY <3>2
    <3> QED BY <1>1, <3>1, <3>2, <3>3, BucketConstants
  <2> QED BY <2>1, <2>2
<1>5. WithinRate(w)
  <2> SUFFICES ASSUME NEW i \in DOMAIN w, NEW j \in DOMAIN w, i <= j
               PROVE  j - i + 1 <= Burst + Rate * (w[j] - w[i])
    BY DEF WithinRate
  <2>1. CASE j = n + 1 /\ i = n + 1
    BY <2>1, <1>1, <1>2, BucketConstants
  <2>2. CASE j = n + 1 /\ i # n + 1
    <3>1. i \in 1..n
      BY <1>1, <2>2
    <3>2. n - i + 1 + r <= Burst + Rate * (t - w[i]) /\ Rate * (t - w[i]) \in Int
      BY <1>3, <3>1
    <3>3. PICK a \in Int : a = Rate * (t - w[i])
      BY <3>2
    <3>4. w[j] = t
      BY <1>1, <2>2
    <3> QED BY <1>1, <2>2, <3>1, <3>2, <3>3, <3>4, BucketConstants
  <2>3. CASE j # n + 1
    <3>1. i \in DOMAIN s /\ j \in DOMAIN s /\ w[i] = s[i] /\ w[j] = s[j]
      BY <1>1, <2>3
    <3> QED BY <3>1 DEF WithinRate
  <2> QED BY <2>1, <2>2, <2>3
<1> QED BY <1>1, <1>4, <1>5 DEF w

\* After a request of c, let through or not, its bucket was refilled to this moment.
LEMMA RequestStep ==
  ASSUME RateInv, NEW c \in Clients, Throttled(c) \/ Admitted(c), now' = now
  PROVE  RateInv'
<1> PICK k \in Keys : k = Key(c)
  BY BucketConstants
<1> PICK n \in Nat : n = now
  BY DEF RateInv, RateType
<1>1. /\ bucket \in [Keys -> Bucket \cup {NoBucket}] /\ served \in [Keys -> Seq(Nat)]
      /\ \A q \in Keys : Balanced(q) /\ WithinRate(served[q])
  BY DEF RateInv, RateType, RateIsKept, WithinRate
<1>2. /\ Refilled(BucketOf(k)) \in Nat /\ Refilled(BucketOf(k)) <= Burst
      /\ Accounted(served[k], Refilled(BucketOf(k)), n)
  BY RefilledBalance
<1>3. PICK r \in Nat : r = Refilled(BucketOf(k))
  BY <1>2
<1>4. ASSUME NEW tokens \in Nat, bucket' = [bucket EXCEPT ![k] = [tokens |-> tokens, last |-> n]],
             NEW s \in Seq(Nat), served' = [served EXCEPT ![k] = s],
             Accounted(s, tokens, n), WithinRate(s)
      PROVE  RateInv'
  <2>1. [tokens |-> tokens, last |-> n] \in Bucket
    BY DEF Bucket
  <2>2. /\ bucket' \in [Keys -> Bucket \cup {NoBucket}] /\ served' \in [Keys -> Seq(Nat)]
        /\ bucket'[k] = [tokens |-> tokens, last |-> n] /\ served'[k] = s
        /\ \A q \in Keys \ {k} : bucket'[q] = bucket[q] /\ served'[q] = served[q]
    BY <1>1, <1>4, <2>1
  <2>3. bucket'[k] # NoBucket
    BY <2>1, <2>2, ApiAssumption
  <2>4. ASSUME NEW q \in Keys
        PROVE  /\ WithinRate(served'[q])
               /\ IF bucket'[q] = NoBucket THEN served'[q] = <<>>
                  ELSE bucket'[q].last <= now'
                       /\ Accounted(served'[q], bucket'[q].tokens, bucket'[q].last)
    <3>1. CASE q = k
      BY <1>4, <2>2, <2>3, <3>1
    <3>2. CASE q # k
      BY <1>1, <2>2, <3>2 DEF Balanced
    <3> QED BY <3>1, <3>2
  <2> QED BY <2>2, <2>4 DEF RateInv, RateType, Balanced, RateIsKept, WithinRate
<1>5. CASE Throttled(c)
  <2>1. served' = [served EXCEPT ![k] = served[k]] /\ served[k] \in Seq(Nat)
    BY <1>1, <1>5 DEF Throttled
  <2> QED BY <1>1, <1>2, <1>3, <1>4, <1>5, <2>1 DEF Throttled
<1>6. CASE Admitted(c)
  <2>1. r >= 1 /\ r - 1 \in Nat
    BY <1>3, <1>6 DEF Admitted
  <2>2. /\ bucket' = [bucket EXCEPT ![k] = [tokens |-> r - 1, last |-> n]]
        /\ served' = [served EXCEPT ![k] = Append(served[k], n)]
    BY <1>3, <1>6 DEF Admitted
  <2>3. /\ Append(served[k], n) \in Seq(Nat) /\ Accounted(Append(served[k], n), r - 1, n)
        /\ WithinRate(Append(served[k], n))
    BY <1>1, <1>2, <1>3, <2>1, AppendKeepsRate
  <2> QED BY <1>4, <2>1, <2>2, <2>3
<1> QED BY <1>5, <1>6

\* Only requests that pass the middleware, and time, touch what the limiter keeps.
LEMMA LimiterSteps ==
  ASSUME [Next]_vars
  PROVE  \/ UNCHANGED <<bucket, served>> /\ (now' = now \/ now' = now + 1)
         \/ \E c \in Clients : (Throttled(c) \/ Admitted(c)) /\ now' = now
<1>1. CASE UNCHANGED vars
  BY <1>1 DEF vars
<1>2. CASE Tick
  BY <1>2 DEF Tick
<1>3. CASE \E c \in Clients : \/ \E op \in Ops \ {"poll"}, t \in Tasks \cup {NoTask} : Send(c, op, t)
                              \/ PollAgain(c)
  BY <1>3 DEF Send, PollAgain
<1>4. CASE \E c \in Clients : Serve(c)
  BY <1>4 DEF Serve, TooLarge, Refuse, Submit, Decide, SubmitForm, DecideForm, ToPool, Status, Retry
<1>5. CASE \E t \in Tasks : \/ Wait(t)
                            \/ \E s \in Ended : End(t, s)
                            \/ \E i \in DOMAIN history[t] : Erase(t, i)
  BY <1>5 DEF Wait, End, Erase
<1>6. CASE (\E s \in Clients \cup {Loop} : Deliver(s)) \/ Swallow
  BY <1>6 DEF Deliver, Attempt, Record, Swallow
<1> QED BY <1>1, <1>2, <1>3, <1>4, <1>5, <1>6 DEF Next

LEMMA RateInit == Init => RateInv
BY DEF Init, RateInv, RateType, Balanced, RateIsKept

LEMMA RateStep == RateInv /\ [Next]_vars => RateInv'
<1> SUFFICES ASSUME RateInv, [Next]_vars PROVE RateInv'
  OBVIOUS
<1>1. CASE UNCHANGED <<bucket, served>> /\ (now' = now \/ now' = now + 1)
  <2>1. RateType' /\ RateIsKept'
    BY <1>1 DEF RateInv, RateType, RateIsKept
  <2>2. ASSUME NEW k \in Keys PROVE Balanced(k)'
    <3>1. bucket[k] \in Bucket \cup {NoBucket} /\ now \in Nat /\ Balanced(k)
      BY DEF RateInv, RateType
    <3>2. bucket[k] # NoBucket => bucket[k].last \in Nat
      BY <3>1 DEF Bucket
    <3>3. bucket[k] # NoBucket => bucket[k].last <= now'
      BY <1>1, <3>1, <3>2 DEF Balanced
    <3> QED BY <1>1, <3>1, <3>3 DEF Balanced, Accounted
  <2> QED BY <2>1, <2>2 DEF RateInv
<1>2. CASE \E c \in Clients : (Throttled(c) \/ Admitted(c)) /\ now' = now
  BY <1>2, RequestStep
<1> QED BY <1>1, <1>2, LimiterSteps

\* Whatever pauses there are, no stretch of a caller's requests that were let through is
\* longer than a burst and what was refilled meanwhile (TokenBucket.consume).
THEOREM RateHolds == Spec => []RateIsKept
<1>1. RateInv => RateIsKept
  BY DEF RateInv
<1> QED BY RateInit, RateStep, <1>1, PTL DEF Spec

-----------------------------------------------------------------------------
(* The clients, the tasks and the webhooks. *)

Call == [step : {"idle", "sent", "asleep", "pool"}, op : Ops,
         task : Tasks \cup {NoTask}, polls : Nat]

Row == [state : {"none", "running", "waiting"} \cup Ended, gate : {"none"} \cup Choices]

Job == [step : {"no", "try", "record"}, task : Tasks \cup {NoTask}, state : {"none"} \cup Ended,
        id : Nat, tries : Nat, ok : BOOLEAN]

Entry == [id : Nat, ok : BOOLEAN, state : Ended]

Message == [task : Tasks, id : Nat, state : Ended]

EndedAs(t, e) == t \in Tasks /\ e \in Ended /\ task[t].state = e

\* A call that is about a task names it, and a decision in it was meant.
CallInv == /\ call \in [Clients -> Call]
           /\ \A c \in Clients :
                 /\ \/ call[c].step = "idle" \/ call[c].task \in Tasks
                    \/ call[c].step = "sent" /\ call[c].op = "submit"
                 /\ call[c].op \in Choices => <<call[c].task, call[c].op>> \in meant

\* What a gate is told was meant, by a host that tells apart what its users decide.
Meant(t, d) == /\ \E e \in Choices : <<t, e>> \in meant
               /\ Hubs = {} => <<t, d>> \in meant

\* ApprovedByIntent needs to know of the gates that wait, and that an end follows its gate.
TaskInv == /\ task \in [Tasks -> Row]
           /\ \A t \in Tasks : /\ task[t].gate \in Choices => Meant(t, task[t].gate)
                               /\ task[t].state = "succeeded" => task[t].gate = "approve"

\* HistoryIsTrue needs to know that what a delivery, and so a record of one, carries is how its
\* task has ended, and that what is yet to be recorded as delivered has arrived.
JobInv == /\ ids \in Nat
          /\ post \in [Clients \cup {Loop} -> Job]
          /\ \A s \in Clients \cup {Loop} :
                /\ post[s].step # "no" => EndedAs(post[s].task, post[s].state)
                /\ post[s].ok => \E m \in inbox : m.task = post[s].task /\ m.id = post[s].id

RecordInv == /\ history \in [Tasks -> Seq(Entry)]
             /\ \A t \in Tasks :
                   \A i \in DOMAIN history[t] :
                      /\ EndedAs(t, history[t][i].state)
                      /\ history[t][i].ok => \E m \in inbox : m.task = t /\ m.id = history[t][i].id

InboxInv == inbox \subseteq {m \in Message : m.state = task[m.task].state}

HookInv == JobInv /\ RecordInv /\ InboxInv

ApiInv == CallInv /\ TaskInv /\ HookInv

LEMMA InitInv == Init => ApiInv
<1> SUFFICES ASSUME Init PROVE ApiInv
  OBVIOUS
<1>1. CallInv
  BY DEF Init, CallInv, Call, Idle, Ops, Choices
<1>2. TaskInv
  BY DEF Init, TaskInv, Row, Choices
<1>3. HookInv
  BY DEF Init, HookInv, JobInv, RecordInv, InboxInv, Job, Quiet
<1> QED BY <1>1, <1>2, <1>3 DEF ApiInv

(* What the clients wait for. *)

\* The call of one client changes to x.
LEMMA OneCall ==
  ASSUME CallInv, NEW c \in Clients, NEW x \in Call, call' = [call EXCEPT ![c] = x],
         meant \subseteq meant',
         x.step = "idle" \/ x.task \in Tasks \/ (x.step = "sent" /\ x.op = "submit"),
         x.op \in Choices => <<x.task, x.op>> \in meant'
  PROVE  CallInv'
<1>1. /\ call' \in [Clients -> Call] /\ call'[c] = x
      /\ \A d \in Clients \ {c} : call'[d] = call[d]
  BY DEF CallInv
<1> QED BY <1>1 DEF CallInv

LEMMA DropStep ==
  ASSUME CallInv, NEW c \in Clients, Drop(c), meant \subseteq meant'
  PROVE  CallInv'
<1>1. Idle \in Call /\ Idle.step = "idle" /\ Idle.op \notin Choices
  BY DEF Idle, Call, Ops, Choices
<1> QED BY <1>1, OneCall DEF Drop

LEMMA SendCall ==
  ASSUME CallInv, NEW c \in Clients, NEW op \in Ops \ {"poll"}, NEW t \in Tasks \cup {NoTask},
         Send(c, op, t)
  PROVE  CallInv'
<1> DEFINE x == [Idle EXCEPT !.step = "sent", !.op = op, !.task = t]
<1>1. x \in Call /\ x.step = "sent" /\ x.op = op /\ x.task = t
  <2>1. Idle \in Call
    BY DEF Idle, Call, Ops
  <2> QED BY <2>1 DEF Call
<1>2. call' = [call EXCEPT ![c] = x]
  BY DEF Send
<1>3. meant \subseteq meant' /\ (op \in Choices => <<t, op>> \in meant')
  BY DEF Send
<1>4. op = "submit" \/ t \in Tasks
  BY DEF Send
<1> HIDE DEF x
<1> QED BY <1>1, <1>2, <1>3, <1>4, OneCall

\* A client that goes on with what it asked for.
LEMMA GoOn ==
  ASSUME CallInv, NEW c \in Clients, NEW step \in {"sent", "asleep", "pool"},
         NEW op \in {call[c].op, "poll"}, NEW polls \in Nat, call[c].task \in Tasks,
         call' = [call EXCEPT ![c] = [call[c] EXCEPT !.step = step, !.op = op, !.polls = polls]],
         meant' = meant
  PROVE  CallInv'
<1> DEFINE x == [call[c] EXCEPT !.step = step, !.op = op, !.polls = polls]
<1>1. call[c] \in Call
  BY DEF CallInv
<1>2. op \in Ops
  BY <1>1 DEF Call, Ops
<1>3. x \in Call /\ x.op = op /\ x.task = call[c].task /\ x.step = step
  BY <1>1, <1>2 DEF Call
<1>4. x.task \in Tasks
  BY <1>3
<1>5. x.op \in Choices => <<x.task, x.op>> \in meant'
  BY <1>3 DEF CallInv, Choices
<1> HIDE DEF x
<1> QED BY <1>3, <1>4, <1>5, OneCall DEF x

LEMMA CallStep == CallInv /\ [Next]_vars => CallInv'
<1> SUFFICES ASSUME CallInv, [Next]_vars PROVE CallInv'
  OBVIOUS
<1> USE DEF vars
<1>0. ASSUME UNCHANGED <<call, meant>> PROVE CallInv'
  BY <1>0 DEF CallInv
<1>1. CASE UNCHANGED vars \/ Tick \/ Swallow
  BY <1>0, <1>1 DEF Tick, Swallow
<1>2. ASSUME NEW c \in Clients, NEW op \in Ops \ {"poll"}, NEW t \in Tasks \cup {NoTask},
             Send(c, op, t)
      PROVE  CallInv'
  BY <1>2, SendCall
<1>3. ASSUME NEW c \in Clients PROVE call[c] \in Call /\ call[c].polls \in Nat
  BY DEF CallInv, Call
<1>4. ASSUME NEW c \in Clients, PollAgain(c) PROVE CallInv'
  <2>1. /\ call[c] \in Call /\ call[c].polls \in Nat /\ call[c].step = "asleep"
        /\ call[c].task \in Tasks
    BY <1>3, <1>4 DEF PollAgain, CallInv
  <2>2. [[call[c] EXCEPT !.step = "sent"] EXCEPT !.op = "poll"]
          = [call[c] EXCEPT !.step = "sent", !.op = "poll", !.polls = call[c].polls]
    BY <2>1 DEF Call
  <2>3. call' = [call EXCEPT ![c] =
                   [call[c] EXCEPT !.step = "sent", !.op = "poll", !.polls = call[c].polls]]
    BY <1>4, <2>1, <2>2 DEF PollAgain
  <2>4. meant' = meant
    BY <1>4 DEF PollAgain
  <2> QED BY <2>1, <2>3, <2>4, GoOn
<1>5. ASSUME NEW c \in Clients, Serve(c) PROVE CallInv'
  <2>1. CASE TooLarge(c) \/ Refuse(c) \/ Decide(c) \/ SubmitForm(c) \/ DecideForm(c)
    BY <2>1, DropStep DEF TooLarge, Refuse, Decide, SubmitForm, DecideForm
  <2>2. CASE Submit(c)
    <3>1. PICK t \in Tasks, mode \in Modes : Answered(c, t, mode) /\ meant' = meant
      BY <2>2 DEF Submit
    <3>2. CASE Drop(c)
      BY <3>1, <3>2, DropStep
    <3>3. CASE call' = [call EXCEPT ![c] = [Idle EXCEPT !.step = "asleep", !.task = t]]
      <4>1. Idle \in Call /\ Idle.op = "poll"
        BY DEF Idle, Call, Ops
      <4>2. PICK x : x = [Idle EXCEPT !.step = "asleep", !.task = t]
        OBVIOUS
      <4>3. x \in Call /\ x.task = t /\ x.op \notin Choices
        BY <4>1, <4>2 DEF Call, Choices
      <4> QED BY <3>1, <3>3, <4>2, <4>3, OneCall
    <3> QED BY <3>1, <3>2, <3>3 DEF Answered
  <2>3. CASE ToPool(c)
    <3>1. call[c].task \in Tasks /\ meant' = meant
      BY <2>3 DEF ToPool, CallInv
    <3>2. [call[c] EXCEPT !.step = "pool"]
            = [call[c] EXCEPT !.step = "pool", !.op = call[c].op, !.polls = call[c].polls]
      BY <1>3 DEF Call
    <3>3. call' = [call EXCEPT ![c] =
                     [call[c] EXCEPT !.step = "pool", !.op = call[c].op, !.polls = call[c].polls]]
      BY <2>3, <3>2 DEF ToPool
    <3> QED BY <1>3, <3>1, <3>3, GoOn
  <2>4. CASE Status(c)
    <3>1. call[c].task \in Tasks /\ meant' = meant
      BY <2>4 DEF Status, CallInv
    <3>2. CASE Drop(c)
      BY <3>1, <3>2, DropStep
    <3>3. CASE call' = [call EXCEPT ![c].step = "asleep", ![c].polls = @ + 1]
      <4>1. [[call[c] EXCEPT !.step = "asleep"] EXCEPT !.polls = call[c].polls + 1]
              = [call[c] EXCEPT !.step = "asleep", !.op = call[c].op, !.polls = call[c].polls + 1]
        BY <1>3 DEF Call
      <4>2. call' = [call EXCEPT ![c] = [call[c] EXCEPT !.step = "asleep", !.op = call[c].op,
                                                        !.polls = call[c].polls + 1]]
        BY <3>3, <4>1, <1>3 DEF Call, CallInv
      <4>3. call[c].polls + 1 \in Nat
        BY <1>3
      <4> QED BY <3>1, <4>2, <4>3, GoOn
    <3> QED BY <2>4, <3>2, <3>3 DEF Status
  <2>5. CASE Retry(c)
    <3>1. meant' = meant /\ (Drop(c) \/ UNCHANGED call)
      BY <2>5 DEF Retry
    <3> QED BY <1>0, <3>1, DropStep
  <2> QED BY <1>5, <2>1, <2>2, <2>3, <2>4, <2>5 DEF Serve
<1>6. ASSUME NEW t \in Tasks, \/ Wait(t)
                              \/ \E s \in Ended : End(t, s)
                              \/ \E i \in DOMAIN history[t] : Erase(t, i)
      PROVE  CallInv'
  BY <1>0, <1>6 DEF Wait, End, Erase
<1>7. ASSUME NEW s \in Clients \cup {Loop}, Deliver(s) PROVE CallInv'
  <2>1. CASE Attempt(s)
    BY <1>0, <2>1 DEF Attempt
  <2>2. CASE Record(s)
    BY <1>0, <2>2, DropStep DEF Record
  <2> QED BY <1>7, <2>1, <2>2 DEF Deliver
<1> QED BY <1>1, <1>2, <1>4, <1>5, <1>6, <1>7 DEF Next

(* What becomes of the tasks. *)

\* A task that has ended stays as it ended.
EndsKept == \A t \in Tasks : task[t].state \in Ended => task'[t].state = task[t].state

\* The row of one task changes to r.
LEMMA OneTask ==
  ASSUME TaskInv, NEW t \in Tasks, NEW r \in Row, task' = [task EXCEPT ![t] = r],
         meant' = meant, r.gate \in Choices => Meant(t, r.gate),
         r.state = "succeeded" => r.gate = "approve",
         task[t].state \in Ended => r.state = task[t].state
  PROVE  TaskInv' /\ EndsKept
<1>1. /\ task' \in [Tasks -> Row] /\ task'[t] = r
      /\ \A u \in Tasks \ {t} : task'[u] = task[u]
  BY DEF TaskInv
<1>2. ASSUME NEW u \in Tasks
      PROVE  /\ task'[u].gate \in Choices =>
                  /\ \E e \in Choices : <<u, e>> \in meant'
                  /\ Hubs = {} => <<u, task'[u].gate>> \in meant'
             /\ task'[u].state = "succeeded" => task'[u].gate = "approve"
             /\ task[u].state \in Ended => task'[u].state = task[u].state
  <2>1. CASE u = t
    BY <1>1, <2>1 DEF Meant
  <2>2. CASE u # t
    BY <1>1, <2>2 DEF TaskInv, Meant
  <2> QED BY <2>1, <2>2
<1> QED BY <1>1, <1>2 DEF TaskInv, EndsKept, Meant

\* The state of one task changes, by a step that its gate allows.
LEMMA OneState ==
  ASSUME TaskInv, NEW t \in Tasks, NEW s \in {"running", "waiting"} \cup Ended,
         task[t].state \notin Ended, s = "succeeded" => task[t].gate = "approve",
         task' = [task EXCEPT ![t].state = s], meant' = meant
  PROVE  TaskInv' /\ EndsKept
<1> DEFINE r == [task[t] EXCEPT !.state = s]
<1>1. task[t] \in Row
  BY DEF TaskInv
<1>2. r \in Row /\ r.state = s /\ r.gate = task[t].gate
  BY <1>1 DEF Row
<1>3. r.gate \in Choices => Meant(t, r.gate)
  BY <1>2 DEF TaskInv
<1> HIDE DEF r
<1>4. task' = [task EXCEPT ![t] = r]
  BY DEF r
<1> QED BY <1>2, <1>3, <1>4, OneTask

\* A decision reaches the engine.
LEMMA OneDecision ==
  ASSUME TaskInv, NEW t \in Tasks, NEW d \in Choices, Meant(t, d), Taken(t, d), meant' = meant
  PROVE  TaskInv' /\ EndsKept
<1> DEFINE g == IF task[t].state = "waiting" /\ task[t].gate = "none" THEN d ELSE task[t].gate
           r == [task[t] EXCEPT !.gate = g]
<1>1. task[t] \in Row
  BY DEF TaskInv
<1>2. g \in {"none"} \cup Choices
  BY <1>1 DEF Row
<1>3. r \in Row /\ r.state = task[t].state /\ r.gate = g
  BY <1>1, <1>2 DEF Row
<1>4. task' = [task EXCEPT ![t] = r]
  BY DEF Taken
<1>5. g \in Choices => Meant(t, g)
  BY DEF TaskInv
<1>6. task[t].state = "succeeded" => g = "approve"
  BY DEF TaskInv
<1> HIDE DEF g, r
<1> QED BY <1>3, <1>4, <1>5, <1>6, OneTask

LEMMA DecideTask ==
  ASSUME CallInv, TaskInv, NEW c \in Clients, Decide(c) \/ DecideForm(c)
  PROVE  TaskInv' /\ EndsKept
<1> PICK t \in Tasks : t = call[c].task
  BY DEF CallInv, Decide, DecideForm, Choices
<1>1. PICK e \in Choices : e = call[c].op /\ <<t, e>> \in meant
  BY DEF CallInv, Decide, DecideForm
<1>2. ASSUME NEW d \in Choices, Hubs = {} => d = e PROVE Meant(t, d)
  BY <1>1, <1>2 DEF Meant
<1>3. meant' = meant
  BY DEF Decide, DecideForm
<1>4. CASE Decide(c)
  <2>1. Decision(c) \in Choices /\ (Hubs = {} => Decision(c) = e)
    BY <1>1 DEF Decision, Choices
  <2>2. PICK d \in Choices : d = Decision(c)
    BY <2>1
  <2> QED BY <1>2, <1>3, <1>4, <2>1, <2>2, OneDecision DEF Decide
<1>5. CASE DecideForm(c)
  BY <1>1, <1>2, <1>3, <1>5, OneDecision DEF DecideForm
<1> QED BY <1>4, <1>5

LEMMA TaskStep == CallInv /\ TaskInv /\ [Next]_vars => TaskInv' /\ EndsKept
<1> SUFFICES ASSUME CallInv, TaskInv, [Next]_vars PROVE TaskInv' /\ EndsKept
  OBVIOUS
<1>0. ASSUME task' = task, meant \subseteq meant' PROVE TaskInv' /\ EndsKept
  BY <1>0 DEF TaskInv, EndsKept, Meant
<1>1. CASE UNCHANGED vars \/ Tick \/ Swallow
  BY <1>0, <1>1 DEF vars, Tick, Swallow
<1>2. ASSUME NEW c \in Clients, \/ \E op \in Ops \ {"poll"}, t \in Tasks \cup {NoTask} : Send(c, op, t)
                                \/ PollAgain(c)
      PROVE  TaskInv' /\ EndsKept
  BY <1>0, <1>2 DEF Send, PollAgain
<1>3. ASSUME NEW c \in Clients, Serve(c) PROVE TaskInv' /\ EndsKept
  <2>1. CASE TooLarge(c) \/ Refuse(c) \/ ToPool(c) \/ Status(c) \/ Retry(c)
    BY <1>0, <2>1 DEF TooLarge, Refuse, ToPool, Status, Retry
  <2>2. CASE Submit(c) \/ SubmitForm(c)
    <3>1. PICK t \in Tasks : /\ task[t].state = "none" /\ meant' = meant
                             /\ task' = [task EXCEPT ![t].state = "running"]
      BY <2>2 DEF Submit, SubmitForm
    <3> QED BY <3>1, OneState DEF Ended
  <2>3. CASE Decide(c) \/ DecideForm(c)
    BY <2>3, DecideTask
  <2> QED BY <1>3, <2>1, <2>2, <2>3 DEF Serve
<1>4. ASSUME NEW t \in Tasks, Wait(t) PROVE TaskInv' /\ EndsKept
  BY <1>4, OneState DEF Wait, Ended
<1>5. ASSUME NEW t \in Tasks, NEW s \in Ended, End(t, s) PROVE TaskInv' /\ EndsKept
  BY <1>5, OneState DEF End, MayEnd, Ended
<1>6. ASSUME NEW t \in Tasks, NEW i \in DOMAIN history[t], Erase(t, i) PROVE TaskInv' /\ EndsKept
  BY <1>0, <1>6 DEF Erase
<1>7. ASSUME NEW s \in Clients \cup {Loop}, Deliver(s) PROVE TaskInv' /\ EndsKept
  BY <1>0, <1>7 DEF Deliver, Attempt, Record
<1> QED BY <1>1, <1>2, <1>3, <1>4, <1>5, <1>6, <1>7 DEF Next

(* Webhooks. *)

\* What is delivered stays true when tasks end and messages arrive.
LEMMA JobKept ==
  ASSUME JobInv, EndsKept, post' = post, ids' = ids, inbox \subseteq inbox'
  PROVE  JobInv'
BY DEF JobInv, EndsKept, EndedAs

LEMMA RecordKept ==
  ASSUME RecordInv, EndsKept, history' = history, inbox \subseteq inbox'
  PROVE  RecordInv'
BY DEF RecordInv, EndsKept, EndedAs

LEMMA InboxKept ==
  ASSUME InboxInv, EndsKept, inbox' = inbox
  PROVE  InboxInv'
BY DEF InboxInv, EndsKept, Message

\* Sender s goes on with p.
LEMMA OneJob ==
  ASSUME JobInv, EndsKept, NEW s \in Clients \cup {Loop}, NEW p \in Job,
         post' = [post EXCEPT ![s] = p], ids' \in Nat, inbox \subseteq inbox',
         p.step # "no" => p.task \in Tasks /\ p.state \in Ended /\ task'[p.task].state = p.state,
         p.ok => \E m \in inbox' : m.task = p.task /\ m.id = p.id
  PROVE  JobInv'
<1>1. /\ post' \in [Clients \cup {Loop} -> Job] /\ post'[s] = p
      /\ \A r \in (Clients \cup {Loop}) \ {s} : post'[r] = post[r]
  BY DEF JobInv
<1>2. ASSUME NEW r \in Clients \cup {Loop}
      PROVE  /\ post'[r].step # "no" => /\ post'[r].task \in Tasks /\ post'[r].state \in Ended
                                         /\ task'[post'[r].task].state = post'[r].state
             /\ post'[r].ok => \E m \in inbox' : m.task = post'[r].task /\ m.id = post'[r].id
  <2>1. CASE r = s
    BY <1>1, <2>1
  <2>2. CASE r # s
    BY <1>1, <2>2 DEF JobInv, EndedAs, EndsKept
  <2> QED BY <2>1, <2>2
<1> QED BY <1>1, <1>2 DEF JobInv, EndedAs

LEMMA QuietJob ==
  ASSUME JobInv, EndsKept, NEW s \in Clients \cup {Loop}, post' = [post EXCEPT ![s] = Quiet],
         ids' = ids, inbox' = inbox
  PROVE  JobInv'
<1>1. Quiet \in Job /\ Quiet.step = "no" /\ ~Quiet.ok /\ ids \in Nat
  BY DEF Quiet, Job, JobInv
<1> QED BY <1>1, OneJob

\* A delivery about a task that has ended is begun.
LEMMA NewJob ==
  ASSUME JobInv, EndsKept, NEW s \in Clients \cup {Loop}, NEW t \in Tasks,
         NEW e \in Ended, task'[t].state = e, post' = [post EXCEPT ![s] = Delivery(t, e)],
         ids' = ids + 1, inbox' = inbox
  PROVE  JobInv'
<1>1. ids \in Nat /\ ids + 1 \in Nat
  BY DEF JobInv
<1>2. /\ Delivery(t, e) \in Job /\ Delivery(t, e).task = t
      /\ Delivery(t, e).state = e /\ ~Delivery(t, e).ok
  BY <1>1 DEF Delivery, Job
<1> QED BY <1>1, <1>2, OneJob

\* The history of task t becomes h.
LEMMA OneHistory ==
  ASSUME RecordInv, EndsKept, NEW t \in Tasks, NEW h \in Seq(Entry),
         history' = [history EXCEPT ![t] = h], inbox' = inbox,
         \A i \in DOMAIN h : task'[t].state = h[i].state,
         \A i \in DOMAIN h : h[i].ok => \E m \in inbox : m.task = t /\ m.id = h[i].id
  PROVE  RecordInv'
<1>1. /\ history' \in [Tasks -> Seq(Entry)] /\ history'[t] = h
      /\ \A u \in Tasks \ {t} : history'[u] = history[u]
  BY DEF RecordInv
<1>2. ASSUME NEW u \in Tasks
      PROVE  /\ \A i \in DOMAIN history'[u] :
                    history'[u][i].state \in Ended /\ task'[u].state = history'[u][i].state
             /\ \A i \in DOMAIN history'[u] : history'[u][i].ok =>
                    \E m \in inbox' : m.task = u /\ m.id = history'[u][i].id
  <2>1. CASE u = t
    <3>1. \A i \in DOMAIN h : h[i] \in Entry
      OBVIOUS
    <3>2. \A i \in DOMAIN h : h[i].state \in Ended
      BY <3>1 DEF Entry
    <3> QED BY <1>1, <2>1, <3>2
  <2>2. CASE u # t
    BY <1>1, <2>2 DEF RecordInv, EndedAs, EndsKept
  <2> QED BY <2>1, <2>2
<1> QED BY <1>1, <1>2 DEF RecordInv, EndedAs

\* What a longer history holds is the new record or was there.
LEMMA AddedHolds ==
  ASSUME NEW h \in Seq(Entry), NEW r \in Entry
  PROVE  /\ Added(h, r) \in Seq(Entry)
         /\ \A i \in DOMAIN Added(h, r) : Added(h, r)[i] = r \/ \E j \in DOMAIN h : Added(h, r)[i] = h[j]
<1>1. CASE Len(h) < RingMax
  BY <1>1 DEF Added
<1>2. CASE ~(Len(h) < RingMax)
  <2>1. h # <<>> /\ Len(h) \in Nat \ {0}
    BY <1>2, ApiAssumption
  <2>2. /\ Tail(h) \in Seq(Entry) /\ Len(Tail(h)) = Len(h) - 1
        /\ \A i \in 1..Len(Tail(h)) : Tail(h)[i] = h[i + 1] /\ i + 1 \in DOMAIN h
    BY <2>1
  <2>3. Added(h, r) = Append(Tail(h), r)
    BY <1>2 DEF Added
  <2> QED BY <2>1, <2>2, <2>3
<1> QED BY <1>1, <1>2

\* What is left of a history was there.
LEMMA RestHolds ==
  ASSUME NEW h \in Seq(Entry), NEW i \in DOMAIN h
  PROVE  LET rest == SubSeq(h, 1, i - 1) \o SubSeq(h, i + 1, Len(h))
         IN /\ rest \in Seq(Entry)
            /\ \A n \in DOMAIN rest : \E j \in DOMAIN h : rest[n] = h[j]
<1> DEFINE a == SubSeq(h, 1, i - 1)
           b == SubSeq(h, i + 1, Len(h))
<1>1. i \in 1..Len(h) /\ Len(h) \in Nat
  OBVIOUS
<1>2. /\ a \in Seq(Entry) /\ Len(a) = i - 1
      /\ \A n \in 1..Len(a) : a[n] = h[n] /\ n \in DOMAIN h
  BY <1>1
<1>3. /\ b \in Seq(Entry) /\ Len(b) = Len(h) - i
      /\ \A n \in 1..Len(b) : b[n] = h[i + n] /\ i + n \in DOMAIN h
  BY <1>1
<1> HIDE DEF a, b
<1>4. a \o b \in Seq(Entry) /\ DOMAIN (a \o b) = 1..(Len(a) + Len(b))
  <2>1. a \o b \in Seq(Entry) /\ Len(a \o b) = Len(a) + Len(b)
    BY <1>2, <1>3
  <2> QED BY <2>1
<1>5. \A n \in 1..(Len(a) + Len(b)) : (a \o b)[n] = IF n <= Len(a) THEN a[n] ELSE b[n - Len(a)]
  BY <1>2, <1>3
<1>6. ASSUME NEW n \in DOMAIN (a \o b) PROVE \E j \in DOMAIN h : (a \o b)[n] = h[j]
  <2>1. CASE n <= Len(a)
    BY <1>2, <1>4, <1>5, <2>1
  <2>2. CASE ~(n <= Len(a))
    <3>1. n - Len(a) \in 1..Len(b)
      <4> PICK x \in Nat, y \in Nat : x = Len(a) /\ y = Len(b)
        BY <1>2, <1>3, Zenon, LenProperties
      <4>1. n \in 1..(x + y) /\ ~(n <= x)
        BY <1>4, <2>2, Zenon
      <4>2. n - x \in 1..y
        BY <4>1
      <4> QED BY <4>2, Zenon
    <3> QED BY <1>3, <1>4, <1>5, <2>2, <3>1
  <2> QED BY <2>1, <2>2
<1> QED BY <1>4, <1>6 DEF a, b

LEMMA AttemptHook ==
  ASSUME HookInv, TaskInv, EndsKept, NEW s \in Clients \cup {Loop}, Attempt(s)
  PROVE  HookInv'
<1> DEFINE p == post[s]
           m == Payload(s)
<1>1. PICK arrives \in BOOLEAN, ok \in BOOLEAN :
        /\ ok => arrives
        /\ inbox' = IF arrives THEN inbox \cup {Payload(s)} ELSE inbox
        /\ post' = [post EXCEPT ![s] = Tried(post[s], ok)]
  BY DEF Attempt
<1>2. UNCHANGED <<task, ids, history>> /\ p.step = "try"
  BY DEF Attempt
<1>3. /\ p \in Job /\ p.task \in Tasks /\ p.state \in Ended /\ task[p.task].state = p.state
      /\ ids \in Nat
  BY <1>2 DEF HookInv, JobInv, EndedAs
<1>4. m \in Message /\ m.task = p.task /\ m.id = p.id /\ m.state = task[m.task].state
  BY <1>3 DEF Payload, Message, Job
<1>5. inbox \subseteq inbox' /\ (ok => m \in inbox')
  BY <1>1
<1>6. InboxInv'
  BY <1>1, <1>2, <1>4 DEF HookInv, InboxInv
<1>7. RecordInv'
  BY <1>2, <1>5, RecordKept DEF HookInv
<1>8. JobInv'
  <2> DEFINE q == Tried(p, ok)
  <2>1. p.tries + 1 \in Nat
    BY <1>3 DEF Job
  <2>2. q \in Job /\ q.task = p.task /\ q.state = p.state /\ q.id = p.id /\ q.ok = ok
    BY <1>3, <2>1 DEF Tried, Job
  <2>3. q.ok => \E x \in inbox' : x.task = q.task /\ x.id = q.id
    BY <1>4, <1>5, <2>2
  <2>4. post' = [post EXCEPT ![s] = q]
    BY <1>1
  <2> HIDE DEF q
  <2> QED BY <1>2, <1>3, <1>5, <2>2, <2>3, <2>4, OneJob DEF HookInv
<1> QED BY <1>6, <1>7, <1>8 DEF HookInv

LEMMA RecordHook ==
  ASSUME HookInv, EndsKept, NEW s \in Clients \cup {Loop}, Record(s)
  PROVE  HookInv'
<1> DEFINE p == post[s]
           r == [id |-> p.id, ok |-> p.ok, state |-> p.state]
<1>1. p \in Job /\ p.task \in Tasks /\ p.state \in Ended /\ task[p.task].state = p.state
  BY DEF HookInv, JobInv, EndedAs, Record
<1>2. r \in Entry /\ r.state = p.state /\ (r.ok => \E m \in inbox : m.task = p.task /\ m.id = r.id)
  BY <1>1 DEF HookInv, JobInv, Job, Entry
<1>3. PICK t \in Tasks : t = p.task
  BY <1>1
<1>4. history[t] \in Seq(Entry)
  BY DEF HookInv, RecordInv
<1>5. PICK h : h = Added(history[t], r)
  OBVIOUS
<1> HIDE DEF r
<1>6. /\ h \in Seq(Entry)
      /\ \A i \in DOMAIN h : h[i] = r \/ \E j \in DOMAIN history[t] : h[i] = history[t][j]
  BY <1>2, <1>4, <1>5, AddedHolds
<1>7. \A i \in DOMAIN h : h[i].ok => \E m \in inbox : m.task = t /\ m.id = h[i].id
  BY <1>2, <1>3, <1>6 DEF HookInv, RecordInv
<1>8. /\ history' = [history EXCEPT ![t] = h] /\ post' = [post EXCEPT ![s] = Quiet]
      /\ UNCHANGED <<task, ids, inbox>>
  BY <1>3, <1>5 DEF Record, r
<1>9. \A i \in DOMAIN h : task'[t].state = h[i].state
  BY <1>1, <1>2, <1>3, <1>6, <1>8 DEF HookInv, RecordInv, EndedAs
<1>10. RecordInv'
  BY <1>6, <1>7, <1>8, <1>9, OneHistory DEF HookInv
<1>11. JobInv' /\ InboxInv'
  BY <1>8, QuietJob, InboxKept DEF HookInv
<1> QED BY <1>10, <1>11 DEF HookInv

LEMMA EraseHook ==
  ASSUME HookInv, EndsKept, NEW t \in Tasks, NEW i \in DOMAIN history[t], Erase(t, i)
  PROVE  HookInv'
<1>1. PICK h : h = SubSeq(history[t], 1, i - 1) \o SubSeq(history[t], i + 1, Len(history[t]))
  OBVIOUS
<1>2. history[t] \in Seq(Entry)
  BY DEF HookInv, RecordInv
<1>3. h \in Seq(Entry) /\ \A n \in DOMAIN h : \E j \in DOMAIN history[t] : h[n] = history[t][j]
  BY <1>1, <1>2, RestHolds
<1>4. \A n \in DOMAIN h : h[n].ok => \E m \in inbox : m.task = t /\ m.id = h[n].id
  <2>1. \A j \in DOMAIN history[t] : history[t][j].ok =>
            \E m \in inbox : m.task = t /\ m.id = history[t][j].id
    BY DEF HookInv, RecordInv
  <2> QED BY <1>3, <2>1
<1>5. history' = [history EXCEPT ![t] = h] /\ UNCHANGED <<task, post, ids, inbox>>
  BY <1>1 DEF Erase
<1>6. \A n \in DOMAIN h : task'[t].state = h[n].state
  BY <1>3, <1>5 DEF HookInv, RecordInv, EndedAs
<1>7. RecordInv'
  BY <1>3, <1>4, <1>5, <1>6, OneHistory DEF HookInv
<1>8. JobInv' /\ InboxInv'
  BY <1>5, JobKept, InboxKept DEF HookInv
<1> QED BY <1>7, <1>8 DEF HookInv

LEMMA EndHook ==
  ASSUME HookInv, TaskInv, EndsKept, NEW t \in Tasks, NEW e \in Ended, End(t, e)
  PROVE  HookInv'
<1>1. task'[t].state = e
  <2>1. task[t] \in Row /\ task' = [task EXCEPT ![t].state = e] /\ DOMAIN task = Tasks
    BY DEF End, TaskInv
  <2>2. task'[t] = [task[t] EXCEPT !.state = e]
    BY <2>1
  <2> QED BY <2>1, <2>2 DEF Row
<1>2. UNCHANGED <<history, inbox>>
  BY DEF End
<1>3. JobInv'
  <2>1. CASE UNCHANGED <<post, ids>>
    BY <1>2, <2>1, JobKept DEF HookInv
  <2>2. CASE post' = [post EXCEPT ![Loop] = Delivery(t, e)] /\ ids' = ids + 1
    BY <1>1, <1>2, <2>2, NewJob DEF HookInv
  <2> QED BY <2>1, <2>2 DEF End
<1> QED BY <1>2, <1>3, RecordKept, InboxKept DEF HookInv

LEMMA RetryHook ==
  ASSUME HookInv, CallInv, EndsKept, NEW c \in Clients, Retry(c)
  PROVE  HookInv'
<1>1. PICK t \in Tasks : t = call[c].task
  BY DEF CallInv, Retry
<1>2. UNCHANGED <<task, history, inbox>>
  BY DEF Retry
<1>3. JobInv'
  <2>1. CASE UNCHANGED <<post, ids>>
    BY <1>2, <2>1, JobKept DEF HookInv
  <2>2. CASE /\ \E i \in Failures(t) :
                   post' = [post EXCEPT ![c] = Delivery(t, history[t][i].state)]
             /\ ids' = ids + 1
    <3>1. PICK i \in DOMAIN history[t] :
                   post' = [post EXCEPT ![c] = Delivery(t, history[t][i].state)]
      BY <2>2 DEF Failures
    <3>2. PICK e \in Ended : e = history[t][i].state /\ task'[t].state = e
      BY <1>2 DEF HookInv, RecordInv, EndedAs
    <3> QED BY <1>2, <2>2, <3>1, <3>2, NewJob DEF HookInv
  <2> QED BY <1>1, <2>1, <2>2 DEF Retry
<1> QED BY <1>2, <1>3, RecordKept, InboxKept DEF HookInv

LEMMA HookStep == ApiInv /\ [Next]_vars => HookInv'
<1> SUFFICES ASSUME ApiInv, [Next]_vars PROVE HookInv'
  OBVIOUS
<1> HookInv /\ TaskInv /\ CallInv /\ EndsKept
  BY TaskStep DEF ApiInv
<1>0. ASSUME UNCHANGED <<post, ids, history, inbox>> PROVE HookInv'
  BY <1>0, JobKept, RecordKept, InboxKept DEF HookInv
<1>1. CASE UNCHANGED vars \/ Tick
  BY <1>0, <1>1 DEF vars, Tick
<1>2. ASSUME NEW c \in Clients, \/ \E op \in Ops \ {"poll"}, t \in Tasks \cup {NoTask} : Send(c, op, t)
                                \/ PollAgain(c)
      PROVE  HookInv'
  BY <1>0, <1>2 DEF Send, PollAgain
<1>3. ASSUME NEW c \in Clients, Serve(c), ~Retry(c) PROVE HookInv'
  BY <1>0, <1>3 DEF Serve, TooLarge, Refuse, Submit, Decide, SubmitForm, DecideForm, ToPool, Status
<1>4. ASSUME NEW c \in Clients, Retry(c) PROVE HookInv'
  BY <1>4, RetryHook
<1>5. ASSUME NEW t \in Tasks, Wait(t) PROVE HookInv'
  BY <1>0, <1>5 DEF Wait
<1>6. ASSUME NEW t \in Tasks, NEW e \in Ended, End(t, e) PROVE HookInv'
  BY <1>6, EndHook
<1>7. ASSUME NEW t \in Tasks, NEW i \in DOMAIN history[t], Erase(t, i) PROVE HookInv'
  BY <1>7, EraseHook
<1>8. ASSUME NEW s \in Clients \cup {Loop}, Deliver(s) PROVE HookInv'
  BY <1>8, AttemptHook, RecordHook DEF Deliver
<1>9. CASE Swallow
  <2>1. /\ post' = [post EXCEPT ![Loop] = Quiet] /\ UNCHANGED <<ids, history, inbox>>
    BY <1>9 DEF Swallow
  <2> QED BY <2>1, QuietJob, RecordKept, InboxKept DEF HookInv
<1> QED BY <1>1, <1>2, <1>3, <1>4, <1>5, <1>6, <1>7, <1>8, <1>9 DEF Next

LEMMA ApiStep == ApiInv /\ [Next]_vars => ApiInv'
  BY CallStep, TaskStep, HookStep DEF ApiInv

LEMMA Invariant == Spec => []ApiInv
  BY InitInv, ApiStep, PTL DEF Spec

\* A task succeeds only when somebody meant to approve it, where no host takes every decision
\* for an approval as AgenticHub's endpoint does (the approve, reject and decide endpoints).
THEOREM SuccessWasMeant == Hubs = {} => (Spec => []ApprovedByIntent)
<1> SUFFICES ASSUME Hubs = {} PROVE Spec => []ApprovedByIntent
  OBVIOUS
<1>1. ApiInv => ApprovedByIntent
  BY DEF ApiInv, TaskInv, ApprovedByIntent, Meant, Choices
<1> QED BY Invariant, <1>1, PTL

\* Even with such hosts no task succeeds that nobody has decided (Taken, MayEnd).
DecidedByHuman ==
    \A t \in Tasks : task[t].state = "succeeded" => \E d \in Choices : <<t, d>> \in meant

\* Whoever the hosts are, a task that succeeded was decided by a client (decide_approval).
THEOREM SuccessWasDecided == Spec => []DecidedByHuman
<1>1. ApiInv => DecidedByHuman
  BY DEF ApiInv, TaskInv, DecidedByHuman, Meant, Choices
<1> QED BY Invariant, <1>1, PTL

\* What the delivery history calls delivered has reached the partner, and every message there
\* tells how its task has ended, whoever sent it and however often (deliver, admin_webhook_retry).
THEOREM HistoryHolds == Spec => []HistoryIsTrue
<1>1. ApiInv => HistoryIsTrue
  BY DEF ApiInv, HookInv, RecordInv, InboxInv, HistoryIsTrue, Message
<1> QED BY Invariant, <1>1, PTL

=============================================================================
