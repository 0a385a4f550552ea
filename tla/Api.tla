------------------------------- MODULE Api -------------------------------
(***************************************************************************)
(* The HTTP surface as its callers meet it: the request-size and           *)
(* rate-limit middleware with the token buckets, the task endpoints, the   *)
(* adapters of Dify and AgenticHub and the SDK that submit, poll and       *)
(* decide, and the webhooks: the wrapper around a run, the dispatcher's    *)
(* attempts, the delivery history and the endpoint that retries.           *)
(*                                                                         *)
(* One event loop runs the middleware, the async endpoints and the runs.   *)
(* The wrapper posts a webhook on that loop and blocks it.  The status and *)
(* retry endpoints are sync: after the middleware they go on in a thread.  *)
(*                                                                         *)
(* A run is what Coordinator.tla refines; here it only waits for the human *)
(* and ends.  A lost or late answer raises in the client and ends its      *)
(* call, whatever the server has done.                                     *)
(***************************************************************************)
EXTENDS Integers, Sequences, FiniteSets

CONSTANTS Clients, Tasks,
          Hubs,         \* the clients that decide through AgenticHub's shape
          Browsers,     \* the clients that use the forms of the review console
          Headers,      \* the clients that send X-Tenant-Id; each is its own tenant
          Address,      \* the address the other clients share
          Wired,        \* somebody has set state._webhook_dispatcher and _webhook_history
          Burst, Rate,  \* of a bucket; Rate is the refill between two instants
          MaxAttempts, MaxPolls,
          RingMax,      \* DeliveryHistory's max_per_task
          MaxTime,      \* bound: the clock
          MaxCalls,     \* bound: calls of one client
          Loop, NoTask, NoBucket

\* A token bucket; tokens and instants are whole numbers here.
Bucket == [tokens : Nat, last : Nat]

ASSUME ApiAssumption ==
    /\ Hubs \cup Browsers \subseteq Clients /\ Hubs \cap Browsers = {} /\ Headers \subseteq Clients
    /\ Wired \in BOOLEAN
    /\ {Burst, Rate, MaxAttempts, MaxPolls, RingMax} \subseteq Nat \ {0}
    /\ {MaxTime, MaxCalls} \subseteq Nat
    /\ Loop \notin Clients /\ Address \notin Clients /\ NoTask \notin Tasks
    /\ NoBucket \notin Bucket

VARIABLES now,
          bucket,   \* RateLimiter._buckets
          served,   \* when the requests of a bucket were let through
          call,     \* what a client is waiting for
          calls,    \* how many calls a client has begun
          task,     \* the row of a task run and the decision its gate has
          hook,     \* its webhook: none, a good one, a malformed one, or one that raises
          meant,    \* <<task, decision>> as the clients meant it
          post,     \* what the loop and the retrying threads deliver
          ids,      \* how many delivery ids there are
          history,  \* DeliveryHistory._by_task
          inbox     \* what has reached the partner's endpoint

vars == <<now, bucket, served, call, calls, task, hook, meant, post, ids, history, inbox>>

Ops == {"submit", "poll", "approve", "reject", "retry"}
Choices == {"approve", "reject"}
Hooks == {"none", "good", "malformed", "raises"}
Modes == {"delegate-task", "delegate-node", "observe-only"}
Ended == {"succeeded", "failed", "cancelled"}

\* The identity a request is counted for.
Keys == Headers \cup {Address}
Key(c) == IF c \in Headers THEN c ELSE Address

Idle == [step |-> "idle", op |-> "poll", task |-> NoTask, polls |-> 0]
Quiet == [step |-> "no", task |-> NoTask, state |-> "none", id |-> 0, tries |-> 0,
          ok |-> FALSE]

Init == /\ now = 0
        /\ bucket = [k \in Keys |-> NoBucket]
        /\ served = [k \in Keys |-> <<>>]
        /\ call = [c \in Clients |-> Idle]
        /\ calls = [c \in Clients |-> 0]
        /\ task = [t \in Tasks |-> [state |-> "none", gate |-> "none"]]
        /\ hook = [t \in Tasks |-> "none"]
        /\ meant = {}
        /\ post = [s \in Clients \cup {Loop} |-> Quiet]
        /\ ids = 0
        /\ history = [t \in Tasks |-> <<>>]
        /\ inbox = {}

-----------------------------------------------------------------------------
(* TokenBucket and RateLimiter.check *)

Least(a, b) == IF a <= b THEN a ELSE b

\* Mutant: a bucket that nobody used goes on filling.
Refilled_Unbounded(b) == b.tokens + (now - b.last) * Rate

Refilled(b) == Least(Burst, b.tokens + (now - b.last) * Rate)

\* The first call of a key makes its bucket, which is full.
BucketOf(k) == IF bucket[k] = NoBucket THEN [tokens |-> Burst, last |-> now] ELSE bucket[k]

Throttled(c) == /\ Refilled(BucketOf(Key(c))) < 1
                /\ bucket' = [bucket EXCEPT ![Key(c)] =
                                [tokens |-> Refilled(BucketOf(Key(c))), last |-> now]]
                /\ UNCHANGED served

Admitted(c) == /\ Refilled(BucketOf(Key(c))) >= 1
               /\ bucket' = [bucket EXCEPT ![Key(c)] =
                               [tokens |-> Refilled(BucketOf(Key(c))) - 1, last |-> now]]
               /\ served' = [served EXCEPT ![Key(c)] = Append(@, now)]

Tick == /\ now < MaxTime
        /\ now' = now + 1
        /\ UNCHANGED <<bucket, served, call, calls, task, hook, meant, post, ids, history, inbox>>

-----------------------------------------------------------------------------
(* The clients *)

\* submit_contract, approve, reject, or an operator's retry.
Send(c, op, t) ==
    /\ call[c] = Idle
    /\ calls[c] < MaxCalls
    /\ op = "submit" <=> t = NoTask
    /\ op = "submit" => Cardinality({d \in Clients : call[d].op = "submit"})
                          < Cardinality({u \in Tasks : task[u].state = "none"})
    /\ op # "submit" => task[t].state # "none"
    /\ op = "retry" => c \notin Browsers
    /\ calls' = [calls EXCEPT ![c] = @ + 1]
    /\ call' = [call EXCEPT ![c] = [Idle EXCEPT !.step = "sent", !.op = op, !.task = t]]
    /\ meant' = IF op \in Choices THEN meant \cup {<<t, op>>} ELSE meant
    /\ UNCHANGED <<now, bucket, served, task, hook, post, ids, history, inbox>>

\* The adapters and wait_for_completion sleep between two polls.
PollAgain(c) ==
    /\ call[c].step = "asleep"
    /\ call' = [call EXCEPT ![c].step = "sent", ![c].op = "poll"]
    /\ UNCHANGED <<now, bucket, served, calls, task, hook, meant, post, ids, history, inbox>>

-----------------------------------------------------------------------------
(* The event loop: middleware and async endpoints *)

LoopIsFree == post[Loop] = Quiet

\* A call returns, or an error or a missing answer raises in the client.
Drop(c) == call' = [call EXCEPT ![c] = Idle]

\* RequestSizeLimitMiddleware is outside: a body that declares too large a length costs
\* no token.
TooLarge(c) ==
    /\ LoopIsFree
    /\ call[c].step = "sent" /\ call[c].op = "submit"
    /\ Drop(c)
    /\ UNCHANGED <<now, bucket, served, calls, task, hook, meant, post, ids, history, inbox>>

\* 429, or a chunked body that outgrows the limit after the limiter let it through.
Refuse(c) ==
    /\ LoopIsFree
    /\ call[c].step = "sent"
    /\ \/ Throttled(c)
       \/ call[c].op = "submit" /\ Admitted(c)
    /\ Drop(c)
    /\ UNCHANGED <<now, calls, task, hook, meant, post, ids, history, inbox>>

\* submit_contract goes on polling in delegate-task mode, if the answer reaches it.
Answered(c, t, mode) ==
    \/ Drop(c)
    \/ /\ mode = "delegate-task"
       /\ call' = [call EXCEPT ![c] = [Idle EXCEPT !.step = "asleep", !.task = t]]

\* The task is made and its run started.
Submit(c) ==
    /\ LoopIsFree
    /\ call[c].step = "sent" /\ call[c].op = "submit" /\ c \notin Browsers
    /\ Admitted(c)
    /\ \E t \in Tasks, h \in Hooks, mode \in Modes :
          /\ task[t].state = "none"
          /\ task' = [task EXCEPT ![t].state = "running"]
          /\ hook' = [hook EXCEPT ![t] = h]
          /\ Answered(c, t, mode)
    /\ UNCHANGED <<now, calls, meant, post, ids, history, inbox>>

\* Mutant: the endpoint takes every decision for an approval.
Decision_Approves(c) == "approve"

\* AgenticHub's endpoint approves whatever the body says.
Decision(c) == IF c \in Hubs THEN "approve" ELSE call[c].op

\* decide_approval: the first decision d of a waiting gate counts.
Taken(t, d) == task' = [task EXCEPT ![t].gate =
                          IF task[t].state = "waiting" /\ @ = "none" THEN d ELSE @]

\* The answer is 200 or 400.
Decide(c) ==
    /\ LoopIsFree
    /\ call[c].step = "sent" /\ call[c].op \in Choices /\ c \notin Browsers
    /\ Admitted(c)
    /\ Taken(call[c].task, Decision(c))
    /\ Drop(c)
    /\ UNCHANGED <<now, calls, hook, meant, post, ids, history, inbox>>

\* submit_task, a form of the console: there is no webhook, and the page does not poll.
SubmitForm(c) ==
    /\ LoopIsFree
    /\ call[c].step = "sent" /\ call[c].op = "submit" /\ c \in Browsers
    /\ Admitted(c)
    /\ \E t \in Tasks : /\ task[t].state = "none"
                       /\ task' = [task EXCEPT ![t].state = "running"]
    /\ Drop(c)
    /\ UNCHANGED <<now, calls, hook, meant, post, ids, history, inbox>>

\* decide_approval_from_console redirects to the same page whether the decision counted or not.
DecideForm(c) ==
    /\ LoopIsFree
    /\ call[c].step = "sent" /\ call[c].op \in Choices /\ c \in Browsers
    /\ Admitted(c)
    /\ Taken(call[c].task, call[c].op)
    /\ Drop(c)
    /\ UNCHANGED <<now, calls, hook, meant, post, ids, history, inbox>>

\* The status and retry endpoints go on in the thread pool.
ToPool(c) ==
    /\ LoopIsFree
    /\ call[c].step = "sent" /\ call[c].op \in {"poll", "retry"}
    /\ Admitted(c)
    /\ call' = [call EXCEPT ![c].step = "pool"]
    /\ UNCHANGED <<now, calls, task, hook, meant, post, ids, history, inbox>>

\* get_task; the host stops at the end of the task, after its last poll, or when it
\* gets no answer.
Status(c) ==
    /\ call[c].step = "pool" /\ call[c].op = "poll"
    /\ \/ Drop(c)
       \/ /\ task[call[c].task].state \notin Ended
          /\ call[c].polls + 1 < MaxPolls
          /\ call' = [call EXCEPT ![c].step = "asleep", ![c].polls = @ + 1]
    /\ UNCHANGED <<now, bucket, served, calls, task, hook, meant, post, ids, history, inbox>>

-----------------------------------------------------------------------------
(* Runs and webhooks *)

\* A run asks for the human's decision.
Wait(t) ==
    /\ LoopIsFree
    /\ task[t].state = "running"
    /\ task' = [task EXCEPT ![t].state = "waiting"]
    /\ UNCHANGED <<now, bucket, served, call, calls, hook, meant, post, ids, history, inbox>>

\* How a run may end: any time with a failure, else as the human decided.
MayEnd(t, s) == \/ task[t].state \in {"running", "waiting"} /\ s = "failed"
                \/ task[t].state = "waiting" /\ task[t].gate = "approve" /\ s = "succeeded"
                \/ task[t].state = "waiting" /\ task[t].gate = "reject" /\ s = "cancelled"

\* What is to be delivered for task t: that it has ended as s.
Delivery(t, s) == [step |-> IF hook[t] = "malformed" THEN "record" ELSE "try",
                   task |-> t, state |-> s, id |-> ids + 1, tries |-> 0, ok |-> FALSE]

\* The wrapper goes on where the run returned: it posts on the loop, unless the run
\* raised, there is no webhook, or no dispatcher is found.
End(t, s) ==
    /\ LoopIsFree
    /\ MayEnd(t, s)
    /\ task' = [task EXCEPT ![t].state = s]
    /\ \/ UNCHANGED <<post, ids>>
       \/ /\ Wired /\ hook[t] # "none"
          /\ post' = [post EXCEPT ![Loop] = Delivery(t, s)]
          /\ ids' = ids + 1
    /\ UNCHANGED <<now, bucket, served, call, calls, hook, meant, history, inbox>>

Failures(t) == {i \in DOMAIN history[t] : ~history[t][i].ok}

\* admin_webhook_retry: the payload of the latest failure under a new id, or 404.
Retry(c) ==
    /\ call[c].step = "pool" /\ call[c].op = "retry" /\ post[c] = Quiet
    /\ \/ /\ Failures(call[c].task) = {}
          /\ Drop(c)
          /\ UNCHANGED <<post, ids>>
       \/ /\ \E i \in Failures(call[c].task) :
                /\ \A j \in Failures(call[c].task) : j <= i
                /\ post' = [post EXCEPT ![c] =
                              Delivery(call[c].task, history[call[c].task][i].state)]
          /\ ids' = ids + 1
          /\ UNCHANGED call
    /\ UNCHANGED <<now, bucket, served, calls, task, hook, meant, history, inbox>>

\* Mutants: attempts without end; an answer that never came counts as a delivery.
Tried_Forever(p, ok) == [p EXCEPT !.ok = ok, !.tries = (@ + 1) % MaxAttempts,
                                  !.step = IF ok THEN "record" ELSE "try"]
Tried_Hopes(p, ok) ==
    [p EXCEPT !.ok = ok \/ p.tries + 1 = MaxAttempts, !.tries = @ + 1,
              !.step = IF ok \/ p.tries + 1 = MaxAttempts THEN "record" ELSE "try"]

\* Every attempt without a 2xx is repeated, as long as the budget lasts.
Tried(p, ok) == [p EXCEPT !.ok = ok, !.tries = @ + 1,
                          !.step = IF ok \/ p.tries + 1 = MaxAttempts THEN "record" ELSE "try"]

\* build_payload, without what is equal in every message.
Payload(s) == [task |-> post[s].task, id |-> post[s].id, state |-> post[s].state]

\* deliver: the POST arrives or not, and the answer is 2xx, another one, or lost.
Attempt(s) ==
    /\ post[s].step = "try" /\ hook[post[s].task] # "raises"
    /\ \E arrives, ok \in BOOLEAN :
          /\ ok => arrives
          /\ inbox' = IF arrives THEN inbox \cup {Payload(s)} ELSE inbox
          /\ post' = [post EXCEPT ![s] = Tried(@, ok)]
    /\ UNCHANGED <<now, bucket, served, call, calls, task, hook, meant, ids, history>>

\* The wrapper swallows what deliver raises, and keeps no record of it.
Swallow ==
    /\ post[Loop].step = "try" /\ hook[post[Loop].task] = "raises"
    /\ post' = [post EXCEPT ![Loop] = Quiet]
    /\ UNCHANGED <<now, bucket, served, call, calls, task, hook, meant, ids, history, inbox>>

\* deque(maxlen=RingMax): the oldest record makes room.
Added(seq, r) == IF Len(seq) < RingMax THEN Append(seq, r) ELSE Append(Tail(seq), r)

Record(s) ==
    /\ post[s].step = "record"
    /\ history' = [history EXCEPT ![post[s].task] =
                     Added(@, [id |-> post[s].id, ok |-> post[s].ok, state |-> post[s].state])]
    /\ post' = [post EXCEPT ![s] = Quiet]
    /\ IF s = Loop THEN UNCHANGED call ELSE Drop(s)
    /\ UNCHANGED <<now, bucket, served, calls, task, hook, meant, ids, inbox>>

\* _delete_webhook, for the lifecycle manager.
Erase(t, i) ==
    /\ history' = [history EXCEPT ![t] = SubSeq(@, 1, i - 1) \o SubSeq(@, i + 1, Len(@))]
    /\ UNCHANGED <<now, bucket, served, call, calls, task, hook, meant, post, ids, inbox>>

-----------------------------------------------------------------------------
Deliver(s) == Attempt(s) \/ Record(s)

Serve(c) == \/ TooLarge(c) \/ Refuse(c) \/ Submit(c) \/ Decide(c) \/ SubmitForm(c)
            \/ DecideForm(c) \/ ToPool(c) \/ Status(c) \/ Retry(c)

Next == \/ Tick
        \/ \E c \in Clients : \/ \E op \in Ops \ {"poll"}, t \in Tasks \cup {NoTask} :
                                    Send(c, op, t)
                              \/ PollAgain(c) \/ Serve(c)
        \/ \E t \in Tasks : \/ Wait(t)
                            \/ \E s \in Ended : End(t, s)
                            \/ \E i \in DOMAIN history[t] : Erase(t, i)
        \/ \E s \in Clients \cup {Loop} : Deliver(s)
        \/ Swallow

Spec == Init /\ [][Next]_vars

\* The loop and the pool serve whoever waits, a sleeping client wakes up, and a
\* delivery that was begun goes on.
Fairness == /\ \A c \in Clients : SF_vars(Serve(c)) /\ WF_vars(PollAgain(c))
            /\ \A s \in Clients \cup {Loop} : WF_vars(Deliver(s))
            /\ WF_vars(Swallow)

FairSpec == Spec /\ Fairness

-----------------------------------------------------------------------------
\* From any request that a bucket lets through to any later one there are no more than a
\* burst and what was refilled in between, whatever pauses came before (TokenBucket).
RateIsKept ==
    \A k \in Keys : \A i, j \in DOMAIN served[k] :
        i <= j => j - i + 1 <= Burst + Rate * (served[k][j] - served[k][i])

\* A task that succeeded was approved by somebody who meant to approve it, whoever else
\* has tried to reject it (the approve, reject and decide endpoints).
ApprovedByIntent ==
    \A t \in Tasks : task[t].state = "succeeded" => <<t, "approve">> \in meant

\* What the history calls delivered has reached the partner, and whatever reached it, from
\* the wrapper or a retry, tells how its task has ended (deliver, admin_webhook_retry).
HistoryIsTrue ==
    /\ \A t \in Tasks : \A i \in DOMAIN history[t] : history[t][i].ok =>
          \E m \in inbox : m.task = t /\ m.id = history[t][i].id
    /\ \A m \in inbox : m.state \in Ended /\ m.state = task[m.task].state

\* The loop stands still while it posts a webhook, and an operator may never decide; still
\* every call of a client comes to its end.
EveryCallReturns == \A c \in Clients : (call[c] # Idle) ~> (call[c] = Idle)
=============================================================================
