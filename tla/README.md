# A verification project for AIOrchestra

TLA+ models of the parts of `src/orchestra` in which several callers, threads,
processes or retries meet; TLC configurations that check them on small
instances; and TLAPS proofs of the properties that matter most, for every value
of the constants. `PROJECT.json` maps every definition to the lines it models
and lists runs, mutants, findings, hazards and theorems.

    tlc -workers 2 -config Approvals.cfg ApprovalsMC      # a run
    tlapm BreakGlassProofs.tla                            # the proofs of a module

## 1. The system

AIOrchestra runs tasks (contract reviews) as a fixed sequence of nodes. A FastAPI
server takes tasks over HTTP, a coordinator coroutine per task drives the nodes
through adapters, every step is written to PostgreSQL as rows and as an audit
timeline, a human approves the one node with an effect outside, and an
enterprise layer adds break-glass grants, retention, legal holds and deletion.

| component | state it keeps | operations | hard because |
|---|---|---|---|
| Event store (`coordinator/event_store.py`) | all tables; **one** connection per process | one method, one transaction (`_tx`) | sync endpoints run in a thread pool on the one connection |
| Coordinator (`coordinator/engine.py`) | coroutine per task, `_initial_inputs`, `_approval_events` | `run`, `_exec_node`, `decide_approval`, `_reload_pending_approvals` | any call may raise; awaits; restarts |
| Approvals (`enterprise/approval.py`) | `approvals`, `approval_decisions` | create, decide, reload | several instances decide one gate |
| Break-glass (`enterprise/break_glass.py`) | `break_glass_requests` | request, approve, revoke, sweep, audit events | two-person rule under races; expiry |
| Lifecycle (`enterprise/lifecycle.py`) | policies, holds, `deletion_jobs` | set_policy, holds, delete, execute, retry, six deleters | non-atomic calls; retries; partial failure |
| Event bus and SSE (`streaming/event_bus.py`, `api/app.py`) | history, closed topics, subscriber queues | publish, close, subscribe, drain | late subscribers; close against subscribe; restart |
| API, console (`api/`, `ux/`) | none beyond the above | endpoints | decide thread or loop, and the process |
| Webhooks (`webhooks/`, wrapper in `api/app.py`) | configs, delivery ring of 16 per task | deliver with retries, manual retry | the loop delivers, and blocks; lost answers |
| Rate limiter (`runtime/rate_limit.py`, middleware) | a token bucket per tenant header or address | check | lazy refill, shared buckets |
| Leases, fencing, reconciler, broker (`runtime/`) | high-water marks, keys | fencing check, reset, report, rotate, revoke, verify | workers that do not know they lost their lease |
| Outbox (`runtime/outbox.py`) | entries and attempts | enqueue, flush | at-least-once into a store that numbers events in two transactions |
| Published cards (`publishing/registry.py`, `/admin/publish`) | cards by version, latest pointers, partner index | publish, new version, deprecate, revoke | each publication replaces the registry by a copy, in threads |
| Ingress, kill switch, egress, release gate (`publishing/`, `xfr/`) | `tripped_at`; the registry they were given | admit, project, release, trip, reset | check, then use; an old registry object |
| Compiler, registry, router, policy (`compiler/`, `registry/`) | none (pure functions over a manifest store) | parse, resolve, amend, compile, close, sign | order on graphs; the registry changes in between |
| Integrations, SDK (`agentichub/`, `dify/`, `integrations/`, `orchestra_sdk/`) | none | submit, poll, decide | give up while the server goes on |
| Evidence, artifacts, tenants | trees, tables in memory | append, prove, put, get | index arithmetic |
| Observability, GA, CLI, deployment | counters, reports | wiring | - |

How they interact. The API schedules `Coordinator.run` on the event loop; the
coroutine calls the store synchronously, awaits adapters, and publishes each
event to the bus after storing it. At the human gate it waits for an
`asyncio.Event` that `decide_approval`, called by an endpoint of the *same*
process, sets after the row's transaction. Break-glass and lifecycle endpoints
are plain functions: FastAPI runs them in threads, on the same store object and
so on the same database connection as the loop. Server processes share nothing
but the database. The helm chart's default is one replica; the ADRs speak of
several.

The runtime library, the kill switch with the ingress, and the compiler's phases
are libraries that no part of the server calls together: their callers are taken
from docstrings, walkthroughs and tests, and the actions that stand for them are
marked external in the modules.

What makes each part correct, in short: nobody's answer is contradicted by the
row (approvals, break-glass, lifecycle); terminal states are final; the effect
outside happens only after the approval; the row, the timeline and the stream
tell the same end; a job's state says what is true of the data; what is begun
ends, where something in the code drives it.

## 2. The modules

| module | models | state |
|---|---|---|
| `EventStoreTx` | connections, transactions and row locks of one table | `rows` committed, `dirty` per connection, `lock` |
| `BreakGlass` | `BreakGlassService`, its store methods, `/admin/breakglass` | + `job` per worker, `told` answers, `audit` events, `now`, history `mixed` |
| `TwoPersonGrant` | abstract: a grant goes live with two signatures of others, or is void | `phase`, `applicant`, `signers` |
| `Approvals` | gate rows, `decide_approval`, the approval handler, reload | + `entry` wake-up cache, `loop` handler, `run` coroutine, `told`, `up` |
| `OneDecision` | abstract: a gate is settled once, the engine acts that way, once | `verdict`, `acted` |
| `Lifecycle` | policies, holds, deletion jobs, the deleters | `copies`, `policy`, `hold`, `job`, `call` per worker |
| `EventBus` | the live bus, each method one step (it holds a lock) | `hist`, `closed`, `topic`, `attached`, `queue` |
| `Coordinator` | `run`/`_exec_node`, rows, timeline, SSE; composed with `EventBus` | `row`, `node`, `log`, `signed`, `at`, `loop`, `inputs`, `sunk`, `client`, `got` |
| `Publishing` | `PublishedRegistry`, the `/admin/publish` endpoints, the card check of `Ingress.admit` | `entry` cards, `registry`, `call` per worker, `revoked` answers, histories `raced` and `crossed` |
| `Ingress` | a partner's call through kill switch, ingress, egress and release gate; extends `Publishing` | `held` registry, `tripped`, `visit` |
| `Runtime` | leases, `FencingGuard`, broker keys, `Reconciler`, outbox, `append_event` | `leases`, `running`, `unknown`, `cellHigh`, `nodeHigh`, `kids`, `revoked`, `entries`, `rows`, `flush` |
| `Api` | middleware, task endpoints, console forms, the clients' loops, webhooks | `bucket`, `served`, `call`, `task`, `hook`, `post`, `history`, `inbox` |
| `Registry` | eligibility, policy, routing, as operators | - |
| `Compiler` | the compiler's phases, as operators over `Registry` | - |
| `Planning` | a plan's way through resolver, compiler, closure, signer | `stage`, `bindings`, `snaps`, `checked`, `store` |
| `*MC` | constants and symmetry for TLC | - |
| `ApprovalsProofs`, `BreakGlassProofs`, `LifecycleProofs`, `PublishingProofs` (also of `Ingress`), `RuntimeProofs`, `ApiProofs`, `CoordinatorProofs` (also of `EventBus`), `PlanningProofs` (also of `Registry` and `Compiler`) | theorems | - |

**EventStoreTx** is instantiated by `BreakGlass` (key: request) and `Approvals`
(keys: the gate's row and its numbered decision rows). A statement reads the
connection's own writes over the committed rows, `SELECT ... FOR UPDATE` waits
for other *connections* only, and a commit or rollback ends the transaction of
the connection whichever thread opened it. This is the code's behaviour:
`EventStore.connect` opens one psycopg connection with autocommit off and `_tx`
commits that.

**BreakGlass.** A worker is a thread that serves one call. A call is statements
and commits in the code's order (`pc`): `approve` is `ApproveSelect`,
`ApproveUpdate`, `Commit`, then `Emit` or `EmitLost` for the audit event in a
transaction of its own. `ConnOf` says which workers share a connection, so the
same module answers for one process with a pool and for many processes.
`Fail` and `Crash` are the exception and the death of a process at any point.
Requests a caller may not make (effect ceiling) change nothing and are no step.
The endpoints are sync, so the threads of a process do meet on its connection,
where the row lock does not keep them apart. `mixed` remembers the requests of
the transactions in which that has happened; the properties say what holds of
every request, and what of those that are not mixed.

**Approvals.** Decisions are `async` endpoints that do not await inside, so one
process's loop is never in two handlers; other processes and crashes do come
between the statements. `SharedSpec` adds the sync endpoints of the same
process. `Register` puts the event into `_approval_events` and the coroutine
waits; `Resume` reads the bucket. `Crash` loses cache and coroutines; `Restart`
is `_reload_pending_approvals`. Tenants are left out (an approval is decided by
the process's own tenant on both sides) and `required_approvers` is 1, the only
value the engine passes.

**Lifecycle.** Each store method is one step, a call of `LifecycleManager` a
sequence of them, and `Abandon` an exception or a lost worker in between.
`copies[r]` are the known copies of a resource; the deleters say what they
removed and what they kept, with the code's reading of a copy that is already
gone. `HELD` is a member of the enumeration no code path writes.

**Coordinator.** Between two awaits a coroutine makes its store calls and emits
in a fixed order. The order is data (`Opening`, `Request`, `Answer`, `Closing`,
`Handler`...), one Op for each call, executed one at a time; `Raise` may happen
at each Op that can raise, into the `try` block's handler or out of `run`. The
adapters, the human, other tasks and SSE clients act between Ops' runs as the
loop allows. The template is the contract review, the one the code ships.

`Shown` is what the review console derives of a node from the same events;
`EndIsToldAlike` compares it with the row.

**Publishing.** POST `/admin/publish` builds a new registry, copies the three
tables of the current one and replaces it, so a registry is a value and only the
entries, which the copies share, are objects. The copies, the assignment and the
writes of `revoke` are steps, since the endpoints run in threads without a lock.
`publish_new_version` and `deprecate`, which only library users call, are one
step each. Two history variables say which calls have met: `raced` has the
versions of publications that overlapped another publication, `crossed` also
those of publications and revocations that overlapped each other; a deprecation
counts in neither. A card is its version and status; keys, signatures and audiences are
left out, and one partner owns all cards.

**Ingress.** The four parts are given a registry object and keep it, while the
server's current one is replaced; entries are shared, so a revocation shows in
both, a publication only in the new one. `held` is that object. A call reads the
switch, looks its card up twice (once for the switch, once for the ingress), each
time in two steps, has its token, projection and answer checked, and leaves.
`visit.shut` and `visit.gone` remember the switch and the answered revocations at
the call's beginning; `Reset` clears the former, since the switch is open then.

**Runtime.** A worker's write is one step: grant, fencing check, event into the
outbox; it may come at any time, from a lease that ended long ago. The
high-waters are the guard's two dictionaries, and `ConfirmDead` is the external
decision after which `reset_node_run` is called. A flush is a step for each call
of `append_event`'s two transactions, `mark_failed` and `mark_delivered`, and may
be interrupted between any two (`Abort`). `Verifies` is the broker's `verify`,
which signs the grant again with each key of the cell.

**Api.** One loop runs middleware, async endpoints and runs; `post[Loop]` is a
delivery that blocks it. A client's call goes from `sent` through the limiter to
the handler, or to the thread pool for the sync endpoints, and may be dropped with
an error or a lost answer. `Hubs` are clients that decide through AgenticHub's
endpoint, `Browsers` use the console's forms. `Wired` says whether somebody has
set `state._webhook_dispatcher`; the shipped server has not, so with
`Wired = FALSE` no webhook is ever sent, and `Wired = TRUE` is a host that does
as the docstring of the wrapper asks. Time and tokens are integers; `Rate` is the
refill between two instants.

**Registry, Compiler, Planning.** A template is its nodes in their order, its
edges and its purposes; capability ids are numbers in the order of the ids. The
operators follow the code's algorithms (queues, degrees, labels along the
topological order), the properties of `Planning` say the same without them:
orders as bijections, reachability as "in every order", the best capability as a
maximum. `Replace` is a registry loaded anew between two calls.

## 3. The runs

Passing runs (each bound is in the cfg):

| run | instance | states | shows |
|---|---|---|---|
| `break_glass` | 2 threads of one process and another process, 1 request, 3 people, 2 tenants, clock to 3 | 336 thousand | `TwoPersonControl`, `AnswersKept`, `TerminalIsFinal`, `ExpiresWhenDue`, `TypeOK` (windows are clamped), refinement of `TwoPersonGrant` |
| `approvals` | 3 processes, 1 gate, 2 people, crashes, fairness | 21 thousand | `OneWinner`, `EngineFollowsRow`, `DecidedIsFinal`, `AnswerReachesEngine` (liveness), refinement of `OneDecision` |
| `lifecycle` | 1 resource of any of six kinds, 1 hold, 2 workers, budget 2 | 168 thousand | `DeletedIsGone`, `FailedIsSpent`, `HoldFreezes`, `JobIsKept` |
| `coordinator` | 2 tasks, 1 SSE client, one fault anywhere | 481 thousand | `SinkNeedsApproval`, `EndIsToldAlike`, `ReceiptsAreStored`, `OwnInputs`, `StreamIsTimeline`, `ClosedStreamEnds`, `StatesFollowTables` |
| `publishing` | 2 threads, 1 capability of 3 versions, 3 publications, 1 partner's call at a time | 2.3 million | `CardsAreKept`, `RevokedIsDenied`, `PublishedIsFound`, `PartnerSeesPublished`, `OnlyPermittedCalls` |
| `planning` | templates of 2 or 3 nodes of seven shapes, 4 registries, 6 tasks, 1 replacement | 341 thousand | `ParseDecides`, `CompileDecides`, `SignedWasAllowed` |
| `runtime` | 2 node runs of a cell, 2 leases, 2 keys, 2 events, 1 fault | 825 thousand | `NoZombieWrites`, `DeliveredIsStored`, `SeqsAreDistinct`, `EveryEventArrives` (liveness) |
| `api` | an application and a browser behind one address, 1 task, 2 calls each, burst 2 | 350 thousand | `RateIsKept`, `ApprovedByIntent`, `HistoryIsTrue`, `EveryCallReturns` (liveness) |

Runs in which the code departs from what its documents say (one property each,
see `findings`):

| run | property | what happens |
|---|---|---|
| `approvals_shared` | `OneWinner` | a sync endpoint commits the loop's transaction: two processes both apply a decision |
| `approvals_restart` | `DecidedTaskEnds` | after a restart the event exists but nobody waits for it |
| `lifecycle_hold` | `HeldIsNotErased` | the hold is checked at the request, not at the execution |
| `api_reject` | `ApprovedByIntent` | AgenticHub's decide endpoint approves whatever its body says: a rejection makes the task succeed |

Why these bounds are enough to be interesting. Three processes let two callers
race while a third interferes (in `break_glass` two of the three workers are
threads of one process, so that a call meets one on its own connection and one
on another); three people are an applicant and two approvers,
and every pair of roles may be one person. One request or gate suffices because
rows of different keys share nothing but the connection (`approvals_shared`
has the shared connection). `MaxSeq` 2 bounds the decision rows of a gate: the
second one needs two winners, which `approvals` excludes and `approvals_shared`
reaches. `HardMax` 2 with windows 0, 3 and none exercises both clamps.
`MaxFaults` of the lifecycle bounds adapter exceptions above the retry budget,
so that a budget spent twice is reached; in the coordinator it is the number of
raising calls, each possible at every Op. `Replay` 256 and `QueueMax` 512 are
the code's values: one review publishes about twenty events and reaches
neither. In `publishing` two threads are what an overlap takes; three
publications of three versions are a first one, one that the copies have to keep
and one that a revocation promotes, and a partner's
call falls between their steps. Two constraints keep the overlaps affordable
(the theorems have neither): once a request is mixed, `MixedBound` stops the clock
at 0 and counts no more than two answers and no audit event; once calls have
crossed, `OverlapBound` leaves the switch open, lets a partner call between the
registry calls only, and has two of the three versions. Two capabilities of two
versions, without partners and without the constraint, were checked beside it (10.8
million states). In `planning` three nodes are the
fewest with a gate beside the path to an effect; the edges include a self-loop, a
cycle and an unknown node. In `runtime` two leases are an old and a new worker,
and one fault is a flush that ends between the sink and `mark_delivered`. In
`api` a burst of 2 with refill 2 lets a pause overfill a bucket that is not
clamped, two clients want different decisions, and `RingMax` 1 makes the ring
drop a record (the code's 16). Symmetry is used on sets of interchangeable values
only, and not where liveness is checked.

Deadlock checking is off where calls simply end and nothing more may come
(break-glass, whose clock is bounded, and approvals, whose gates are created
once; publications, leases, calls and a plan's stages are bounded too); lifecycle
and coordinator are checked for it.

Fairness, and why the code justifies it. `Approvals!FairSpec`: a handler is
carried on, a crashed process is restarted by its supervisor, and `Resume` is
strongly fair since the loop's ready queue is first in, first out.
`Runtime!LiveSpec`: the dispatcher is called at an interval and works through its
batch; faults come to an end. `Api!FairSpec`: the loop and the pool serve whoever
waits (strongly: a call that waits while the loop is blocked again and again is
still first in a queue), a sleeping client wakes, a delivery begun goes on; no
fairness for people or for the runs.

Each property of a passing run has a mutant: a change of one mapped definition
as a plausible bug would make it (`SignRefused_SameTwice`, `Snapshot_Empty`,
...), under which TLC finds that property violated.

## 4. The proofs

Every safety property that a passing run checks is a theorem, for every value
of the constants that the named `ASSUME`s of the modules admit; the runs
evaluate those assumptions. What a theorem needs beyond them stands before its
`=>` and is named below. The property itself is seldom inductive: what has to be
added to it is the point of each proof.

`BreakGlassProofs` proves, for any sets of requests, people, tenants and
workers, any windows, hard maximum and clock:

* `TypeCorrect`: `Spec => []TypeOK`, shared connections included;
* `TwoPersonControl`, `AnswersKept`, `TerminalIsFinal`, `ExpiresWhenDue`, and that
  `Spec` implements `TwoPersonGrant!Spec`, for any assignment of workers to
  connections: one process with a pool of threads, as shipped, many processes, or
  many pools.

None has a hypothesis; what sharing a connection costs is in the properties. That
nobody signs a request of their own holds of every row, mixed or not, since
`approve` compares with an applicant that no statement changes. That a grant has
two distinct signatures, that answers stay true, that a closed request is final
and that the sweep expires what is due hold of a request in whose transactions no
other thread of the same process has taken part (`mixed`), and the refinement maps
a mixed request to the abstract `void`. The exemption is needed, and a pool is
enough to reach it. Without it TLC finds

* an **active grant with one signature**: thread A has written the first signature
  and not committed; B on the same connection reads `first-approved` and decides
  on `active`; A's statement fails and its rollback takes the signature away; B's
  UPDATE, which compares nothing, makes the row active;
* a revoked request that a signature read before the revocation makes active again;
* two signatures of one person, from two overlapping calls of hers.

The inductive invariant adds to the property what the lock gives: a worker
between its SELECT and its commit holds the lock of its row, whatever is dirty
on a connection for a request that is not mixed belongs to the one call that is
running there, and the outcome the worker carries (`first-approved`, `active`,
`revoked`) still fits the row it read. Without it the UPDATE, which does not check
the state again, would not preserve anything.

`LifecycleProofs` proves for any numbers of resources, holds, workers and any
budget, with no further assumption: `TypeOK`, `DeletedIsGone`, `FailedIsSpent`,
`HoldFreezes` and `JobIsKept`. The inductive invariant `IInv` is `TypeOK`,
`CopiesKnown` (what exists is a known copy), `CallsInv` (a call past the
deleter that will report no kept copy has indeed removed them, and the attempt
it remembers is at most the row's) and the two invariants themselves.
`CallsInv` is why a late execution that overwrites the state of another one
still writes the truth.

`PublishingProofs` proves `TypeOK`, `CardsAreKept`, `RevokedIsDenied`,
`PublishedIsFound` and `PartnerSeesPublished` for any number of threads,
capabilities, versions and publications; that `IngressSpec` implements
`Publishing!Spec`, so that all of it holds while partners call; and
`OnlyPermittedCalls`, for any audiences, scopes, views and bounds. No theorem has a
hypothesis: calls may overlap in every way the thread pool allows, and the
properties say what that leaves.

* Cards are kept, revoked versions stay denied, and a call that a partner gets
  through is permitted, for every version whose publications did not overlap
  another publication (`raced`). Revocations and deprecations may overlap
  anything. Without the exemption TLC finds two POSTs of one version that overlap:
  the first assigns its registry, the version is revoked, and the second assigns
  what it has built from older tables, with the version published and admitted
  again.
* The latest pointer, and that nothing revoked is listed, also need that the
  capability's (or the listed version's) publications and revocations did not
  overlap each other (`crossed`): a revocation that works on a registry object a
  publication has just copied leaves the copy's pointer on the revoked version,
  and two revocations promote each other's version.

The types need `Sound`: a version of a registry, current or being built, is an
entry of that version. The promises need what each call in the middle relies on:
as long as a version is not raced, no two publications of it are under way, what
one of them has copied is what the current tables say of the version
(`InStep`), and the card of a revoked version is in no table as another one
(`CardInv`). The latest pointer and the index are off only for a version whose
revocation is under way, and that call will correct them (`LatestInv`,
`IndexInv`). For the partner's side, a registry somebody holds is `Sound` even
when it is no longer the current one; since an unraced version has one card and
the current registry has it, a version the old object finds published has not
been revoked in the new one (`HeldSound`).

`RuntimeProofs` proves `TypeOK`, `NoZombieWrites` and `DeliveredIsStored` for any
cells, node runs, numbers of leases and *dispatchers*, with no further
assumption. `NoZombieWrites` needs that the cell's high-water is at least every
token written there and is itself one that was written; `reset_node_run` does not
touch it. `DeliveredIsStored` needs that a flush in step `mark` has stored its
event, and that the primary key keeps an event from being there twice.
`SeqsAreDistinct` holds under `OneFlusher` (one thread flushes; with two it is
false, see below): a flush between its two transactions has read the last number
of its task, and nobody else appends there until it has inserted the next
(`SeqInv`).

`ApprovalsProofs` proves for any gates, processes and people, for `Spec` (a
process's loop has its connection to itself; `approvals_shared` shows what
happens otherwise), `TypeOK`, `OneWinner`, `EngineFollowsRow`, `DecidedIsFinal`
and that `Spec` implements `OneDecision!Spec`. The invariant has three links. A
handler between its SELECT and its commit holds the row lock of its gate and the
row is still pending (`LoopInv`), which is why the UPDATE need not ask again. A
set entry that has an approval id holds what the row says (`EntryInv`). And a
coroutine that waits does so at an entry of its own, live process whose id it
shares (`RunInv`): an entry that a restart registers again is nobody's. What was
told follows, since a row says one decision of one person.

`ApiProofs` proves, for any clients, tasks, sizes of buckets and rings, and any
bounds on clock and calls:

* `RateIsKept`, with no further assumption. It compares any two of a caller's
  requests, the bucket knows the last instant only; so the invariant accounts for
  what the bucket still holds: from each request that was let through on, their
  number and the tokens left are within a burst and the refill since then
  (`Balanced`). A refill in two steps gives no more than one in one step.
* `ApprovedByIntent` if no client is one of `Hubs`, whose endpoint takes every
  decision for an approval (`api_reject` is the counterexample with one), and
  `DecidedByHuman`, that somebody decided, with them. A call on its way carries a
  decision that its client has meant (`CallInv`), the row names one that was
  meant (`TaskInv`).
* `HistoryIsTrue`: a message on its way, in the ring or at the partner tells the
  state of a task that has ended, and that state does not change any more
  (`HookInv`).

`CoordinatorProofs` proves, for any number of tasks, SSE clients and faults:
`OwnInputs`, `SinkNeedsApproval`, `ReceiptsAreStored`, `EndIsToldAlike`,
`StatesFollowTables`, and under `Roomy` the two promises of the stream,
`StreamIsTimeline` and `ClosedStreamEnds`. A coroutine that runs has a list of Ops
before it, so an invariant must say what the rest of the list will do. It does
so by automata (`Leads`): a set of moves, each an Op with the state of the task
before and after, for what one property looks at: whose inputs the orchestrator
holds (`OwnMoves`), how far one node has come (`StageMoves`), how the row and the
timeline of the run stand to one another (`RunMoves`). `OnCourse` is the
invariant: what is left to do leads from where the task is to a state that is
right for the place where the coroutine is suspended next, and every suspended
coroutine is in such a state already. Each list the code can put there is then
a word of the automaton, which is a lemma of its own and has to do with no
interleaving; a failure or a crash only replaces the list. `Roomy` says that
the bus keeps 65 events of a topic and a queue holds more than that. It is not an
assumption about a run but a fact of the engine: no timeline gets longer than
that (`LengthInv`, proved from the same lists), and `InProcessEventBus` has 256
and 512. `BusInv` then says that history and timeline agree or the process has
lost the topic, and that what a client has read and what waits for it are a
timeline with the sentinel behind it exactly if the topic is closed.

`PlanningProofs` proves, for any templates, contexts, stores and number of
replacements:

* `ParseDecides`. `topological_order` is a loop over a queue. Its invariant
  (`QueueInv`) is that no node is twice in order and queue, that a degree counts
  the edges from nodes not yet taken, that a node is taken or waits exactly if
  all before it are taken, and that nothing is taken before what leads to it. So an
  order with all nodes is one they can run in (`OrderRuns`); and if they can run in
  some order, the first of them that the loop leaves out would have had to be
  waiting (`RunsOrder`).
* `CompileDecides`. What the type checker covers is what no order runs before the
  gate (`CoveredIs`): where an edge-closed set of nodes has the gate and not the
  node, an order that puts the whole set behind all others is still an order
  (`Behind`). The labels of the flow checker are as clear and as trusted as the
  first one (`LabelsAre`), which is what the checker's two rules depend on.
* `SignedWasAllowed`. The invariant ties the bindings to one resolve over one
  store, however often an amendment bound nodes again (`BoundInv`), and the errors
  to the manifests the compiler was given (`CheckInv`). The sort key of the
  eligible capabilities is a total order, so the router's first is the best.

Induction over data is out of the prover's reach in general, since the library's
theorems on it take an operator. Where these proofs need it, they take the
least counterexample of a set of numbers (`Least`, from the well-foundedness of
`<`); that a recursive function of the model is what its definition says is
proved in the same way, by gluing its finite beginnings together (`RunsExist`,
`LoopExists`). `Compiler` therefore has recursive functions and no RECURSIVE
operator, and its closure of the edges is the least closed set.

Only model-checked: the liveness properties `AnswerReachesEngine`,
`EveryEventArrives` and `EveryCallReturns` (fairness and ENABLED are out of the
prover's reach), and that the four findings are ones: a theorem does not refute.

## 5. What is left out, and what is abstracted

* Payloads, digests, signatures, wording, metrics. A receipt is a member of a
  set, an event a pair of kind and node.
* In-memory stores of the development path (artifacts, webhook history) count
  as durable.
* `list`, `get` and `is_active` calls change nothing; where they end the
  connection's transaction they are steps (`ReadOnly`, `OtherThread`).
* Signatures and tokens: a grant, a card or a token is signed or it is not. What
  the ingress checks of a token is its signature, audience and scopes.
* Rate limiting in floats: integers instead; `retry_after` is left out.
* The isolating store wrapper and the tenant tables, the Merkle tree and the
  artifact store, observability, GA reports, connectors, the command line: not
  modelled. They are tables in memory used by one thread, pure functions over
  hashes, or wiring; the observations below name what was met in them.
* The liveness of a break-glass window, of a retried deletion job and of an SSE
  stream after a restart is not stated: nothing in the code drives them, and
  what happens then is in the list below.

Met while reading, without a run of its own (each at its line):

* Break-glass: two threads of one process can make a grant active with one
  signature (`event_store.py:264`; section 4); nothing schedules `sweep_expired` and
  `is_active` reads the state, so a grant outlives its window
  (`break_glass.py:361`); the anchor id of a tenant-scoped request differs in
  every process (`break_glass.py:412`). `healthz` counts the active grants of
  tenant `""`, which is always 0, and a deletion backlog with a call that always
  raises.
* Lifecycle: a tenant-wide hold blocks nothing, since `is_resource_held` joins the
  resource table (`lifecycle.py:651`); a retry finds its copy gone and reports it
  as kept, so the job stays partial for ever (`lifecycle.py:574`, `:806`);
  `release_hold` gets the header's or the releaser's name as tenant
  (`api/admin_lifecycle.py`).
* Streams: after a restart the bus knows of no closed topic and the stream of a
  finished task hangs (`api/app.py:838`); a full subscriber queue drops the
  sentinel too (`event_bus.py:70`; 512 events, a review publishes twenty).
* Publishing: two overlapping `POST /admin/publish` calls lose a card, and can
  bring a revoked version back (`api/app.py:1141`; section 4); `get` answers a
  deprecated card as long as it is the latest; `deprecate` takes a revoked card back to deprecated. `Ingress.admit`
  never asks the kill switch, although `docs/walkthrough-publishing.md:142` says
  every subsequent admit raises: here the host asks both. The token's `exp` and
  the contract's `expires_at` are not enforced; the release gate compares the
  numbers of citations and claims only (`release_gate.py:108`) and keeps the card
  it was made with.
* Approvals: with `required_approvers` 2 one person may approve twice, and above
  2 no number is enough (`event_store.py:701`); two creators of one gate insert
  two rows (`event_store.py:581`); `ADR/0013-persistent-approval-workflow.md:151`
  promises the loser a 409, the endpoint answers 200.
* Runtime: `verify` signs a grant again with every key of its cell that is not
  revoked, so a grant under a revoked key stays good after a rotation, and
  `issue` uses the current key even when it is revoked; `ttl_seconds` is ignored
  (`credential_broker.py`). A redelivered event hits its primary key and stays
  pending for ever, and `max_attempts` decides nothing (`outbox.py:112`). With
  two dispatchers two events get one number (`event_store.py:390`). A worker with
  a younger lease on another node run of the cell makes an older valid token
  stale (`fencing.py:48`). The reconciler reports an expired lease although a
  newer one lives.
* Webhooks: the dispatcher retries every answer that is not 2xx
  (`dispatcher.py:237`; `ADR/0010` says 5xx); the server never sets the
  attributes its wrapper reads (`api/app.py:127`); an exception other than
  `httpx.HTTPError` is swallowed without a record; after a successful retry the
  older failure is found and sent again.
* HTTP: the limiter and the size check are outside the metrics middleware, whose
  comment says the opposite; their 429 and 413 are no problem documents, so the
  SDK raises its general error. The SDK's receipts, approvals and stream calls
  use routes the server does not have.
* Console: the security hub looks for task state `awaiting-approval`, which the
  engine never writes; `_derive_node_runs` ignores `node.approved`, so the gate
  is shown waiting for ever, which is why `EndIsToldAlike` compares the other
  nodes only; a decision that did not count redirects like one that did.
* Compiler: a template that does not parse makes `TrustCompiler.compile` raise a
  `NameError` instead of answering (`CompileErrorKind` is not imported,
  `trust_compiler.py:73`); `amend` does not exclude the capability that
  is not available; the router's fallback is never put to the policy, and is
  chosen although it need not be "in the *original* set", as the docstring of
  `route` asks (`router.py:68-70`); an empty
  manifest store is falsy and replaced by the defaults; the engine's own routing
  does not use the compiler.
* Comments of the checkers that `CompileDecides` does not follow, since the code
  does not: `info_flow.py:16-18` says that what is fed to a public capability "must
  be at most PARTNER. If it is INTERNAL or RESTRICTED, deny", while the check
  (`:117`, under the comment "accepts only public-classified data") refuses PARTNER
  too, and two of the run's tasks are Partner; `effect_checker.py:5` wants the
  node's effects to be "A subset of the Capability Manifest's declared Effects",
  while the check (`:54-57`) refuses a capability with effects the node does not
  declare; `policy.py:235` and `schema.py:116-117` ask for an approval "downstream"
  of a high-risk effect, while the check (`effect_checker.py:69-73`) asks for a gate
  from which the node is reached, so that the person is asked before the effect.
  In each case the comment or the message at the check itself agrees with the code.
* Isolation and evidence: `upsert_task_run` of the isolating store updates another
  tenant's row, `ArtifactStore.put` overwrites another cell's triple, and the
  Merkle tree duplicates the last leaf of an odd layer.

## 6. Plan

What is left, in order of importance; (a) model and check, (b) prove.

1. (a) The isolating store and the Merkle proofs against a reference definition.
2. (b) `SeqsAreDistinct` for several dispatchers whose batches share no task, and
   `SuccessWasMeant` with hosts on tasks that no host decides.
3. (b) An abstract stream (a client reads a prefix of the timeline and then ends)
   that `EventBus` within `Coordinator` implements, from `BusInv`.

Runs are one per question: a new module's run takes the place of a violation run
whose finding is in the list above.
