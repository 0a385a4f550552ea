---------------------------- MODULE Lifecycle ----------------------------
(***************************************************************************)
(* Retention, legal holds and deletion jobs: LifecycleManager              *)
(* (orchestra/enterprise/lifecycle.py), its tables in the EventStore and   *)
(* its per-resource deleter adapters, for the resources of one tenant.     *)
(*                                                                         *)
(* The admin endpoints are sync, so Workers are threads of the server's    *)
(* pool (or CLI processes).  A call is a sequence of store methods, each a *)
(* transaction of its own and one step here; between two of them any other *)
(* call may run.  A step that raises, or a process that dies, leaves the   *)
(* call where it was: Abandon.                                             *)
(***************************************************************************)
EXTENDS Integers

CONSTANTS Resources,    \* resource ids of the tenant
          Holds,        \* hold ids
          Workers,      \* threads that serve admin calls
          MaxAttempts,  \* max_attempts of every job
          MaxFaults,    \* bound on the adapter exceptions of one job
          NoJob, NoHold, Nothing

ASSUME BudgetType == MaxAttempts \in Nat \ {0} /\ MaxFaults \in Nat

VARIABLES kind,    \* kind[r]: the ResourceKind of r, which never changes
          copies,  \* copies[r]: the known copies of r that still exist
          policy,  \* policy[k]: the lifecycle_policies row of kind k
          hold,    \* hold[h]: the legal_holds row and its resources
          job,     \* job[r]: the deletion_jobs row, UNIQUE per resource
          call     \* call[w]: where worker w is in its call

vars == <<kind, copies, policy, hold, job, call>>

Kinds == {"artifact", "receipt", "event", "webhook", "cache", "backup"}

\* A receipt is a row and the payload of the events that name it; there is no cache layer.
Known(k) == IF k = "receipt" THEN {"main", "event"}
            ELSE IF k = "cache" THEN {} ELSE {"main"}

\* DeletionState; no code path writes its member held.
JobStates == {"pending", "running", "deleted", "partial", "failed"}

Job == [state : JobStates, attempt : Nat]
Hold == [scope : SUBSET Resources, active : BOOLEAN]

ASSUME SentinelType == /\ Nothing \notin Resources
                       /\ NoJob \notin Job /\ NoHold \notin Hold

Call == [pc : {"idle", "retention", "create", "reset", "read", "start", "erase", "redact",
               "finish", "fail"},
         res : Resources \cup {Nothing}, force : BOOLEAN,
         attempt : Nat,     \* attempt_before
         kept : BOOLEAN]    \* the evidence's copies_kept > 0

IdleCall == [pc |-> "idle", res |-> Nothing, force |-> FALSE, attempt |-> 0, kept |-> FALSE]

TypeOK == /\ kind \in [Resources -> Kinds]
          /\ copies \in [Resources -> SUBSET {"main", "event"}]
          /\ policy \in [Kinds -> {"none", "retain", "auto_delete"}]
          /\ hold \in [Holds -> Hold \cup {NoHold}]
          /\ job \in [Resources -> Job \cup {NoJob}]
          /\ call \in [Workers -> Call]

Init == /\ kind \in [Resources -> Kinds]
        /\ copies = [r \in Resources |-> Known(kind[r])]
        /\ policy = [k \in Kinds |-> "none"]
        /\ hold = [h \in Holds |-> NoHold]
        /\ job = [r \in Resources |-> NoJob]
        /\ call = [w \in Workers |-> IdleCall]

-----------------------------------------------------------------------------
(* Policies and holds. *)

SetPolicy(k, p) == /\ policy' = [policy EXCEPT ![k] = p]
                   /\ UNCHANGED <<kind, copies, hold, job, call>>

\* create_hold: one transaction for the hold and its resources; an empty scope is the
\* tenant-wide hold.
CreateHold(h, scope) ==
    /\ hold[h] = NoHold
    /\ hold' = [hold EXCEPT ![h] = [scope |-> scope, active |-> TRUE]]
    /\ UNCHANGED <<kind, copies, policy, job, call>>

\* release_hold by an identity of the tenant; the other answers change nothing.
ReleaseHold(h) == /\ hold[h] # NoHold /\ hold[h].active
                  /\ hold' = [hold EXCEPT ![h].active = FALSE]
                  /\ UNCHANGED <<kind, copies, policy, job, call>>

\* is_resource_held: the JOIN with legal_hold_resources, which a tenant-wide hold has no
\* rows in.
Held(r) == \E h \in Holds : /\ hold[h] # NoHold /\ hold[h].active
                            /\ r \in hold[h].scope

-----------------------------------------------------------------------------
(* delete: the hold gate, the retention gate, the job row. *)

To(w, pc) == call' = [call EXCEPT ![w].pc = pc]

\* Mutant: the hold gate is left out.
RequestDelete_NoGate(w, r, force) ==
    /\ call[w].pc = "idle"
    /\ call' = [call EXCEPT ![w] = [IdleCall EXCEPT !.pc = "retention", !.res = r,
                                                    !.force = force]]
    /\ UNCHANGED <<kind, copies, policy, hold, job>>

\* A held resource raises LifecycleBlocked, after a best-effort audit row.
RequestDelete(w, r, force) ==
    /\ call[w].pc = "idle"
    /\ ~Held(r)
    /\ call' = [call EXCEPT ![w] = [IdleCall EXCEPT !.pc = "retention", !.res = r,
                                                    !.force = force]]
    /\ UNCHANGED <<kind, copies, policy, hold, job>>

Permitted(w) == policy[kind[call[w].res]] # "retain" \/ call[w].force

RetentionGate(w) == /\ call[w].pc = "retention"
                    /\ IF Permitted(w) THEN To(w, "create")
                       ELSE call' = [call EXCEPT ![w] = IdleCall]
                    /\ UNCHANGED <<kind, copies, policy, hold, job>>

\* Mutants: the conflict clause overwrites the existing row; a job that is created while
\* a hold is in force starts held.
Upserted_Held(r) == [state |-> IF Held(r) THEN "held" ELSE "pending", attempt |-> 0]
Upserted_Fresh(r) == [state |-> "pending", attempt |-> 0]

\* INSERT ... ON CONFLICT DO UPDATE SET state = deletion_jobs.state.
Upserted(r) == IF job[r] = NoJob THEN [state |-> "pending", attempt |-> 0] ELSE job[r]

CreateJob(w) == /\ call[w].pc = "create"
                /\ job' = [job EXCEPT ![call[w].res] = Upserted(call[w].res)]
                /\ call' = [call EXCEPT ![w] = IdleCall]
                /\ UNCHANGED <<kind, copies, policy, hold>>

-----------------------------------------------------------------------------
(* execute_deletion and retry_deletion. *)

\* The states execute_deletion's first check returns on.
Terminal == {"deleted", "failed"}

\* execute_deletion's first step, get_deletion_job.
Read(w, r) ==
    /\ job[r] # NoJob
    /\ call' = [call EXCEPT ![w] =
                  IF job[r].state \in Terminal THEN IdleCall
                  ELSE [IdleCall EXCEPT !.pc = "start", !.res = r, !.attempt = job[r].attempt]]
    /\ UNCHANGED <<kind, copies, policy, hold, job>>

\* From the endpoint, and from retry_deletion after its reset.
ExecuteJob(w, r) == call[w].pc = "idle" /\ Read(w, r)
ExecuteAgain(w) == call[w].pc = "read" /\ Read(w, call[w].res)

\* update_deletion_job: it names the job only, whatever its state is by now.
UpdateJob(r, state, more) ==
    job' = [job EXCEPT ![r] = [state |-> state, attempt |-> @.attempt + more]]

StartJob(w) == /\ call[w].pc = "start"
               /\ UpdateJob(call[w].res, "running", 0)
               /\ To(w, "erase")
               /\ UNCHANGED <<kind, copies, policy, hold>>

\* The adapters' copies_kept for the copy they remove: artifact, webhook and receipt
\* report one that is already gone as kept, redacting an event again succeeds, a cache
\* entry counts nothing and a backup is always kept.
KeptMain(r) == \/ kind[r] = "backup"
               \/ kind[r] \in {"artifact", "webhook", "receipt"} /\ "main" \notin copies[r]

Removable(r) == IF kind[r] = "backup" THEN {} ELSE {"main"}

AfterMain(w, kept) == call' = [call EXCEPT ![w].kept = kept,
                                 ![w].pc = IF kind[call[w].res] = "receipt" THEN "redact"
                                           ELSE "finish"]

\* The adapter removes the main copy.
Erase(w) == LET r == call[w].res
            IN /\ call[w].pc = "erase"
               /\ copies' = [copies EXCEPT ![r] = @ \ Removable(r)]
               /\ AfterMain(w, KeptMain(r))
               /\ UNCHANGED <<kind, policy, hold, job>>

\* The adapter's own store raises; it catches that and reports the copy as kept.
EraseError(w) == /\ call[w].pc = "erase"
                 /\ kind[call[w].res] \in {"receipt", "event", "webhook"}
                 /\ AfterMain(w, TRUE)
                 /\ UNCHANGED <<kind, copies, policy, hold, job>>

\* get_receipt raises before anything is removed: the adapter fails.
EraseRaises(w) == /\ call[w].pc = "erase"
                  /\ kind[call[w].res] = "receipt"
                  /\ job[call[w].res].attempt < MaxFaults
                  /\ To(w, "fail")
                  /\ UNCHANGED <<kind, copies, policy, hold, job>>

\* Mutant: an error while redacting is not recorded as a kept copy.
RedactKept_Dropped(w, ok) == call[w].kept

RedactKept(w, ok) == call[w].kept \/ ~ok

\* _delete_receipt redacts the events that name the receipt, or records the error.
Redact(w) == /\ call[w].pc = "redact"
             /\ \E ok \in BOOLEAN :
                   /\ copies' = [copies EXCEPT ![call[w].res] = IF ok THEN @ \ {"event"} ELSE @]
                   /\ call' = [call EXCEPT ![w].pc = "finish", ![w].kept = RedactKept(w, ok)]
             /\ UNCHANGED <<kind, policy, hold, job>>

\* The final state is read off the evidence.
FinishJob(w) == /\ call[w].pc = "finish"
                /\ UpdateJob(call[w].res, IF call[w].kept THEN "partial" ELSE "deleted", 0)
                /\ call' = [call EXCEPT ![w] = IdleCall]
                /\ UNCHANGED <<kind, copies, policy, hold>>

\* Mutant: the budget is compared with one attempt too many.
Outcome_Early(attempt) == IF attempt + 2 >= MaxAttempts THEN "failed" ELSE "partial"

\* _handle_adapter_failure decides by attempt_before; the row's own attempt is incremented.
Outcome(attempt) == IF attempt + 1 >= MaxAttempts THEN "failed" ELSE "partial"

FailJob(w) == /\ call[w].pc = "fail"
              /\ UpdateJob(call[w].res, Outcome(call[w].attempt), 1)
              /\ call' = [call EXCEPT ![w] = IdleCall]
              /\ UNCHANGED <<kind, copies, policy, hold>>

\* retry_deletion's checks; the calls it refuses change nothing.
RetryJob(w, r) == /\ call[w].pc = "idle"
                  /\ job[r] # NoJob /\ job[r].state # "deleted"
                  /\ ~(job[r].state = "failed" /\ job[r].attempt >= MaxAttempts)
                  /\ call' = [call EXCEPT ![w] = [IdleCall EXCEPT !.pc = "reset", !.res = r]]
                  /\ UNCHANGED <<kind, copies, policy, hold, job>>

ResetJob(w) == /\ call[w].pc = "reset"
               /\ UpdateJob(call[w].res, "pending", 0)
               /\ To(w, "read")
               /\ UNCHANGED <<kind, copies, policy, hold>>

\* A store method raises out of the call, or the worker dies.
Abandon(w) == /\ call[w].pc # "idle"
              /\ call' = [call EXCEPT ![w] = IdleCall]
              /\ UNCHANGED <<kind, copies, policy, hold, job>>

-----------------------------------------------------------------------------

Continue(w) == RetentionGate(w) \/ CreateJob(w) \/ StartJob(w) \/ Erase(w) \/ EraseError(w)
               \/ EraseRaises(w) \/ Redact(w) \/ FinishJob(w) \/ FailJob(w) \/ ResetJob(w)
               \/ ExecuteAgain(w)

Next == \/ \E r \in Resources, p \in {"retain", "auto_delete"} : SetPolicy(kind[r], p)
        \/ \E h \in Holds, scope \in SUBSET Resources : CreateHold(h, scope)
        \/ \E h \in Holds : ReleaseHold(h)
        \/ \E w \in Workers, r \in Resources :
              \/ \E force \in BOOLEAN : RequestDelete(w, r, force)
              \/ ExecuteJob(w, r) \/ RetryJob(w, r)
        \/ \E w \in Workers : Continue(w) \/ Abandon(w)

Spec == Init /\ [][Next]_vars

-----------------------------------------------------------------------------
(* Properties. *)

InState(r, states) == job[r] # NoJob /\ job[r].state \in states

\* A job says deleted only when every known copy is gone (ADR-0014), whatever errors,
\* retries and concurrent executions of the same job came before.
DeletedIsGone ==
    \A r \in Resources : InState(r, {"deleted"}) => copies[r] = {}

\* A job is failed only when its retry budget is spent, although the executions decide
\* that from an attempt they read earlier and others overwrite the state in between.
FailedIsSpent ==
    \A r \in Resources : InState(r, {"failed"}) => job[r].attempt >= MaxAttempts

\* Nobody has asked for r, or is past the hold gate with it, and all of r is there.
Untouched(r) == /\ job[r] = NoJob /\ copies[r] = Known(kind[r])
                /\ \A w \in Workers : call[w].res # r

\* What the hold gate of delete() does guarantee: a hold placed on a resource before
\* anyone asks to delete it keeps everybody away from it for as long as it is in force.
HoldFreezes ==
    [][\A r \in Resources : Held(r) /\ Untouched(r) /\ Held(r)' => Untouched(r)']_vars

\* A request for a resource that has a job returns that job: neither it nor a retry
\* ever takes attempts back (create_deletion_job, "idempotent").
JobIsKept ==
    [][\A r \in Resources : job[r] # NoJob => /\ job'[r] # NoJob
                                              /\ job'[r].attempt >= job[r].attempt]_job

\* ADR-0014: every deletion checks for an active hold on the resource first.
HeldIsNotErased == [][\A r \in Resources : Held(r) => copies'[r] = copies[r]]_vars
=============================================================================
