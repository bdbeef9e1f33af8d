------------------------------ MODULE ImportJobs ------------------------------
(***************************************************************************)
(* The governed import of cost data: jobs submitted and decided through    *)
(* the API, validated and published by the workers under a lease that is   *)
(* fenced by owner and time, and the snapshot batches the queries read.    *)
(*                                                                         *)
(* Sources: repositories/postgres_import_job_repository.py (transactions), *)
(* worker.py (the import slots), services/import_job_service.py (the API), *)
(* services/cost_data_import_service.py (the publication) and db/models.py *)
(* (the unique indexes).  A transaction is one action, except the          *)
(* publication, which stays open while it holds the lock of its job's row. *)
(* A renewal leaves a lease that is alive alive and revives none, so it is *)
(* a stutter here: LeaseExpires is free to happen or not.                  *)
(***************************************************************************)
EXTENDS Integers

CONSTANTS Jobs,         \* submissions; a job has the name of the one it came from
          Tenants, TenantOf,
          Keys,         \* idempotency keys
          Snapshots,    \* source system, payload hash and calculation rule
          Invalid,      \* snapshots that fail validation
          Workers, Slots, WorkerOf,
          Mortal,       \* workers that may crash or be stopped
          Flaky,        \* slots whose calls may fail
          Abandoned,    \* submissions whose API process may die
          MaxAttempts,  \* MAX_JOB_ATTEMPTS
          NoWorker, NoJob

ASSUME ImportJobsAssumption ==
    /\ TenantOf \in [Jobs -> Tenants]
    /\ WorkerOf \in [Slots -> Workers]
    /\ Invalid \subseteq Snapshots
    /\ Mortal \subseteq Workers
    /\ Flaky \subseteq Slots
    /\ Abandoned \subseteq Jobs
    /\ MaxAttempts \in Nat \ {0}
    /\ NoWorker \notin Workers
    /\ NoJob \notin Jobs

VARIABLES carries,  \* carries[j]: the key and the snapshot of submission j, for good
          request,  \* request[j]: how far the API is with submission j
          owed,     \* owed[j]: audit events the API has yet to append
          job,      \* job[j]: the row of data_import_jobs
          batch,    \* batch[j]: status of the data_load_batches row named after j
          audit,    \* audit[j]: how many governance_audit_events of each action
          exec,     \* exec[t]: the call of _execute_import_job in slot t
          worker    \* worker[w]: the process

vars == <<carries, request, owed, job, batch, audit, exec, worker>>

-----------------------------------------------------------------------------
(* Rows, events and slots *)

WorkingStatuses == {"validating", "publishing"}
ClaimableStatuses == {"submitted", "approved"}
CancellableUntilPublished == {"submitted", "validating", "approval_pending",
                              "approved", "publishing"}
CancellableStatuses == {"submitted", "validating", "approval_pending"}
TerminalStatuses ==
    {"validation_failed", "rejected", "published", "publish_failed", "cancelled"}
Statuses == {"absent", "submitted", "validating", "approval_pending", "approved",
             "publishing"} \cup TerminalStatuses

\* live: lease_expires_at lies in the future; due: available_at does not.
Row == [status: Statuses, owner: Workers \cup {NoWorker}, live: BOOLEAN,
        due: BOOLEAN, attempt: 0..MaxAttempts]
Absent == [status |-> "absent", owner |-> NoWorker, live |-> FALSE, due |-> TRUE,
           attempt |-> 0]

AuditActions == {"submitted", "validated", "approved", "cancelled", "rejected",
                 "validation_failed", "validation_retry_scheduled", "publishing",
                 "published", "publish_failed", "publish_retry_scheduled"}
Audited(j, a) == audit' = [audit EXCEPT ![j][a] = @ + 1]

\* seen: the published batches the publication has set out to retire.
Execution == [pc: {"idle", "validate", "outcome", "announce", "open", "publish",
                   "fail", "report"},
              job: Jobs \cup {NoJob}, phase: WorkingStatuses, attempt: 0..MaxAttempts,
              seen: SUBSET Jobs, retryable: BOOLEAN]
Idle == [pc |-> "idle", job |-> NoJob, phase |-> "validating", attempt |-> 0,
         seen |-> {}, retryable |-> FALSE]

TypeOK == /\ carries \in [Jobs -> [key: Keys, snapshot: Snapshots]]
          /\ request \in [Jobs -> {"new", "insert", "done"}]
          /\ owed \in [Jobs -> SUBSET AuditActions]
          /\ job \in [Jobs -> Row]
          /\ batch \in [Jobs -> {"none", "failed", "published", "superseded"}]
          /\ audit \in [Jobs -> [AuditActions -> Nat]]
          /\ exec \in [Slots -> Execution]
          /\ worker \in [Workers -> {"active", "draining", "gone"}]

-----------------------------------------------------------------------------
(* Helpers *)

Exists(j) == job[j].status # "absent"
Working(j) == job[j].status \in WorkingStatuses
Busy(t) == exec[t].pc # "idle"
At(t, pc) == exec[t].pc = pc
Goto(t, pc) == exec' = [exec EXCEPT ![t].pc = pc]
Acks(t) == IF t \in Flaky THEN BOOLEAN ELSE {TRUE}
Leave(t) == exec' = [exec EXCEPT ![t] = Idle]
Raise(t, retryable) == exec' = [exec EXCEPT ![t].pc = "fail", ![t].retryable = retryable]

\* attempt_count < MAX_JOB_ATTEMPTS
AttemptsLeftOffByOne(j) == job[j].attempt <= MaxAttempts
AttemptsLeft(j) == job[j].attempt < MaxAttempts

\* The row lock an open publication holds.
Unlocked(j) == \A t \in Slots : At(t, "publish") => exec[t].job # j

\* _leased_job: lease_owner = worker_id and lease_expires_at > now.
LeasedUnfenced(t) == Working(exec[t].job)
Leased(t) == job[exec[t].job].owner = WorkerOf[t] /\ job[exec[t].job].live

\* publish_transaction fences once more before it commits.
LeaseHeldAtCommitUnchecked(t) == TRUE
LeaseHeldAtCommit(t) == job[exec[t].job].live

ReleasedKeepingOwner(row, s) == [row EXCEPT !.status = s, !.live = FALSE]
Released(row, s) == [row EXCEPT !.status = s, !.owner = NoWorker, !.live = FALSE]

\* The terminal status a failing job of status s ends in.
FailureOf(s) == IF s = "validating" THEN "validation_failed" ELSE "publish_failed"
RetryOf(s) == IF s = "validating" THEN "validation_retry_scheduled"
                                  ELSE "publish_retry_scheduled"

\* A failure and its event are one transaction.
EndInFailureSilently(j) ==
    /\ job' = [job EXCEPT ![j] = Released(@, FailureOf(job[j].status))]
    /\ UNCHANGED audit
EndInFailure(j) ==
    /\ job' = [job EXCEPT ![j] = Released(@, FailureOf(job[j].status))]
    /\ Audited(j, FailureOf(job[j].status))

Rejected(j) == carries[j].snapshot \in Invalid
SameTenant(j, k) == TenantOf[j] = TenantOf[k]
SameKey(j, k) == SameTenant(j, k) /\ carries[j].key = carries[k].key
SameSnapshot(j, k) == SameTenant(j, k) /\ carries[j].snapshot = carries[k].snapshot

\* uq_data_load_batches_snapshot: one batch row for a snapshot of a tenant.
SnapshotTakenUnindexed(j) == FALSE
SnapshotTaken(j) == \E k \in Jobs \ {j} : SameSnapshot(j, k) /\ batch[k] # "none"

\* The published batches of j's tenant.
PublishedBeside(j) == {k \in Jobs : SameTenant(j, k) /\ batch[k] = "published"}

\* uq_data_load_batches_active_tenant: a batch published since the UPDATE of
\* this publication took its snapshot is still there for its INSERT.
OvertakenNever(t) == FALSE
Overtaken(t) == PublishedBeside(exec[t].job) \ exec[t].seen # {}

\* The rows of one publication, all of them in its transaction.
BatchesLeavingOldOne(t) == [batch EXCEPT ![exec[t].job] = "published"]
BatchesAfter(t) == [k \in Jobs |-> IF k = exec[t].job THEN "published"
                                   ELSE IF k \in exec[t].seen THEN "superseded"
                                   ELSE batch[k]]

-----------------------------------------------------------------------------
(* Requests: the API process *)

Init == /\ carries \in [Jobs -> [key: Keys, snapshot: Snapshots]]
        /\ request = [j \in Jobs |-> "new"]
        /\ owed = [j \in Jobs |-> {}]
        /\ job = [j \in Jobs |-> Absent]
        /\ batch = [j \in Jobs |-> "none"]
        /\ audit = [j \in Jobs |-> [a \in AuditActions |-> 0]]
        /\ exec = [t \in Slots |-> Idle]
        /\ worker = [w \in Workers |-> "active"]

\* create_job looks for a job of the same key or snapshot: it answers with it.
Submit(j) ==
    /\ request[j] = "new"
    /\ request' = [request EXCEPT ![j] =
         IF \E k \in Jobs : Exists(k) /\ (SameKey(j, k) \/ SameSnapshot(j, k))
         THEN "done" ELSE "insert"]
    /\ UNCHANGED <<carries, owed, job, batch, audit, exec, worker>>

\* INSERT ... ON CONFLICT DO NOTHING: only the key is unique among jobs.
Insert(j) ==
    /\ request[j] = "insert"
    /\ request' = [request EXCEPT ![j] = "done"]
    /\ IF \E k \in Jobs : Exists(k) /\ SameKey(j, k)
       THEN UNCHANGED <<owed, job>>
       ELSE /\ job' = [job EXCEPT ![j].status = "submitted"]
            /\ owed' = [owed EXCEPT ![j] = @ \cup {"submitted"}]
    /\ UNCHANGED <<carries, batch, audit, exec, worker>>

Decide(j, decision) ==
    /\ job[j].status = "approval_pending"
    /\ job' = [job EXCEPT ![j].status = decision]
    /\ owed' = [owed EXCEPT ![j] = @ \cup {decision}]
    /\ UNCHANGED <<carries, request, batch, audit, exec, worker>>

Cancel(j) ==
    /\ job[j].status \in CancellableStatuses
    /\ job' = [job EXCEPT ![j] = Released(@, "cancelled")]
    /\ owed' = [owed EXCEPT ![j] = @ \cup {"cancelled"}]
    /\ UNCHANGED <<carries, request, batch, audit, exec, worker>>

\* The service appends the event in a transaction of its own, if it lives.
RequestAudit(j) == \E a \in owed[j] :
    /\ Audited(j, a)
    /\ owed' = [owed EXCEPT ![j] = @ \ {a}]
    /\ UNCHANGED <<carries, request, job, batch, exec, worker>>

RequestDies(j) == /\ j \in Abandoned /\ owed[j] # {}
                  /\ owed' = [owed EXCEPT ![j] = {}]
                  /\ UNCHANGED <<carries, request, job, batch, audit, exec, worker>>

-----------------------------------------------------------------------------
(* claim_next_job *)

CanPoll(t) == worker[WorkerOf[t]] = "active" /\ ~Busy(t)

\* claim_next_job's WHERE clause, FOR UPDATE SKIP LOCKED.
ClaimableWaiting(j) ==
    /\ job[j].due /\ Unlocked(j)
    /\ job[j].status \in ClaimableStatuses /\ AttemptsLeft(j)
Claimable(j) ==
    /\ job[j].due /\ Unlocked(j)
    /\ \/ job[j].status \in ClaimableStatuses /\ AttemptsLeft(j)
       \/ Working(j) /\ ~job[j].live

\* A working job whose last attempt lost its lease fails, with its audit event.
ClaimExhausted(t, j) ==
    /\ CanPoll(t) /\ Claimable(j)
    /\ Working(j) /\ ~AttemptsLeft(j)
    /\ EndInFailure(j)
    /\ UNCHANGED <<carries, request, owed, batch, exec, worker>>

Claim(t, j) ==
    LET n == job[j].attempt + 1
        s == CASE job[j].status = "submitted" -> "validating"
               [] job[j].status = "approved" -> "publishing"
               [] OTHER -> job[j].status
    IN  /\ CanPoll(t) /\ Claimable(j)
        /\ AttemptsLeft(j)
        /\ job' = [job EXCEPT ![j] = [@ EXCEPT !.status = s, !.attempt = n, !.live = TRUE,
                                              !.owner = WorkerOf[t]]]
        /\ exec' = [exec EXCEPT ![t] =
             [pc |-> IF s = "validating" THEN "validate" ELSE "announce", job |-> j,
              phase |-> s, attempt |-> n, seen |-> {}, retryable |-> FALSE]]
        /\ UNCHANGED <<carries, request, owed, batch, audit, worker>>

-----------------------------------------------------------------------------
(* _execute_import_job.  A transaction of a flaky slot may commit although  *)
(* the worker sees an error (acked = FALSE).                                *)

\* complete_validation: the outcome, and the error batch of an invalid payload.
CompleteValidation(t) == LET j == exec[t].job IN
    /\ At(t, "validate")
    /\ IF ~Leased(t) \/ job[j].status # "validating"
       THEN Leave(t) /\ UNCHANGED <<job, batch>>
       ELSE IF Rejected(j) /\ SnapshotTaken(j)
       THEN Raise(t, TRUE) /\ UNCHANGED <<job, batch>>
       ELSE /\ IF Rejected(j)
               THEN /\ job' = [job EXCEPT ![j] = Released(@, "validation_failed")]
                    /\ batch' = [batch EXCEPT ![j] = "failed"]
               ELSE /\ job' = [job EXCEPT ![j] = Released(@, "approval_pending")]
                    /\ UNCHANGED batch
            /\ \E acked \in Acks(t) : IF acked THEN Goto(t, "outcome") ELSE Raise(t, TRUE)
    /\ UNCHANGED <<carries, request, owed, audit, worker>>

\* The event of the outcome, in a transaction of its own.
AuditOutcome(t) ==
    /\ At(t, "outcome")
    /\ Audited(exec[t].job, IF Rejected(exec[t].job)
                            THEN "validation_failed" ELSE "validated")
    /\ Leave(t)
    /\ UNCHANGED <<carries, request, owed, job, batch, worker>>

\* Every attempt to publish leaves its event, whoever holds the lease by now.
Announce(t) ==
    /\ At(t, "announce")
    /\ Audited(exec[t].job, "publishing")
    /\ Goto(t, "open")
    /\ UNCHANGED <<carries, request, owed, job, batch, worker>>

\* publish_transaction locks the row; the UPDATE that retires the published
\* batches sees those committed by now.
OpenPublication(t) == LET j == exec[t].job IN
    /\ At(t, "open") /\ Unlocked(j)
    /\ IF ~Leased(t) \/ job[j].status # "publishing"
       THEN Leave(t)
       ELSE exec' = [exec EXCEPT ![t].pc = "publish", ![t].seen = PublishedBeside(j)]
    /\ UNCHANGED <<carries, request, owed, job, batch, audit, worker>>

\* The INSERT and the commit: a unique index or the lapsed lease undoes it all.
Publish(t) == LET j == exec[t].job IN
    /\ At(t, "publish")
    /\ IF Overtaken(t) \/ SnapshotTaken(j)
       THEN Raise(t, TRUE) /\ UNCHANGED <<job, batch, audit>>
       ELSE IF ~LeaseHeldAtCommit(t)
       THEN Leave(t) /\ UNCHANGED <<job, batch, audit>>
       ELSE /\ job' = [job EXCEPT ![j] = Released(@, "published")]
            /\ batch' = BatchesAfter(t)
            /\ Audited(j, "published")
            /\ \E acked \in Acks(t) : IF acked THEN Leave(t) ELSE Raise(t, TRUE)
    /\ UNCHANGED <<carries, request, owed, worker>>

\* A transient fault of the database, the object store or the infrastructure.
Fault(t) == /\ t \in Flaky
            /\ exec[t].pc \in {"validate", "outcome", "announce", "open", "publish"}
            /\ Raise(t, TRUE)
            /\ UNCHANGED <<carries, request, owed, job, batch, audit, worker>>

\* A payload that cannot be read, decoded or does not have its hash.
RejectPayload(t) == /\ t \in Flaky
                    /\ exec[t].pc \in {"validate", "announce", "publish"}
                    /\ Raise(t, FALSE)
                    /\ UNCHANGED <<carries, request, owed, job, batch, audit, worker>>

\* fail_job: whatever status the worker had claimed the job in.
FailJob(t) == LET j == exec[t].job IN
    /\ At(t, "fail") /\ Unlocked(j)
    /\ IF ~Leased(t) \/ ~Working(j)
       THEN Leave(t) /\ UNCHANGED <<job, audit>>
       ELSE IF exec[t].retryable /\ AttemptsLeft(j)
       THEN /\ job' = [job EXCEPT ![j] = [Released(@, job[j].status) EXCEPT !.due = FALSE]]
            /\ Audited(j, RetryOf(job[j].status))
            /\ Leave(t)
       ELSE EndInFailure(j) /\ Goto(t, "report")
    /\ UNCHANGED <<carries, request, owed, batch, worker>>

\* _fail_import_job appends an event of the terminal failure as well.
ReportFailure(t) ==
    /\ At(t, "report")
    /\ Audited(exec[t].job, FailureOf(exec[t].phase))
    /\ Leave(t)
    /\ UNCHANGED <<carries, request, owed, job, batch, worker>>

\* The handling of the failure fails: the slot is freed, the lease stays.
Escape(t) == /\ t \in Flaky
             /\ exec[t].pc \in {"fail", "report"}
             /\ Leave(t)
             /\ UNCHANGED <<carries, request, owed, job, batch, audit, worker>>

-----------------------------------------------------------------------------
(* Processes and time *)

\* request_stop: nothing more is claimed, the slots in use run to their end.
Drain(w) == /\ w \in Mortal /\ worker[w] = "active"
            /\ worker' = [worker EXCEPT ![w] = "draining"]
            /\ UNCHANGED <<carries, request, owed, job, batch, audit, exec>>

\* The process dies with its slots, an open publication is rolled back; the
\* rows keep their lease.
Crash(w) == /\ w \in Mortal /\ worker[w] # "gone"
            /\ worker' = [worker EXCEPT ![w] = "gone"]
            /\ exec' = [t \in Slots |-> IF WorkerOf[t] = w THEN Idle ELSE exec[t]]
            /\ UNCHANGED <<carries, request, owed, job, batch, audit>>

LeaseExpires(j) == /\ job[j].live
                   /\ job' = [job EXCEPT ![j].live = FALSE]
                   /\ UNCHANGED <<carries, request, owed, batch, audit, exec, worker>>

BackoffElapses(j) == /\ ~job[j].due
                     /\ job' = [job EXCEPT ![j].due = TRUE]
                     /\ UNCHANGED <<carries, request, owed, batch, audit, exec, worker>>

-----------------------------------------------------------------------------
(* The specification *)

Poll(t) == \E j \in Jobs : ClaimExhausted(t, j) \/ Claim(t, j)

\* What the thread of slot t does next.
Step(t) == \/ CompleteValidation(t) \/ AuditOutcome(t) \/ Announce(t)
           \/ OpenPublication(t) \/ Publish(t) \/ FailJob(t) \/ ReportFailure(t)

Next == \/ \E j \in Jobs : \/ Submit(j) \/ Insert(j) \/ Cancel(j) \/ RequestAudit(j)
                           \/ RequestDies(j) \/ LeaseExpires(j) \/ BackoffElapses(j)
                           \/ \E d \in {"approved", "rejected"} : Decide(j, d)
        \/ \E t \in Slots : \/ Poll(t) \/ Step(t) \/ Fault(t) \/ RejectPayload(t)
                            \/ Escape(t)
        \/ \E w \in Workers : Drain(w) \/ Crash(w)

Spec == Init /\ [][Next]_vars

\* The lease of a job nobody works on any more has no heartbeat.
Orphaned(j) == \A t \in Slots : Busy(t) => exec[t].job # j

\* A thread goes on unless its process dies, every call it makes has a timeout;
\* a live process polls; a request that was committed audits unless it dies; a
\* clock runs.
Fairness == /\ \A t \in Slots : WF_vars(Step(t)) /\ WF_vars(Poll(t))
            /\ \A j \in Jobs : /\ WF_vars(RequestAudit(j))
                               /\ WF_vars(BackoffElapses(j))
                               /\ WF_vars(Orphaned(j) /\ LeaseExpires(j))

FairSpec == Spec /\ Fairness

-----------------------------------------------------------------------------
(* Properties *)

\* A working job can always be reclaimed: it has an owner whose lease runs
\* out, or a retry is scheduled that still has an attempt.  No other job has
\* an owner.
LeaseDiscipline == \A j \in Jobs :
    /\ job[j].owner # NoWorker => Working(j)
    /\ job[j].live => job[j].owner # NoWorker
    /\ Working(j) /\ job[j].owner = NoWorker => AttemptsLeft(j)

\* The queries of a tenant read one snapshot from its first publication on,
\* whatever publications race, fail or lose their lease meanwhile.
OneSnapshotPerTenant == \A c \in Tenants :
    LET published == {j \in Jobs : TenantOf[j] = c /\ batch[j] = "published"}
    IN  /\ \A j, k \in published : j = k
        /\ published # {} <=>
             \E j \in Jobs : TenantOf[j] = c /\ job[j].status = "published"

\* governance.md: the snapshot, the status and the success event of a
\* publication are never told apart, nor a failed publication from its event.
PublicationTold == \A j \in Jobs :
    /\ job[j].status = "published" <=> batch[j] \in {"published", "superseded"}
    /\ audit[j]["published"] = IF job[j].status = "published" THEN 1 ELSE 0
    /\ job[j].status = "publish_failed" => audit[j]["publish_failed"] > 0

\* A publication commits only under the lease it was opened with, however long
\* it took, and not in an attempt another worker has taken over.
PublishedUnderLease == [][\A j \in Jobs :
    job[j].status # "published" /\ job'[j].status = "published" => job[j].live]_vars

\* With one slot per worker, a slot changes only the job of the attempt it
\* claimed, never the work of a later attempt: its lease has passed on.
OnlyTheHolderWrites == [][\A t \in Slots, j \in Jobs :
    /\ Busy(t) /\ exec[t].job = j
    /\ exec'[t] # exec[t] /\ job'[j] # job[j]
    => exec[t].attempt = job[j].attempt]_vars

\* Of submissions that carry the same snapshot at most one has a batch.
OneBatchPerSnapshot == \A j, k \in Jobs :
    SameSnapshot(j, k) /\ batch[j] # "none" /\ batch[k] # "none" => j = k

\* A submitted or claimed job does not stay in the hands of the workers: it is
\* validated, published, failed or cancelled as long as one worker survives.
EveryClaimEnds == \A j \in Jobs :
    job[j].status \in {"submitted"} \cup WorkingStatuses
        ~> job[j].status \notin {"submitted"} \cup WorkingStatuses

\* runtime.md: a job that used up its attempts ends in a failure status; so an
\* approved job, which nobody can cancel, does not stay approved.
ApprovedJobSettles == \A j \in Jobs :
    job[j].status = "approved" ~> job[j].status \in TerminalStatuses

\* The pipeline implements the catalogue the readers rely on.
Catalog == INSTANCE SnapshotCatalog
    WITH status <- [j \in Jobs |-> job[j].status],
         current <- [c \in Tenants |->
            IF \E j \in Jobs : TenantOf[j] = c /\ batch[j] = "published"
            THEN CHOOSE j \in Jobs : TenantOf[j] = c /\ batch[j] = "published"
            ELSE NoJob],
         retired <- {j \in Jobs : batch[j] = "superseded"}
ImplementsCatalog == Catalog!Spec
=============================================================================
