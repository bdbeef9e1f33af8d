------------------------------- MODULE RunQueue -------------------------------
(***************************************************************************)
(* The durable run queue: rows of agent_runs claimed by worker processes   *)
(* under a lease, executed node by node over a checkpoint table that       *)
(* carries no lease, and settled by transactions fenced on lease_owner.    *)
(*                                                                         *)
(* Sources: repositories/run_repository.py (the transactions), worker.py   *)
(* (the slots of the thread pool, their heartbeats and the poll loop) and  *)
(* agent/runtime_services.py (the control check around every call).        *)
(* A database transaction is one action; whatever the code does between    *)
(* two transactions is a separate action of the same slot.                 *)
(***************************************************************************)
EXTENDS Integers, Sequences, FiniteSets

CONSTANTS Runs,           \* runs that may be submitted
          Conversations,
          ConvOf,         \* the conversation a run belongs to
          Workers,        \* worker processes; a restarted one is another member
          Slots,          \* threads of the workers' pools
          WorkerOf,       \* the worker a slot belongs to
          Mortal,         \* workers that may crash or be stopped
          Clarifying,     \* runs whose graph ends by asking a question
          Nodes,          \* number of nodes a run's graph goes through
          MaxAttempts,    \* agent_run_max_attempts
          NoWorker, NoRun

ASSUME RunQueueAssumption ==
    /\ ConvOf \in [Runs -> Conversations]
    /\ WorkerOf \in [Slots -> Workers]
    /\ Mortal \subseteq Workers
    /\ Clarifying \subseteq Runs
    /\ Nodes \in Nat \ {0}
    /\ MaxAttempts \in Nat \ {0}
    /\ NoWorker \notin Workers
    /\ NoRun \notin Runs

VARIABLES run,         \* run[r]: the row of agent_runs
          turn,        \* turn[r]: the row of turns with the run's turn_id
          log,         \* log[r]: agent_run_events in sequence order, as event keys
          checkpoint,  \* checkpoint[r]: nodes done in the newest checkpoint
          exec,        \* exec[t]: the call of _execute_run in slot t
          worker       \* worker[w]: the process

vars == <<run, turn, log, checkpoint, exec, worker>>

-----------------------------------------------------------------------------
(* Rows, events and slots *)

ActiveStatuses == {"queued", "running", "retry_wait", "finalizing"}
TerminalStatuses == {"succeeded", "failed", "cancelled"}
Statuses == {"absent"} \cup ActiveStatuses \cup TerminalStatuses

\* Why a call of _execute_run raised, or a run failed.
Causes == {"none", "retryable", "run_cancelled", "illegal_transition",
           "fatal", "run_attempts_exhausted"}

\* live: lease_expires_at lies in the future; due: available_at does not;
\* kept: checkpoint_expires_at is set, the checkpoint waits for the sweep.
Row == [status: Statuses, owner: Workers \cup {NoWorker}, live: BOOLEAN,
        due: BOOLEAN, attempt: 0..MaxAttempts, cancel: BOOLEAN, error: Causes,
        kept: BOOLEAN]

Absent == [status |-> "absent", owner |-> NoWorker, live |-> FALSE, due |-> TRUE,
           attempt |-> 0, cancel |-> FALSE, error |-> "none", kept |-> FALSE]

\* at: how many nodes the state the result was taken from had gone through.
Turn == [kind: {"none", "result", "cancelled"}, at: 0..Nodes]
NoTurn == [kind |-> "none", at |-> 0]

EventKinds == {"queued", "running", "retry_wait", "finalizing", "node",
               "clarification", "result", "error", "cancelled"}
Event(kind, n) == [kind |-> kind, n |-> n]
Events == [kind: EventKinds, n: Nat]

\* The part of a lifecycle event's key that tells the attempts apart.
AttemptKeyShared(n) == 0
AttemptKey(n) == n

\* append_runtime_event: nothing is written for a key that is already there.
Logged(r, e) == \E i \in DOMAIN log[r] : log[r][i] = e
Appended(r, e) == IF Logged(r, e) THEN log[r] ELSE Append(log[r], e)
Append1(r, e) == log' = [log EXCEPT ![r] = Appended(r, e)]

Pcs == {"idle", "load", "recall", "boundary", "check", "node", "drained",
        "clarify", "mark", "finalize", "cancel", "fail"}
Execution == [pc: Pcs, job: Runs \cup {NoRun}, pos: 0..Nodes,
              attempt: 0..MaxAttempts, lost: BOOLEAN, cause: Causes]
Idle == [pc |-> "idle", job |-> NoRun, pos |-> 0, attempt |-> 0,
         lost |-> FALSE, cause |-> "none"]

TypeOK == /\ run \in [Runs -> Row]
          /\ turn \in [Runs -> Turn]
          /\ log \in [Runs -> Seq(Events)]
          /\ checkpoint \in [Runs -> 0..Nodes]
          /\ exec \in [Slots -> Execution]
          /\ worker \in [Workers -> {"active", "draining", "gone"}]

-----------------------------------------------------------------------------
(* Helpers *)

Terminal(r) == run[r].status \in TerminalStatuses
Active(r) == run[r].status \in ActiveStatuses
Busy(t) == exec[t].pc # "idle"

\* The fence of every worker transaction: lease_owner = worker_id.
OwnsUnfenced(t) == exec[t].job \in Runs
Owns(t) == run[exec[t].job].owner = WorkerOf[t]

\* create_run: no row of the conversation in ACTIVE_RUN_STATUSES.
ConversationFreeOfWaiting(r) == \A q \in Runs :
    ConvOf[q] = ConvOf[r] => run[q].status \notin {"queued", "running", "retry_wait"}
ConversationFree(r) == \A q \in Runs : ConvOf[q] = ConvOf[r] => ~Active(q)

\* attempt_count < agent_run_max_attempts
AttemptsLeftOffByOne(r) == run[r].attempt <= MaxAttempts
AttemptsLeft(r) == run[r].attempt < MaxAttempts

\* claim_next: a requested cancellation settles the run, unless it finalizes.
CancelDueIfWaiting(r) == run[r].cancel /\ run[r].status \in {"queued", "retry_wait"}
CancelDue(r) == run[r].cancel /\ run[r].status # "finalizing"

\* claim_next's WHERE clause.
ClaimableWaiting(r) == run[r].due /\ run[r].status \in {"queued", "retry_wait"}
Claimable(r) ==
    /\ run[r].due
    /\ \/ run[r].status \in {"queued", "retry_wait"}
       \/ run[r].status \in {"running", "finalizing"} /\ ~run[r].live

At(t, pc) == exec[t].pc = pc
Goto(t, pc) == exec' = [exec EXCEPT ![t].pc = pc]
Raise(t, cause) == exec' = [exec EXCEPT ![t].pc = "fail", ![t].cause = cause]
Leave(t) == exec' = [exec EXCEPT ![t] = Idle]

\* What a claiming, a settling or a releasing transaction leaves in the row.
LeasedUnlessOwned(row, w) == [row EXCEPT !.owner = IF @ = NoWorker THEN w ELSE @,
                                         !.live = TRUE]
Leased(row, w) == [row EXCEPT !.owner = w, !.live = TRUE]

SettledKeepingOwner(row, s) == [row EXCEPT !.status = s, !.live = FALSE, !.kept = TRUE]
Settled(row, s) == [row EXCEPT !.status = s, !.owner = NoWorker, !.live = FALSE,
                               !.kept = TRUE]
Failed(row, cause) == [Settled(row, "failed") EXCEPT !.error = cause]

BackedOffToRetry(row, s) == [row EXCEPT !.status = "retry_wait", !.owner = NoWorker,
                                        !.live = FALSE, !.due = FALSE]
BackedOff(row, s) == [row EXCEPT !.status = s, !.owner = NoWorker, !.live = FALSE,
                                 !.due = FALSE]

\* _persist_cancelled_turn
PersistCancelledTurn(r) ==
    /\ turn' = IF turn[r].kind = "none"
               THEN [turn EXCEPT ![r] = [kind |-> "cancelled", at |-> 0]]
               ELSE turn
    /\ Append1(r, Event("cancelled", 0))

-----------------------------------------------------------------------------
(* Requests: the API process *)

Init == /\ run = [r \in Runs |-> Absent]
        /\ turn = [r \in Runs |-> NoTurn]
        /\ log = [r \in Runs |-> <<>>]
        /\ checkpoint = [r \in Runs |-> 0]
        /\ exec = [t \in Slots |-> Idle]
        /\ worker = [w \in Workers |-> "active"]

CreateRun(r) ==
    /\ run[r].status = "absent"
    /\ ConversationFree(r)
    /\ run' = [run EXCEPT ![r].status = "queued"]
    /\ Append1(r, Event("queued", 0))
    /\ UNCHANGED <<turn, checkpoint, exec, worker>>

\* A settled or finalizing run is left alone; a waiting one is cancelled at
\* once, a running one only carries the request.
Cancel(r) ==
    /\ run[r].status \in {"queued", "retry_wait", "running"}
    /\ IF run[r].status = "running"
       THEN /\ run' = [run EXCEPT ![r].cancel = TRUE]
            /\ UNCHANGED <<turn, log>>
       ELSE /\ run' = [run EXCEPT ![r] = [Settled(@, "cancelled") EXCEPT !.cancel = TRUE]]
            /\ PersistCancelledTurn(r)
    /\ UNCHANGED <<checkpoint, exec, worker>>

-----------------------------------------------------------------------------
(* The poll loop of a worker *)

CanPoll(t) == worker[WorkerOf[t]] = "active" /\ ~Busy(t)

\* claim_next on a row whose cancellation was requested: it settles the run.
ClaimCancelled(t, r) ==
    /\ CanPoll(t) /\ Claimable(r)
    /\ CancelDue(r)
    /\ run' = [run EXCEPT ![r] = Settled(@, "cancelled")]
    /\ PersistCancelledTurn(r)
    /\ UNCHANGED <<checkpoint, exec, worker>>

\* claim_next on a row without attempts left: it fails the run.
ClaimExhausted(t, r) ==
    /\ CanPoll(t) /\ Claimable(r)
    /\ ~CancelDue(r) /\ ~AttemptsLeft(r)
    /\ run' = [run EXCEPT ![r] = Failed(@, "run_attempts_exhausted")]
    /\ Append1(r, Event("error", run[r].attempt))
    /\ UNCHANGED <<turn, checkpoint, exec, worker>>

\* claim_next proper, and the submission of the run to the thread pool.
Claim(t, r) ==
    LET n == run[r].attempt + 1
        s == IF run[r].status = "finalizing" THEN "finalizing" ELSE "running"
    IN  /\ CanPoll(t) /\ Claimable(r)
        /\ ~CancelDue(r) /\ AttemptsLeft(r)
        /\ run' = [run EXCEPT ![r] = [Leased(@, WorkerOf[t]) EXCEPT
                                        !.status = s, !.attempt = n]]
        /\ exec' = [exec EXCEPT ![t] =
                      [pc |-> IF s = "finalizing" THEN "recall" ELSE "load",
                       job |-> r, pos |-> 0, attempt |-> n,
                       lost |-> FALSE, cause |-> "none"]]
        /\ Append1(r, Event(s, AttemptKey(n)))
        /\ UNCHANGED <<turn, checkpoint, worker>>

\* request_stop, or an error of claim_next, which ends the poll loop: the
\* slots in use run to their end.
Drain(w) == /\ w \in Mortal /\ worker[w] = "active"
            /\ worker' = [worker EXCEPT ![w] = "draining"]
            /\ UNCHANGED <<run, turn, log, checkpoint, exec>>

Stopped(w) == /\ worker[w] = "draining"
              /\ \A t \in Slots : WorkerOf[t] = w => ~Busy(t)
              /\ worker' = [worker EXCEPT ![w] = "gone"]
              /\ UNCHANGED <<run, turn, log, checkpoint, exec>>

\* The process dies with every slot and heartbeat; its rows keep their lease.
Crash(w) == /\ w \in Mortal /\ worker[w] # "gone"
            /\ worker' = [worker EXCEPT ![w] = "gone"]
            /\ exec' = [t \in Slots |-> IF WorkerOf[t] = w THEN Idle ELSE exec[t]]
            /\ UNCHANGED <<run, turn, log, checkpoint>>

\* cleanup_expired_checkpoints, run by any worker's poll loop.
Sweep(r) == /\ Terminal(r) /\ run[r].kept
            /\ \E w \in Workers : worker[w] # "gone"
            /\ checkpoint' = [checkpoint EXCEPT ![r] = 0]
            /\ run' = [run EXCEPT ![r].kept = FALSE]
            /\ UNCHANGED <<turn, log, exec, worker>>

-----------------------------------------------------------------------------
(* _execute_run: the graph *)

\* The first attempt starts the graph, a later one resumes the newest checkpoint.
Load(t) == /\ At(t, "load")
           /\ exec' = [exec EXCEPT ![t].pos = checkpoint[exec[t].job],
                                   ![t].pc = "boundary"]
           /\ UNCHANGED <<run, turn, log, checkpoint, worker>>

\* A run claimed in finalizing takes the newest checkpoint as its final state.
Recall(t) == /\ At(t, "recall")
             /\ exec' = [exec EXCEPT ![t].pos = checkpoint[exec[t].job],
                                     ![t].pc = "drained"]
             /\ UNCHANGED <<run, turn, log, checkpoint, worker>>

\* _persist_graph_events: one event per node, written without a lease check.
Boundary(t) == LET r == exec[t].job IN
    /\ At(t, "boundary")
    /\ Goto(t, "check")
    /\ IF exec[t].pos = 0 THEN UNCHANGED log
                          ELSE Append1(r, Event("node", exec[t].pos))
    /\ UNCHANGED <<run, turn, checkpoint, worker>>

\* The lease flag of the heartbeat, then the cancellation request of the row.
Controlled(t, next) ==
    CASE exec[t].lost                  -> Raise(t, "retryable")
      [] ~exec[t].lost /\ run[exec[t].job].cancel -> Goto(t, "cancel")
      [] OTHER                         -> Goto(t, next)

\* The checks at the node boundary, and the ones after the last node.
Check(t) == /\ At(t, "check")
            /\ Controlled(t, IF exec[t].pos < Nodes THEN "node" ELSE "drained")
            /\ UNCHANGED <<run, turn, log, checkpoint, worker>>

Drained(t) == /\ At(t, "drained")
              /\ Controlled(t, "clarify")
              /\ UNCHANGED <<run, turn, log, checkpoint, worker>>

\* A node ends: the checkpoint is written whoever holds the lease by now.
Node(t) == LET r == exec[t].job IN
    /\ At(t, "node")
    /\ checkpoint' = [checkpoint EXCEPT ![r] = exec[t].pos + 1]
    /\ exec' = [exec EXCEPT ![t].pos = @ + 1, ![t].pc = "boundary"]
    /\ UNCHANGED <<run, turn, log, worker>>

\* check_control around a tool or model call of the node.
NodeControl(t) == /\ At(t, "node")
                  /\ \/ exec[t].lost /\ Raise(t, "retryable")
                     \/ /\ ~exec[t].lost /\ run[exec[t].job].cancel
                        /\ Raise(t, "run_cancelled")
                  /\ UNCHANGED <<run, turn, log, checkpoint, worker>>

\* A transient fault of the database, the provider or the infrastructure.
Fault(t) == /\ Busy(t) /\ ~At(t, "fail")
            /\ Raise(t, "retryable")
            /\ UNCHANGED <<run, turn, log, checkpoint, worker>>

\* What a retry would not mend: an invalid state, the run's time budget.
Reject(t) == /\ exec[t].pc \in {"load", "recall", "boundary", "node", "drained"}
             /\ Raise(t, "fatal")
             /\ UNCHANGED <<run, turn, log, checkpoint, worker>>

Clarify(t) == LET r == exec[t].job IN
    /\ At(t, "clarify")
    /\ Goto(t, "mark")
    /\ IF r \in Clarifying /\ exec[t].pos = Nodes
       THEN Append1(r, Event("clarification", 0)) ELSE UNCHANGED log
    /\ UNCHANGED <<run, turn, checkpoint, worker>>

-----------------------------------------------------------------------------
(* _execute_run: the transactions that end it. Each is fenced on the owner  *)
(* column alone; its commit may succeed although the worker sees an error   *)
(* (acked = FALSE).                                                         *)

MarkCancelled(t) == LET r == exec[t].job IN
    /\ At(t, "cancel")
    /\ IF ~Owns(t) \/ Terminal(r)
       THEN Leave(t) /\ UNCHANGED <<run, turn, log>>
       ELSE IF run[r].status = "finalizing"
       THEN Raise(t, "illegal_transition") /\ UNCHANGED <<run, turn, log>>
       ELSE /\ run' = [run EXCEPT ![r] = Settled(@, "cancelled")]
            /\ PersistCancelledTurn(r)
            /\ \E acked \in BOOLEAN :
                  IF acked THEN Leave(t) ELSE Raise(t, "retryable")
    /\ UNCHANGED <<checkpoint, worker>>

MarkFinalizing(t) == LET r == exec[t].job IN
    /\ At(t, "mark")
    /\ IF ~Owns(t)
       THEN Raise(t, "retryable") /\ UNCHANGED <<run, log>>
       ELSE /\ IF run[r].status = "running"
               THEN /\ run' = [run EXCEPT ![r].status = "finalizing"]
                    /\ Append1(r, Event("finalizing", 0))
               ELSE UNCHANGED <<run, log>>
            /\ \E acked \in BOOLEAN :
                  IF acked THEN Goto(t, "finalize") ELSE Raise(t, "retryable")
    /\ UNCHANGED <<turn, checkpoint, worker>>

\* The result, its turn, its event and the status in one transaction.
Finalize(t) == LET r == exec[t].job IN
    /\ At(t, "finalize")
    /\ IF ~Owns(t) \/ run[r].status # "finalizing"
       THEN Raise(t, "retryable") /\ UNCHANGED <<run, turn, log>>
       ELSE /\ run' = [run EXCEPT ![r] = Settled(@, "succeeded")]
            /\ turn' = IF turn[r].kind = "none"
                       THEN [turn EXCEPT ![r] = [kind |-> "result", at |-> exec[t].pos]]
                       ELSE turn
            /\ Append1(r, Event("result", 0))
            /\ \E acked \in BOOLEAN :
                  IF acked THEN Leave(t) ELSE Raise(t, "retryable")
    /\ UNCHANGED <<checkpoint, worker>>

\* handle_failure: nothing for a slot without the lease; a retry while
\* attempts are left; otherwise the run fails.
HandleFailure(t) == LET r == exec[t].job
                        retry == exec[t].cause = "retryable" /\ AttemptsLeft(r) IN
    /\ At(t, "fail")
    /\ Leave(t)
    /\ \/ ~Owns(t) /\ UNCHANGED <<run, log>>
       \/ /\ Owns(t) /\ retry /\ run[r].status = "finalizing"
          /\ run' = [run EXCEPT ![r] = BackedOff(@, "finalizing")]
          /\ UNCHANGED log
       \/ /\ Owns(t) /\ retry /\ run[r].status = "running"
          /\ run' = [run EXCEPT ![r] = BackedOff(@, "retry_wait")]
          /\ Append1(r, Event("retry_wait", AttemptKey(run[r].attempt)))
       \/ /\ Owns(t) /\ ~retry
          /\ run' = [run EXCEPT ![r] = Failed(@, exec[t].cause)]
          /\ Append1(r, Event("error", run[r].attempt))
    /\ UNCHANGED <<turn, checkpoint, worker>>

\* handle_failure itself fails: the slot is freed, the lease stays.
Escape(t) == /\ At(t, "fail")
             /\ Leave(t)
             /\ UNCHANGED <<run, turn, log, checkpoint, worker>>

-----------------------------------------------------------------------------
(* Leases and time *)

\* renew_lease: owner and status, not the time the lease ran out.
Renewable(t) == Owns(t) /\ run[exec[t].job].status \in {"running", "finalizing"}

Heartbeat(t) == LET r == exec[t].job IN
    /\ Busy(t) /\ ~exec[t].lost
    /\ IF Renewable(t)
       THEN run' = [run EXCEPT ![r].live = TRUE] /\ UNCHANGED exec
       ELSE exec' = [exec EXCEPT ![t].lost = TRUE] /\ UNCHANGED run
    /\ UNCHANGED <<turn, log, checkpoint, worker>>

\* A renewal that fails ends the heartbeat of this execution for good.
HeartbeatError(t) == /\ Busy(t) /\ ~exec[t].lost
                     /\ exec' = [exec EXCEPT ![t].lost = TRUE]
                     /\ UNCHANGED <<run, turn, log, checkpoint, worker>>

LeaseExpires(r) == /\ run[r].live
                   /\ run' = [run EXCEPT ![r].live = FALSE]
                   /\ UNCHANGED <<turn, log, checkpoint, exec, worker>>

BackoffElapses(r) == /\ ~run[r].due
                     /\ run' = [run EXCEPT ![r].due = TRUE]
                     /\ UNCHANGED <<turn, log, checkpoint, exec, worker>>

-----------------------------------------------------------------------------
(* The specification *)

Poll(t) == \E r \in Runs :
              ClaimCancelled(t, r) \/ ClaimExhausted(t, r) \/ Claim(t, r)

\* The progress of one execution: what its thread does next.
Step(t) == \/ Load(t) \/ Recall(t) \/ Boundary(t) \/ Check(t) \/ Node(t)
           \/ NodeControl(t) \/ Drained(t) \/ Clarify(t) \/ MarkCancelled(t)
           \/ MarkFinalizing(t) \/ Finalize(t) \/ HandleFailure(t)

Next == \/ \E r \in Runs : \/ CreateRun(r) \/ Cancel(r) \/ Sweep(r)
                           \/ LeaseExpires(r) \/ BackoffElapses(r)
        \/ \E t \in Slots : \/ Poll(t) \/ Step(t) \/ Fault(t) \/ Reject(t)
                            \/ Escape(t) \/ Heartbeat(t) \/ HeartbeatError(t)
        \/ \E w \in Workers : Drain(w) \/ Stopped(w) \/ Crash(w)

Spec == Init /\ [][Next]_vars

\* No thread of the lease's owner renews it any more.
Orphaned(r) == \A t \in Slots :
    Busy(t) /\ exec[t].job = r /\ Owns(t) => exec[t].lost

\* A thread goes on unless its process dies, every call it makes has a
\* timeout; the poll loop of a live process runs twice a second; a clock runs.
Fairness == /\ \A t \in Slots : WF_vars(Step(t)) /\ WF_vars(Poll(t))
            /\ \A r \in Runs : /\ WF_vars(BackoffElapses(r))
                               /\ WF_vars(Orphaned(r) /\ LeaseExpires(r))

FairSpec == Spec /\ Fairness

-----------------------------------------------------------------------------
(* Properties *)

\* The row names an owner exactly while an attempt is out, and a lease that is
\* alive always has an owner: claim_next, the fenced transactions and the
\* heartbeat never leave a running run nobody can reclaim.
LeaseDiscipline == \A r \in Runs :
    /\ run[r].status = "running" => run[r].owner # NoWorker
    /\ run[r].owner # NoWorker => run[r].status \in {"running", "finalizing"}
    /\ run[r].live => run[r].owner # NoWorker

\* What the conversation shows, what the event stream ends with and what the
\* row says agree in every state: no crash, retry or late slot separates the
\* status from the turn or the terminal event written with it.
Ends(r, kind) == \E i \in DOMAIN log[r] : log[r][i].kind = kind
OutcomeTold == \A r \in Runs :
    /\ run[r].status = "succeeded" <=> turn[r].kind = "result"
    /\ run[r].status = "succeeded" <=> Ends(r, "result")
    /\ run[r].status = "cancelled" <=> turn[r].kind = "cancelled"
    /\ run[r].status = "cancelled" <=> Ends(r, "cancelled")
    /\ run[r].status = "failed" <=> run[r].error # "none"
    /\ run[r].status = "failed" <=> Ends(r, "error")

\* A client that follows the stream knows the status: the newest lifecycle
\* event of a run is the one of the status its row has.
EventStatus(e) ==
    IF e.kind = "result" THEN "succeeded" ELSE IF e.kind = "error" THEN "failed" ELSE e.kind
StreamFollowsStatus == \A r \in Runs :
    LET told == {i \in DOMAIN log[r] : EventStatus(log[r][i]) \in Statuses}
    IN  Active(r) \/ Terminal(r) =>
          \E i \in told : /\ EventStatus(log[r][i]) = run[r].status
                         /\ \A j \in told : j <= i

\* With one slot per worker the owner column is a fencing token: the slot of
\* the owner is executing the newest attempt, never an overtaken one.
OwnerRunsNewestAttempt == \A t \in Slots :
    Busy(t) /\ Owns(t) => exec[t].attempt = run[exec[t].job].attempt

\* At most one run of a conversation is under way, however its runs end.
OneActivePerConversation == \A q, r \in Runs :
    ConvOf[q] = ConvOf[r] /\ Active(q) /\ Active(r) => q = r

\* Once cancellation was requested no further attempt of the graph starts.
NoAttemptAfterCancel == [][\A r \in Runs :
    run[r].cancel /\ run'[r].attempt # run[r].attempt
        => run[r].status = "finalizing"]_vars

\* A settled run is never reopened and its turn never rewritten, whatever
\* slots that still execute it do.
SettledIsFinal == [][\A r \in Runs : Terminal(r) =>
    /\ run'[r].status = run[r].status /\ run'[r].error = run[r].error
    /\ turn'[r] = turn[r]]_vars

\* Every submitted run settles as long as one worker survives.
EveryRunSettles == \A r \in Runs : run[r].status = "queued" ~> Terminal(r)

\* validate_run_transition asserts that only legal moves are attempted: a slot
\* about to mark its run cancelled does not find it finalizing.
CancelIsALegalMove == \A t \in Slots :
    At(t, "cancel") /\ Owns(t) => run[exec[t].job].status # "finalizing"

\* runtime.md says a finalizing retry reads the terminal checkpoint: no result
\* is taken from a graph that has not reached its end.
ResultIsFromFinishedGraph == \A r \in Runs :
    turn[r].kind = "result" => turn[r].at = Nodes

\* The queue implements the promised life cycle of a run.
Lifecycle == INSTANCE RunLifecycle
    WITH status <- [r \in Runs |-> run[r].status],
         turn <- [r \in Runs |-> turn[r].kind]
ImplementsLifecycle == Lifecycle!Spec
=============================================================================
