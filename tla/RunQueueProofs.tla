---------------------------- MODULE RunQueueProofs ----------------------------
(***************************************************************************)
(* Safety of the run queue for every number of runs, workers, slots,       *)
(* nodes and attempts.  The inductive invariant is                          *)
(*    TypeOK /\ ExecutionOK /\ LeaseDiscipline /\ OutcomeTold :            *)
(* the fence of the worker transactions only tells that the row names the  *)
(* slot's worker; LeaseDiscipline turns that into a row that is running    *)
(* or finalizing, which is what the settling transactions rely on.         *)
(***************************************************************************)
EXTENDS RunQueue, TLAPS

\* A slot that is not idle has a run, it enters a node only if one is left, and
\* it reports a failure only for a cause.
ExecutionOK == \A t \in Slots :
    /\ exec[t].job = NoRun <=> exec[t].pc = "idle"
    /\ exec[t].pc = "fail" => exec[t].cause # "none"
    /\ exec[t].pc = "node" => exec[t].pos < Nodes

-----------------------------------------------------------------------------
(* Lemmas about the operators *)

\* Rows stay rows under the helpers of the transactions.
LEMMA RowLemma ==
    ASSUME NEW row \in Row, NEW s \in Statuses, NEW c \in Causes, NEW w \in Workers
    PROVE  /\ Settled(row, s) \in Row
           /\ Failed(row, c) \in Row
           /\ BackedOff(row, s) \in Row
           /\ Leased(row, w) \in Row
BY DEF Row, Settled, Failed, BackedOff, Leased, Statuses, TerminalStatuses

\* An event log stays a log when append_runtime_event writes to it.
LEMMA AppendLemma ==
    ASSUME TypeOK, NEW r \in Runs, NEW k \in EventKinds, NEW n \in Nat,
           Append1(r, Event(k, n))
    PROVE  log' \in [Runs -> Seq(Events)]
<1>1. Event(k, n) \in Events
  BY DEF Event, Events
<1>2. Appended(r, Event(k, n)) \in Seq(Events)
  BY <1>1 DEF Appended, TypeOK
<1> QED BY <1>2 DEF Append1, TypeOK

\* So do the turns and the log when a run is cancelled.
LEMMA CancelledTurnLemma ==
    ASSUME TypeOK, NEW r \in Runs, PersistCancelledTurn(r)
    PROVE  turn' \in [Runs -> Turn] /\ log' \in [Runs -> Seq(Events)]
<1>1. [kind |-> "cancelled", at |-> 0] \in Turn
  BY RunQueueAssumption DEF Turn
<1>2. turn' \in [Runs -> Turn]
  BY <1>1 DEF PersistCancelledTurn, TypeOK
<1>3. "cancelled" \in EventKinds /\ 0 \in Nat
  BY DEF EventKinds
<1>4. log' \in [Runs -> Seq(Events)]
  BY <1>3, AppendLemma DEF PersistCancelledTurn
<1> QED BY <1>2, <1>4

\* An execution stays one when a slot moves, raises or leaves.
LEMMA SlotLemma ==
    ASSUME TypeOK, NEW t \in Slots
    PROVE  /\ \A pc \in Pcs : Goto(t, pc) => exec' \in [Slots -> Execution]
           /\ \A c \in Causes : Raise(t, c) => exec' \in [Slots -> Execution]
           /\ Leave(t) => exec' \in [Slots -> Execution]
<1>0. exec \in [Slots -> Execution] /\ exec[t] \in Execution
  BY DEF TypeOK
<1>1. ASSUME NEW pc \in Pcs, Goto(t, pc) PROVE exec' \in [Slots -> Execution]
  <2>1. [exec[t] EXCEPT !.pc = pc] \in Execution
    BY <1>0 DEF Execution
  <2>2. exec' = [exec EXCEPT ![t] = [exec[t] EXCEPT !.pc = pc]]
    BY <1>1, <1>0 DEF Goto
  <2> QED BY <2>1, <2>2, <1>0
<1>2. ASSUME NEW c \in Causes, Raise(t, c) PROVE exec' \in [Slots -> Execution]
  <2>1. [exec[t] EXCEPT !.pc = "fail", !.cause = c] \in Execution
    BY <1>0 DEF Execution, Pcs
  <2>2. exec' = [exec EXCEPT ![t] = [exec[t] EXCEPT !.pc = "fail", !.cause = c]]
    BY <1>2, <1>0 DEF Raise
  <2> QED BY <2>1, <2>2, <1>0
<1>3. ASSUME Leave(t) PROVE exec' \in [Slots -> Execution]
  <2>1. Idle \in Execution
    BY RunQueueAssumption DEF Idle, Execution, Pcs, Causes
  <2> QED BY <2>1, <1>3, <1>0 DEF Leave
<1> QED BY <1>1, <1>2, <1>3

\* The job of a busy slot is a run.
LEMMA JobLemma ==
    ASSUME TypeOK, ExecutionOK, NEW t \in Slots, Busy(t)
    PROVE  exec[t].job \in Runs
BY DEF TypeOK, ExecutionOK, Busy, Execution

-----------------------------------------------------------------------------
(* Type correctness *)

TypeInv == TypeOK /\ ExecutionOK

\* The initial rows, turns, events and slots have their types.
LEMMA InitType == Init => TypeInv
<1> SUFFICES ASSUME Init PROVE TypeInv
  OBVIOUS
<1>1. Absent \in Row
  BY RunQueueAssumption DEF Absent, Row, Statuses, Causes
<1>2. NoTurn \in Turn /\ Idle \in Execution
  BY RunQueueAssumption DEF NoTurn, Turn, Idle, Execution, Pcs, Causes
<1>3. <<>> \in Seq(Events) /\ 0 \in 0..Nodes
  BY RunQueueAssumption
<1>4. TypeOK
  BY <1>1, <1>2, <1>3 DEF Init, TypeOK
<1>5. ExecutionOK
  BY DEF Init, ExecutionOK, Idle
<1> QED BY <1>4, <1>5 DEF TypeInv

\* Requests, the poll loop, processes and clocks.
LEMMA RequestType ==
    ASSUME TypeInv, NEW r \in Runs,
           CreateRun(r) \/ Cancel(r) \/ Sweep(r) \/ LeaseExpires(r) \/ BackoffElapses(r)
    PROVE  TypeInv'
<1> USE DEF TypeInv
<1>0. run[r] \in Row
  BY DEF TypeOK
<1>1. CASE CreateRun(r)
  <2>1. [run[r] EXCEPT !.status = "queued"] \in Row
    BY <1>0 DEF Row, Statuses, ActiveStatuses
  <2>2. run' \in [Runs -> Row]
    BY <2>1, <1>1 DEF CreateRun, TypeOK
  <2>3. log' \in [Runs -> Seq(Events)]
    BY <1>1, AppendLemma DEF CreateRun, EventKinds
  <2> QED BY <1>1, <2>2, <2>3 DEF CreateRun, TypeOK, ExecutionOK
<1>2. CASE Cancel(r)
  <2>1. [run[r] EXCEPT !.cancel = TRUE] \in Row
    BY <1>0 DEF Row
  <2>2. Settled(run[r], "cancelled") \in Row
    BY <1>0, RowLemma DEF Row, Settled, Statuses, TerminalStatuses
  <2>3. [Settled(run[r], "cancelled") EXCEPT !.cancel = TRUE] \in Row
    BY <2>2 DEF Row
  <2>4. run' \in [Runs -> Row]
    BY <2>1, <2>3, <1>2 DEF Cancel, TypeOK
  <2>5. turn' \in [Runs -> Turn] /\ log' \in [Runs -> Seq(Events)]
    BY <1>2, CancelledTurnLemma DEF Cancel, TypeOK
  <2> QED BY <1>2, <2>4, <2>5 DEF Cancel, TypeOK, ExecutionOK
<1>3. CASE Sweep(r) \/ LeaseExpires(r) \/ BackoffElapses(r)
  <2>1. /\ [run[r] EXCEPT !.kept = FALSE] \in Row
        /\ [run[r] EXCEPT !.live = FALSE] \in Row
        /\ [run[r] EXCEPT !.due = TRUE] \in Row
    BY <1>0 DEF Row
  <2>2. run' \in [Runs -> Row]
    BY <1>3, <2>1 DEF Sweep, LeaseExpires, BackoffElapses, TypeOK
  <2>3. 0 \in 0..Nodes
    BY RunQueueAssumption
  <2>4. checkpoint' \in [Runs -> 0..Nodes]
    BY <1>3, <2>3 DEF Sweep, LeaseExpires, BackoffElapses, TypeOK
  <2> QED BY <1>3, <2>2, <2>4 DEF Sweep, LeaseExpires, BackoffElapses, TypeOK, ExecutionOK
<1> QED BY <1>1, <1>2, <1>3

\* The three ends of claim_next keep the types.
LEMMA PollType ==
    ASSUME TypeInv, NEW t \in Slots, NEW r \in Runs,
           ClaimCancelled(t, r) \/ ClaimExhausted(t, r) \/ Claim(t, r)
    PROVE  TypeInv'
<1> USE DEF TypeInv
<1>0. run[r] \in Row /\ run[r].attempt \in Nat
  BY RunQueueAssumption DEF TypeOK, Row
<1>1. CASE ClaimCancelled(t, r)
  <2>1. Settled(run[r], "cancelled") \in Row
    BY <1>0, RowLemma DEF Statuses, TerminalStatuses, Row, Settled
  <2>2. run' \in [Runs -> Row]
    BY <2>1, <1>1 DEF ClaimCancelled, TypeOK
  <2>3. turn' \in [Runs -> Turn] /\ log' \in [Runs -> Seq(Events)]
    BY <1>1, CancelledTurnLemma DEF ClaimCancelled
  <2> QED BY <1>1, <2>2, <2>3 DEF ClaimCancelled, TypeOK, ExecutionOK
<1>2. CASE ClaimExhausted(t, r)
  <2>1. Failed(run[r], "run_attempts_exhausted") \in Row
    BY <1>0 DEF Failed, Settled, Row, Statuses, TerminalStatuses, Causes
  <2>2. run' \in [Runs -> Row]
    BY <2>1, <1>2 DEF ClaimExhausted, TypeOK
  <2>3. log' \in [Runs -> Seq(Events)]
    BY <1>0, <1>2, AppendLemma DEF ClaimExhausted, EventKinds
  <2> QED BY <1>2, <2>2, <2>3 DEF ClaimExhausted, TypeOK, ExecutionOK
<1>3. CASE Claim(t, r)
  <2> DEFINE n == run[r].attempt + 1
             s == IF run[r].status = "finalizing" THEN "finalizing" ELSE "running"
             x == [pc |-> IF s = "finalizing" THEN "recall" ELSE "load",
                   job |-> r, pos |-> 0, attempt |-> n,
                   lost |-> FALSE, cause |-> "none"]
  <2>1. n \in 0..MaxAttempts /\ n \in Nat /\ s \in Statuses /\ s \in EventKinds
    BY <1>0, <1>3, RunQueueAssumption
       DEF Claim, AttemptsLeft, Statuses, ActiveStatuses, EventKinds
  <2>2. [Leased(run[r], WorkerOf[t]) EXCEPT !.status = s, !.attempt = n] \in Row
    BY <1>0, <2>1, RunQueueAssumption DEF Leased, Row
  <2>3. run' \in [Runs -> Row]
    BY <2>2, <1>3 DEF Claim, TypeOK
  <2>4. x \in Execution /\ x.job # NoRun /\ x.pc \notin {"idle", "node", "fail"}
    BY <2>1, RunQueueAssumption DEF Execution, Pcs, Causes
  <2>5. exec' = [exec EXCEPT ![t] = x]
    BY <1>3 DEF Claim
  <2>6. exec' \in [Slots -> Execution] /\ ExecutionOK'
    BY <2>4, <2>5 DEF TypeOK, ExecutionOK
  <2>7. log' \in [Runs -> Seq(Events)]
    BY <1>3, <2>1, AppendLemma DEF Claim, AttemptKey
  <2> QED BY <1>3, <2>3, <2>6, <2>7 DEF Claim, TypeOK
<1> QED BY <1>1, <1>2, <1>3

\* So do processes that drain, stop or die.
LEMMA WorkerType ==
    ASSUME TypeInv, NEW w \in Workers, Drain(w) \/ Stopped(w) \/ Crash(w)
    PROVE  TypeInv'
<1> USE DEF TypeInv
<1>1. CASE Drain(w) \/ Stopped(w)
  BY <1>1 DEF Drain, Stopped, TypeOK, ExecutionOK
<1>2. CASE Crash(w)
  <2>1. Idle \in Execution /\ Idle.job = NoRun /\ Idle.pc = "idle"
    BY RunQueueAssumption DEF Idle, Execution, Pcs, Causes
  <2>2. exec' \in [Slots -> Execution] /\ ExecutionOK'
    BY <1>2, <2>1 DEF Crash, TypeOK, ExecutionOK
  <2> QED BY <1>2, <2>2 DEF Crash, TypeOK
<1> QED BY <1>1, <1>2

\* A slot that only moves to another program point, or raises, or leaves.
LEMMA MoveOK ==
    ASSUME TypeInv, NEW t \in Slots, Busy(t),
           \/ \E pc \in Pcs \ {"idle", "fail"} :
                /\ Goto(t, pc)
                /\ pc = "node" => exec[t].pos < Nodes
           \/ \E c \in Causes \ {"none"} : Raise(t, c)
           \/ Leave(t)
    PROVE  exec' \in [Slots -> Execution] /\ ExecutionOK'
<1>1. exec \in [Slots -> Execution]
  BY DEF TypeInv, TypeOK
<1>2. exec' \in [Slots -> Execution]
  BY SlotLemma DEF TypeInv
<1>3. ASSUME NEW pc \in Pcs \ {"idle", "fail"}, Goto(t, pc),
             pc = "node" => exec[t].pos < Nodes
      PROVE  ExecutionOK'
  <2>1. exec' = [exec EXCEPT ![t] = [exec[t] EXCEPT !.pc = pc]]
    BY <1>1, <1>3 DEF Goto
  <2> QED BY <1>1, <1>3, <2>1 DEF Busy, TypeInv, ExecutionOK, Execution
<1>4. ASSUME NEW c \in Causes \ {"none"}, Raise(t, c) PROVE ExecutionOK'
  <2>1. exec' = [exec EXCEPT ![t] = [exec[t] EXCEPT !.pc = "fail", !.cause = c]]
    BY <1>1, <1>4 DEF Raise
  <2> QED BY <1>1, <1>4, <2>1 DEF Busy, TypeInv, ExecutionOK, Execution
<1>5. ASSUME Leave(t) PROVE ExecutionOK'
  BY <1>1, <1>5 DEF Leave, Idle, TypeInv, ExecutionOK
<1> QED BY <1>2, <1>3, <1>4, <1>5

\* Steps that touch nothing but the slot and the event log.
LEMMA GraphType ==
    ASSUME TypeInv, NEW t \in Slots,
           \/ Boundary(t) \/ Check(t) \/ Drained(t) \/ NodeControl(t)
           \/ Fault(t) \/ Reject(t) \/ Clarify(t) \/ Escape(t)
    PROVE  TypeInv'
<1> DEFINE r == exec[t].job
<1>0. TypeOK /\ ExecutionOK
  BY DEF TypeInv
<1>1. Busy(t)
  BY DEF Boundary, Check, Drained, NodeControl, Fault, Reject, Clarify, Escape, At, Busy
<1>2. r \in Runs /\ exec[t].pos \in Nat
  BY <1>0, <1>1, JobLemma, RunQueueAssumption DEF TypeOK, Execution
<1>3. /\ {"check", "drained", "clarify", "cancel", "mark", "node"}
            \subseteq Pcs \ {"idle", "fail"}
      /\ {"retryable", "fatal", "run_cancelled"} \subseteq Causes \ {"none"}
  BY DEF Pcs, Causes
<1>4. exec' \in [Slots -> Execution] /\ ExecutionOK'
  <2>1. CASE Check(t)
    BY <2>1, <1>1, <1>3, MoveOK DEF Check, Controlled
  <2>2. CASE Drained(t)
    BY <2>2, <1>1, <1>3, MoveOK DEF Drained, Controlled
  <2>3. CASE Boundary(t) \/ Clarify(t)
    BY <2>3, <1>1, <1>3, MoveOK DEF Boundary, Clarify
  <2>4. CASE NodeControl(t) \/ Fault(t) \/ Reject(t) \/ Escape(t)
    BY <2>4, <1>1, <1>3, MoveOK DEF NodeControl, Fault, Reject, Escape
  <2> QED BY <2>1, <2>2, <2>3, <2>4
<1>5. log' \in [Runs -> Seq(Events)]
  <2>1. "node" \in EventKinds /\ "clarification" \in EventKinds /\ 0 \in Nat
    BY DEF EventKinds
  <2>2. CASE Boundary(t)
    BY <2>1, <2>2, <1>0, <1>2, AppendLemma DEF Boundary, TypeOK
  <2>3. CASE Clarify(t)
    BY <2>1, <2>3, <1>0, <1>2, AppendLemma DEF Clarify, TypeOK
  <2>4. CASE UNCHANGED log
    BY <2>4, <1>0 DEF TypeOK
  <2> QED BY <2>2, <2>3, <2>4
          DEF Check, Drained, NodeControl, Fault, Reject, Escape
<1>6. UNCHANGED <<run, turn, checkpoint, worker>>
  BY DEF Boundary, Check, Drained, NodeControl, Fault, Reject, Clarify, Escape
<1> QED BY <1>0, <1>4, <1>5, <1>6 DEF TypeInv, TypeOK

\* Steps that move a slot through its graph and its heartbeat.
LEMMA ProgressType ==
    ASSUME TypeInv, NEW t \in Slots,
           Load(t) \/ Recall(t) \/ Node(t) \/ Heartbeat(t) \/ HeartbeatError(t)
    PROVE  TypeInv'
<1> DEFINE r == exec[t].job
<1>0. TypeOK /\ ExecutionOK /\ exec[t] \in Execution
  BY DEF TypeInv, TypeOK
<1>1. Busy(t)
  BY DEF Load, Recall, Node, Heartbeat, HeartbeatError, At, Busy
<1>2. r \in Runs /\ run[r] \in Row /\ checkpoint[r] \in 0..Nodes
  BY <1>0, <1>1, JobLemma DEF TypeOK
<1>3. CASE Load(t) \/ Recall(t)
  <2>1. PICK pc \in {"boundary", "drained"} :
          exec' = [exec EXCEPT ![t] = [exec[t] EXCEPT !.pos = checkpoint[r], !.pc = pc]]
    BY <1>3, <1>0 DEF Load, Recall, TypeOK
  <2>2. [exec[t] EXCEPT !.pos = checkpoint[r], !.pc = pc] \in Execution
    BY <1>0, <1>2 DEF Execution, Pcs
  <2>3. exec' \in [Slots -> Execution]
    BY <2>1, <2>2, <1>0 DEF TypeOK
  <2>4. /\ exec'[t].job = r /\ exec'[t].pc \notin {"idle", "node", "fail"}
        /\ \A u \in Slots \ {t} : exec'[u] = exec[u]
    BY <2>1, <1>0 DEF TypeOK, Execution
  <2>5. r # NoRun
    BY <1>2, RunQueueAssumption
  <2>6. ExecutionOK'
    BY <2>4, <2>5, <1>0 DEF ExecutionOK
  <2> QED BY <1>0, <1>3, <2>3, <2>6 DEF Load, Recall, TypeInv, TypeOK
<1>4. CASE Node(t)
  <2>1. exec[t].pos + 1 \in 0..Nodes
    BY <1>0, <1>4, RunQueueAssumption DEF Node, At, ExecutionOK, Execution
  <2>2. [exec[t] EXCEPT !.pos = @ + 1, !.pc = "boundary"] \in Execution
    BY <1>0, <2>1 DEF Execution, Pcs
  <2>3. exec' = [exec EXCEPT ![t] = [exec[t] EXCEPT !.pos = @ + 1, !.pc = "boundary"]]
    BY <1>4, <1>0 DEF Node, TypeOK
  <2>4. exec' \in [Slots -> Execution]
    BY <2>2, <2>3, <1>0 DEF TypeOK
  <2>5. ExecutionOK'
    BY <2>3, <1>0, <1>1 DEF ExecutionOK, TypeOK, Execution, Busy
  <2>6. checkpoint' \in [Runs -> 0..Nodes]
    BY <1>0, <1>4, <2>1 DEF Node, TypeOK
  <2> QED BY <1>0, <1>4, <2>4, <2>5, <2>6 DEF Node, TypeInv, TypeOK
<1>5. CASE Heartbeat(t) \/ HeartbeatError(t)
  <2>1. [run[r] EXCEPT !.live = TRUE] \in Row
    BY <1>2 DEF Row
  <2>2. run' \in [Runs -> Row]
    BY <1>0, <1>5, <2>1 DEF Heartbeat, HeartbeatError, TypeOK
  <2>3. \/ UNCHANGED exec
        \/ exec' = [exec EXCEPT ![t] = [exec[t] EXCEPT !.lost = TRUE]]
    BY <1>0, <1>5 DEF Heartbeat, HeartbeatError, TypeOK
  <2>4. [exec[t] EXCEPT !.lost = TRUE] \in Execution
    BY <1>0 DEF Execution
  <2>5. exec' \in [Slots -> Execution]
    BY <2>3, <2>4, <1>0 DEF TypeOK
  <2>6. \A u \in Slots : /\ exec'[u].job = exec[u].job /\ exec'[u].pc = exec[u].pc
                         /\ exec'[u].pos = exec[u].pos
                         /\ exec'[u].cause = exec[u].cause
    <3>1. CASE UNCHANGED exec
      BY <3>1
    <3>2. CASE exec' = [exec EXCEPT ![t] = [exec[t] EXCEPT !.lost = TRUE]]
      <4>1. exec'[t] = [exec[t] EXCEPT !.lost = TRUE]
        BY <3>2, <1>0 DEF TypeOK
      <4>2. /\ exec'[t].job = exec[t].job /\ exec'[t].pc = exec[t].pc
            /\ exec'[t].pos = exec[t].pos /\ exec'[t].cause = exec[t].cause
        BY <4>1, <1>0 DEF Execution
      <4>3. \A u \in Slots \ {t} : exec'[u] = exec[u]
        BY <3>2, <1>0 DEF TypeOK
      <4> QED BY <4>2, <4>3
    <3> QED BY <2>3, <3>1, <3>2
  <2>7. ExecutionOK'
    BY <2>6, <1>0 DEF ExecutionOK
  <2> QED BY <1>0, <1>5, <2>2, <2>5, <2>7 DEF Heartbeat, HeartbeatError, TypeInv, TypeOK
<1> QED BY <1>3, <1>4, <1>5

\* The transactions that end an execution.
LEMMA EndType ==
    ASSUME TypeInv, NEW t \in Slots,
           MarkCancelled(t) \/ MarkFinalizing(t) \/ Finalize(t) \/ HandleFailure(t)
    PROVE  TypeInv'
<1> DEFINE r == exec[t].job
<1>0. TypeOK /\ ExecutionOK /\ exec[t] \in Execution
  BY DEF TypeInv, TypeOK
<1>1. Busy(t)
  BY DEF MarkCancelled, MarkFinalizing, Finalize, HandleFailure, At, Busy
<1>2. r \in Runs /\ run[r] \in Row
  BY <1>0, <1>1, JobLemma DEF TypeOK
<1>3. /\ "finalize" \in Pcs \ {"idle", "fail"}
      /\ {"retryable", "illegal_transition"} \subseteq Causes \ {"none"}
  BY DEF Pcs, Causes
<1>4. /\ Settled(run[r], "cancelled") \in Row
      /\ Settled(run[r], "succeeded") \in Row
      /\ BackedOff(run[r], "finalizing") \in Row
      /\ BackedOff(run[r], "retry_wait") \in Row
      /\ [run[r] EXCEPT !.status = "finalizing"] \in Row
  BY <1>2 DEF Row, Settled, BackedOff, Statuses, ActiveStatuses, TerminalStatuses
<1>5. Failed(run[r], exec[t].cause) \in Row
  BY <1>0, <1>2 DEF Row, Failed, Settled, Statuses, TerminalStatuses, Execution
<1>6. run[r].attempt \in Nat /\ 0 \in Nat
  BY <1>2, RunQueueAssumption DEF Row
<1>7. {"cancelled", "result", "error", "retry_wait", "finalizing"} \subseteq EventKinds
  BY DEF EventKinds
<1>8. [kind |-> "result", at |-> exec[t].pos] \in Turn
  BY <1>0 DEF Execution, Turn
<1>9. exec' \in [Slots -> Execution] /\ ExecutionOK'
  <2>1. CASE MarkCancelled(t)
    BY <2>1, <1>1, <1>3, MoveOK DEF MarkCancelled
  <2>2. CASE MarkFinalizing(t)
    BY <2>2, <1>1, <1>3, MoveOK DEF MarkFinalizing
  <2>3. CASE Finalize(t)
    BY <2>3, <1>1, <1>3, MoveOK DEF Finalize
  <2>4. CASE HandleFailure(t)
    BY <2>4, <1>1, MoveOK DEF HandleFailure
  <2> QED BY <2>1, <2>2, <2>3, <2>4
<1>10. run' \in [Runs -> Row]
  <2>1. CASE MarkCancelled(t)
    BY <2>1, <1>0, <1>4 DEF MarkCancelled, TypeOK
  <2>2. CASE MarkFinalizing(t)
    BY <2>2, <1>0, <1>4 DEF MarkFinalizing, TypeOK
  <2>3. CASE Finalize(t)
    BY <2>3, <1>0, <1>4 DEF Finalize, TypeOK
  <2>4. CASE HandleFailure(t)
    BY <2>4, <1>0, <1>4, <1>5 DEF HandleFailure, TypeOK
  <2> QED BY <2>1, <2>2, <2>3, <2>4
<1>11. log' \in [Runs -> Seq(Events)]
  <2>1. CASE MarkCancelled(t)
    BY <2>1, <1>0, <1>2, CancelledTurnLemma DEF MarkCancelled, TypeOK
  <2>2. CASE MarkFinalizing(t)
    BY <2>2, <1>0, <1>2, <1>6, <1>7, AppendLemma DEF MarkFinalizing, TypeOK
  <2>3. CASE Finalize(t)
    BY <2>3, <1>0, <1>2, <1>6, <1>7, AppendLemma DEF Finalize, TypeOK
  <2>4. CASE HandleFailure(t)
    BY <2>4, <1>0, <1>2, <1>6, <1>7, AppendLemma DEF HandleFailure, AttemptKey, TypeOK
  <2> QED BY <2>1, <2>2, <2>3, <2>4
<1>12. turn' \in [Runs -> Turn]
  <2>1. CASE MarkCancelled(t)
    BY <2>1, <1>0, <1>2, CancelledTurnLemma DEF MarkCancelled, TypeOK
  <2>2. CASE MarkFinalizing(t) \/ HandleFailure(t)
    BY <2>2, <1>0 DEF MarkFinalizing, HandleFailure, TypeOK
  <2>3. CASE Finalize(t)
    BY <2>3, <1>0, <1>2, <1>8 DEF Finalize, TypeOK
  <2> QED BY <2>1, <2>2, <2>3
<1>13. UNCHANGED <<checkpoint, worker>>
  BY DEF MarkCancelled, MarkFinalizing, Finalize, HandleFailure
<1> QED BY <1>0, <1>9, <1>10, <1>11, <1>12, <1>13 DEF TypeInv, TypeOK

\* No step breaks a type.
LEMMA NextType == TypeInv /\ [Next]_vars => TypeInv'
<1> SUFFICES ASSUME TypeInv, [Next]_vars PROVE TypeInv'
  OBVIOUS
<1>1. CASE \E r \in Runs : \/ CreateRun(r) \/ Cancel(r) \/ Sweep(r)
                           \/ LeaseExpires(r) \/ BackoffElapses(r)
  BY <1>1, RequestType
<1>2. CASE \E t \in Slots : Poll(t)
  BY <1>2, PollType DEF Poll
<1>3. CASE \E t \in Slots : \/ Step(t) \/ Fault(t) \/ Reject(t) \/ Escape(t)
                            \/ Heartbeat(t) \/ HeartbeatError(t)
  BY <1>3, GraphType, ProgressType, EndType DEF Step
<1>4. CASE \E w \in Workers : Drain(w) \/ Stopped(w) \/ Crash(w)
  BY <1>4, WorkerType
<1>5. CASE UNCHANGED vars
  BY <1>5 DEF vars, TypeInv, TypeOK, ExecutionOK
<1> QED BY <1>1, <1>2, <1>3, <1>4, <1>5 DEF Next

\* Every reachable state is well formed: no transaction, retry or takeover
\* takes a row, a turn, an event or a slot out of its range; in particular
\* no run is attempted more than MaxAttempts times.
THEOREM TypeCorrect == Spec => []TypeOK
<1>1. Spec => []TypeInv
  BY InitType, NextType, PTL DEF Spec
<1>2. TypeInv => TypeOK
  BY DEF TypeInv
<1> QED BY <1>1, <1>2, PTL

-----------------------------------------------------------------------------
(* Leases and outcomes *)

\* LeaseDiscipline and OutcomeTold, for one run.
RunOK(r) ==
    /\ run[r].status = "running" => run[r].owner # NoWorker
    /\ run[r].owner # NoWorker => run[r].status \in {"running", "finalizing"}
    /\ run[r].live => run[r].owner # NoWorker
    /\ run[r].status = "succeeded" <=> turn[r].kind = "result"
    /\ run[r].status = "succeeded" <=> Ends(r, "result")
    /\ run[r].status = "cancelled" <=> turn[r].kind = "cancelled"
    /\ run[r].status = "cancelled" <=> Ends(r, "cancelled")
    /\ run[r].status = "failed" <=> run[r].error # "none"
    /\ run[r].status = "failed" <=> Ends(r, "error")

\* The two invariants are RunOK of every run.
LEMMA RunOKLemma == LeaseDiscipline /\ OutcomeTold <=> \A r \in Runs : RunOK(r)
BY DEF LeaseDiscipline, OutcomeTold, RunOK

SafeInv == TypeInv /\ \A r \in Runs : RunOK(r)

\* Appending an event adds its kind to the kinds a log shows, and nothing else.
LEMMA EndsLemma ==
    ASSUME TypeOK, NEW r \in Runs, NEW k \in EventKinds, NEW n \in Nat,
           Append1(r, Event(k, n)), NEW kind
    PROVE  Ends(r, kind)' <=> Ends(r, kind) \/ kind = k
<1> DEFINE e == Event(k, n)
<1>1. e \in Events /\ e.kind = k /\ log[r] \in Seq(Events)
  BY DEF Event, Events, TypeOK
<1>2. log'[r] = Appended(r, e)
  BY DEF Append1, TypeOK
<1>3. CASE Logged(r, e)
  <2>1. log'[r] = log[r]
    BY <1>2, <1>3 DEF Appended
  <2>2. Ends(r, k)
    BY <1>1, <1>3 DEF Logged, Ends
  <2> QED BY <2>1, <2>2 DEF Ends
<1>4. CASE ~Logged(r, e)
  <2>1. log'[r] = Append(log[r], e)
    BY <1>2, <1>4 DEF Appended
  <2>2. /\ DOMAIN log'[r] = 1..Len(log[r]) + 1
        /\ DOMAIN log[r] = 1..Len(log[r])
        /\ \A i \in 1..Len(log[r]) : log'[r][i] = log[r][i]
        /\ log'[r][Len(log[r]) + 1] = e
        /\ Len(log[r]) \in Nat
    BY <2>1, <1>1
  <2>3. Ends(r, kind)' <=> \E i \in DOMAIN log'[r] : log'[r][i].kind = kind
    BY DEF Ends
  <2>4. (\E i \in 1..Len(log[r]) + 1 : log'[r][i].kind = kind)
          <=> \/ \E i \in 1..Len(log[r]) : log[r][i].kind = kind
              \/ e.kind = kind
    <3>1. ASSUME NEW i \in 1..Len(log[r]) + 1 PROVE i \in 1..Len(log[r]) \/ i = Len(log[r]) + 1
      BY <2>2
    <3>2. Len(log[r]) + 1 \in 1..Len(log[r]) + 1 /\ 1..Len(log[r]) \subseteq 1..Len(log[r]) + 1
      BY <2>2
    <3> QED BY <2>2, <3>1, <3>2
  <2>5. Ends(r, kind) <=> \E i \in 1..Len(log[r]) : log[r][i].kind = kind
    BY <2>2 DEF Ends
  <2>6. Ends(r, kind)' <=> \/ Ends(r, kind) \/ e.kind = kind
    BY <2>2, <2>3, <2>4, <2>5
  <2> QED BY <2>6, <1>1
<1> QED BY <1>3, <1>4

\* A run nothing was written for keeps its invariant.
LEMMA FrameLemma ==
    ASSUME NEW q \in Runs, RunOK(q),
           run'[q] = run[q], turn'[q] = turn[q], log'[q] = log[q]
    PROVE  RunOK(q)'
BY DEF RunOK, Ends

\* A run that stays or becomes active keeps it with its lease columns in order.
LEMMA ActiveLemma ==
    ASSUME TypeOK, NEW r \in Runs, RunOK(r), ~Terminal(r) \/ run'[r].status = run[r].status,
           Terminal(r) \/ run'[r].status \notin TerminalStatuses,
           run'[r].status = "running" => run'[r].owner # NoWorker,
           run'[r].owner # NoWorker => run'[r].status \in {"running", "finalizing"},
           run'[r].live => run'[r].owner # NoWorker,
           run'[r].error = run[r].error, turn'[r] = turn[r],
           \/ log'[r] = log[r]
           \/ \E k \in EventKinds \ {"result", "error", "cancelled"}, n \in Nat :
                Append1(r, Event(k, n))
    PROVE  RunOK(r)'
<1>1. \A kind \in {"result", "error", "cancelled"} : Ends(r, kind)' <=> Ends(r, kind)
  <2>1. CASE log'[r] = log[r]
    BY <2>1 DEF Ends
  <2>2. CASE \E k \in EventKinds \ {"result", "error", "cancelled"}, n \in Nat :
                Append1(r, Event(k, n))
    BY <2>2, EndsLemma
  <2> QED BY <2>1, <2>2
<1>2. /\ Ends(r, "result")' <=> Ends(r, "result")
      /\ Ends(r, "error")' <=> Ends(r, "error")
      /\ Ends(r, "cancelled")' <=> Ends(r, "cancelled")
  BY <1>1
<1> QED BY <1>2 DEF RunOK, Terminal, TerminalStatuses

\* An active run that is settled with its turn and its event.
LEMMA CancelledLemma ==
    ASSUME TypeOK, NEW r \in Runs, RunOK(r), ~Terminal(r),
           run'[r].status = "cancelled", run'[r].owner = NoWorker,
           run'[r].live = FALSE, run'[r].error = run[r].error,
           PersistCancelledTurn(r)
    PROVE  RunOK(r)'
<1>1. turn[r].kind = "none"
  BY DEF TypeOK, Turn, RunOK, Terminal, TerminalStatuses
<1>2. turn'[r].kind = "cancelled"
  BY <1>1 DEF PersistCancelledTurn, TypeOK
<1>3. "cancelled" \in EventKinds /\ 0 \in Nat
  BY DEF EventKinds
<1>4. /\ Ends(r, "cancelled")'
      /\ Ends(r, "result")' <=> Ends(r, "result")
      /\ Ends(r, "error")' <=> Ends(r, "error")
  BY <1>3, EndsLemma DEF PersistCancelledTurn
<1> QED BY <1>2, <1>4 DEF RunOK, Terminal, TerminalStatuses

\* An active run that fails with its event.
LEMMA FailedLemma ==
    ASSUME TypeOK, NEW r \in Runs, RunOK(r), ~Terminal(r),
           run'[r].status = "failed", run'[r].owner = NoWorker,
           run'[r].live = FALSE, run'[r].error # "none",
           turn'[r] = turn[r], NEW n \in Nat, Append1(r, Event("error", n))
    PROVE  RunOK(r)'
<1>1. "error" \in EventKinds
  BY DEF EventKinds
<1>2. /\ Ends(r, "error")'
      /\ Ends(r, "result")' <=> Ends(r, "result")
      /\ Ends(r, "cancelled")' <=> Ends(r, "cancelled")
  BY <1>1, EndsLemma
<1> QED BY <1>2 DEF RunOK, Terminal, TerminalStatuses

\* An active run that succeeds with its turn and its event.
LEMMA SucceededLemma ==
    ASSUME TypeOK, NEW r \in Runs, RunOK(r), ~Terminal(r),
           run'[r].status = "succeeded", run'[r].owner = NoWorker,
           run'[r].live = FALSE, run'[r].error = run[r].error,
           turn[r].kind = "none" => turn'[r].kind = "result",
           Append1(r, Event("result", 0))
    PROVE  RunOK(r)'
<1>1. turn[r].kind = "none"
  BY DEF TypeOK, Turn, RunOK, Terminal, TerminalStatuses
<1>2. "result" \in EventKinds /\ 0 \in Nat
  BY DEF EventKinds
<1>3. /\ Ends(r, "result")'
      /\ Ends(r, "cancelled")' <=> Ends(r, "cancelled")
      /\ Ends(r, "error")' <=> Ends(r, "error")
  BY <1>2, EndsLemma
<1> QED BY <1>1, <1>3 DEF RunOK, Terminal, TerminalStatuses

\* A step concerns one run, keeps its invariant and moves it along an edge.
Edge(r) == \/ run'[r].status = run[r].status
           \/ run'[r].status \in Lifecycle!AllowedTransitions[run[r].status]
StepOf(r) ==
    /\ \A q \in Runs \ {r} : run'[q] = run[q] /\ turn'[q] = turn[q] /\ log'[q] = log[q]
    /\ RunOK(r)'
    /\ Edge(r)
    /\ Terminal(r) => run'[r].error = run[r].error /\ turn'[r] = turn[r]

\* The allowed edges, spelled out.
LEMMA EdgeLemma == Lifecycle!AllowedTransitions =
    [absent     |-> {"queued"},
     queued     |-> {"running", "cancelled", "failed"},
     running    |-> {"finalizing", "retry_wait", "failed", "cancelled"},
     retry_wait |-> {"running", "cancelled", "failed"},
     finalizing |-> {"succeeded", "failed"},
     succeeded  |-> {},
     failed     |-> {},
     cancelled  |-> {}]
BY DEF Lifecycle!AllowedTransitions

\* The fence of a slot's transactions: a row that names its worker is out.
LEMMA FenceLemma ==
    ASSUME SafeInv, NEW t \in Slots, Busy(t), Owns(t)
    PROVE  /\ exec[t].job \in Runs
           /\ run[exec[t].job].status \in {"running", "finalizing"}
<1>1. exec[t].job \in Runs
  BY JobLemma DEF SafeInv, TypeInv
<1>2. run[exec[t].job].owner # NoWorker
  BY RunQueueAssumption DEF Owns
<1> QED BY <1>1, <1>2 DEF SafeInv, RunOK

\* Requests, the sweep and the clocks move at most one run, as promised.
LEMMA RequestStep ==
    ASSUME SafeInv, NEW r \in Runs,
           CreateRun(r) \/ Cancel(r) \/ Sweep(r) \/ LeaseExpires(r) \/ BackoffElapses(r)
    PROVE  StepOf(r)
<1>0. TypeOK /\ RunOK(r) /\ run[r] \in Row
  BY DEF SafeInv, TypeInv, TypeOK
<1>1. CASE CreateRun(r)
  <2>1. run'[r] = [run[r] EXCEPT !.status = "queued"] /\ UNCHANGED turn
    BY <1>0, <1>1 DEF CreateRun, TypeOK
  <2>2. /\ run'[r].status = "queued" /\ run'[r].owner = run[r].owner
        /\ run'[r].live = run[r].live /\ run'[r].error = run[r].error
    BY <2>1, <1>0 DEF Row
  <2>3. run[r].status = "absent"
    BY <1>1 DEF CreateRun
  <2>4. RunOK(r)'
    <3>1. \E k \in EventKinds \ {"result", "error", "cancelled"}, n \in Nat :
             Append1(r, Event(k, n))
      BY <1>1 DEF CreateRun, EventKinds
    <3> QED BY <3>1, <2>1, <2>2, <2>3, <1>0, ActiveLemma DEF RunOK, Terminal, TerminalStatuses
  <2>5. Edge(r)
    BY <2>2, <2>3, EdgeLemma DEF Edge
  <2> QED BY <1>0, <1>1, <2>1, <2>2, <2>4, <2>5 DEF CreateRun, Append1, StepOf, TypeOK
<1>2. CASE Cancel(r)
  <2>0. run[r].status \in {"queued", "retry_wait", "running"} /\ ~Terminal(r)
    BY <1>2 DEF Cancel, Terminal, TerminalStatuses
  <2>1. CASE run[r].status = "running"
    <3>1. /\ run'[r] = [run[r] EXCEPT !.cancel = TRUE]
          /\ UNCHANGED <<turn, log>>
      BY <1>0, <1>2, <2>1 DEF Cancel, TypeOK
    <3>2. /\ run'[r].status = run[r].status /\ run'[r].owner = run[r].owner
          /\ run'[r].live = run[r].live /\ run'[r].error = run[r].error
      BY <3>1, <1>0 DEF Row
    <3>3. RunOK(r)'
      BY <3>1, <3>2, <2>0, <1>0, ActiveLemma DEF RunOK, Terminal
    <3> QED BY <1>0, <1>2, <2>0, <2>1, <3>1, <3>2, <3>3 DEF Cancel, StepOf, Edge, TypeOK
  <2>2. CASE run[r].status # "running"
    <3>1. /\ run'[r] = [Settled(run[r], "cancelled") EXCEPT !.cancel = TRUE]
          /\ PersistCancelledTurn(r)
      BY <1>0, <1>2, <2>2 DEF Cancel, TypeOK
    <3>2. /\ run'[r].status = "cancelled" /\ run'[r].owner = NoWorker
          /\ run'[r].live = FALSE /\ run'[r].error = run[r].error
      BY <3>1, <1>0 DEF Row, Settled
    <3>3. RunOK(r)'
      BY <3>1, <3>2, <2>0, <1>0, CancelledLemma
    <3>4. Edge(r)
      BY <3>2, <2>0, <2>2, EdgeLemma DEF Edge
    <3> QED BY <1>0, <1>2, <2>0, <2>2, <3>1, <3>3, <3>4
            DEF Cancel, StepOf, PersistCancelledTurn, Append1, TypeOK
  <2> QED BY <2>1, <2>2
<1>3. CASE Sweep(r) \/ LeaseExpires(r) \/ BackoffElapses(r)
  <2>1. /\ \/ run'[r] = [run[r] EXCEPT !.kept = FALSE]
           \/ run'[r] = [run[r] EXCEPT !.live = FALSE]
           \/ run'[r] = [run[r] EXCEPT !.due = TRUE]
        /\ UNCHANGED <<turn, log>>
    BY <1>0, <1>3 DEF Sweep, LeaseExpires, BackoffElapses, TypeOK
  <2>2. /\ run'[r].status = run[r].status /\ run'[r].owner = run[r].owner
        /\ run'[r].live => run[r].live
        /\ run'[r].error = run[r].error
    BY <2>1, <1>0 DEF Row
  <2>3. RunOK(r)'
    BY <2>1, <2>2, <1>0, ActiveLemma DEF RunOK, Terminal
  <2>4. \A q \in Runs \ {r} : run'[q] = run[q]
    BY <1>0, <1>3 DEF Sweep, LeaseExpires, BackoffElapses, TypeOK
  <2> QED BY <2>1, <2>2, <2>3, <2>4 DEF StepOf, Edge
<1> QED BY <1>1, <1>2, <1>3

\* claim_next moves one run, as promised.
LEMMA PollStep ==
    ASSUME SafeInv, NEW t \in Slots, NEW r \in Runs,
           ClaimCancelled(t, r) \/ ClaimExhausted(t, r) \/ Claim(t, r)
    PROVE  StepOf(r)
<1>0. TypeOK /\ RunOK(r) /\ run[r] \in Row
  BY DEF SafeInv, TypeInv, TypeOK
<1>1. /\ run[r].status \in {"queued", "retry_wait", "running", "finalizing"}
      /\ ~Terminal(r)
  BY DEF ClaimCancelled, ClaimExhausted, Claim, Claimable, Terminal, TerminalStatuses
<1>2. CASE ClaimCancelled(t, r)
  <2>1. run'[r] = Settled(run[r], "cancelled") /\ PersistCancelledTurn(r)
    BY <1>0, <1>2 DEF ClaimCancelled, TypeOK
  <2>2. /\ run'[r].status = "cancelled" /\ run'[r].owner = NoWorker
        /\ run'[r].live = FALSE /\ run'[r].error = run[r].error
    BY <2>1, <1>0 DEF Row, Settled
  <2>3. RunOK(r)'
    BY <2>1, <2>2, <1>0, <1>1, CancelledLemma
  <2>4. Edge(r)
    BY <1>1, <1>2, <2>2, EdgeLemma DEF ClaimCancelled, CancelDue, Edge
  <2> QED BY <1>0, <1>1, <1>2, <2>1, <2>3, <2>4
          DEF ClaimCancelled, StepOf, PersistCancelledTurn, Append1, TypeOK
<1>3. CASE ClaimExhausted(t, r)
  <2>1. /\ run'[r] = Failed(run[r], "run_attempts_exhausted") /\ UNCHANGED turn
        /\ Append1(r, Event("error", run[r].attempt)) /\ run[r].attempt \in Nat
    BY <1>0, <1>3, RunQueueAssumption DEF ClaimExhausted, TypeOK, Row
  <2>2. /\ run'[r].status = "failed" /\ run'[r].owner = NoWorker
        /\ run'[r].live = FALSE /\ run'[r].error # "none"
    BY <2>1, <1>0 DEF Row, Failed, Settled
  <2>3. RunOK(r)'
    BY <2>1, <2>2, <1>0, <1>1, FailedLemma
  <2>4. Edge(r)
    BY <1>1, <2>2, EdgeLemma DEF Edge
  <2> QED BY <1>0, <1>1, <1>3, <2>1, <2>3, <2>4
          DEF ClaimExhausted, StepOf, Append1, TypeOK
<1>4. CASE Claim(t, r)
  <2> DEFINE s == IF run[r].status = "finalizing" THEN "finalizing" ELSE "running"
             n == run[r].attempt + 1
  <2>1. /\ run'[r] = [Leased(run[r], WorkerOf[t]) EXCEPT !.status = s, !.attempt = n]
        /\ UNCHANGED turn /\ Append1(r, Event(s, AttemptKey(n)))
    BY <1>0, <1>4 DEF Claim, TypeOK
  <2>2. /\ run'[r].status = s /\ run'[r].owner = WorkerOf[t]
        /\ run'[r].live = TRUE /\ run'[r].error = run[r].error
    BY <2>1, <1>0 DEF Row, Leased
  <2>3. WorkerOf[t] # NoWorker
    BY RunQueueAssumption
  <2>4. \E k \in EventKinds \ {"result", "error", "cancelled"}, m \in Nat :
             Append1(r, Event(k, m))
    <3>1. s \in EventKinds \ {"result", "error", "cancelled"}
      BY DEF EventKinds
    <3>2. AttemptKey(n) \in Nat
      BY <1>0, RunQueueAssumption DEF AttemptKey, Row
    <3> QED BY <3>1, <3>2, <2>1
  <2>5. RunOK(r)'
    BY <2>1, <2>2, <2>3, <2>4, <1>0, <1>1, ActiveLemma DEF TerminalStatuses
  <2>6. Edge(r)
    BY <1>1, <2>2, EdgeLemma DEF Edge
  <2> QED BY <1>0, <1>1, <1>4, <2>1, <2>5, <2>6 DEF Claim, StepOf, Append1, TypeOK
<1> QED BY <1>2, <1>3, <1>4

\* Steps of a slot that leave rows, turns and terminal events alone.
LEMMA GraphStep ==
    ASSUME SafeInv, NEW t \in Slots, NEW r \in Runs, r = exec[t].job,
           \/ Load(t) \/ Recall(t) \/ Boundary(t) \/ Check(t) \/ Drained(t)
           \/ Node(t) \/ NodeControl(t) \/ Fault(t) \/ Reject(t) \/ Clarify(t)
           \/ Escape(t) \/ Heartbeat(t) \/ HeartbeatError(t)
    PROVE  StepOf(r)
<1>0. TypeOK /\ Busy(t)
  BY DEF SafeInv, TypeInv, Load, Recall, Boundary, Check, Drained, Node, NodeControl,
         Fault, Reject, Clarify, Escape, Heartbeat, HeartbeatError, At, Busy
<1>1. r \in Runs /\ RunOK(r) /\ run[r] \in Row /\ exec[t].pos \in Nat
  BY <1>0, JobLemma, RunQueueAssumption DEF SafeInv, TypeInv, TypeOK, Execution
<1>2. UNCHANGED turn
  BY DEF Load, Recall, Boundary, Check, Drained, Node, NodeControl, Fault, Reject,
         Clarify, Escape, Heartbeat, HeartbeatError
<1>3. /\ \A q \in Runs \ {r} : run'[q] = run[q]
      /\ run'[r].status = run[r].status /\ run'[r].owner = run[r].owner
      /\ run'[r].error = run[r].error
      /\ run'[r].live => run[r].live \/ run[r].owner # NoWorker
  <2>1. CASE Heartbeat(t)
    <3>1. \/ UNCHANGED run
          \/ /\ run' = [run EXCEPT ![r] = [run[r] EXCEPT !.live = TRUE]]
             /\ Owns(t)
      BY <1>0, <1>1, <2>1 DEF Heartbeat, Renewable, TypeOK
    <3>2. Owns(t) => run[r].owner # NoWorker
      BY RunQueueAssumption DEF Owns
    <3>3. CASE UNCHANGED run
      BY <3>3
    <3>4. CASE run' = [run EXCEPT ![r] = [run[r] EXCEPT !.live = TRUE]] /\ Owns(t)
      <4>1. run'[r] = [run[r] EXCEPT !.live = TRUE]
        BY <3>4, <1>0, <1>1 DEF TypeOK
      <4>2. \A q \in Runs \ {r} : run'[q] = run[q]
        BY <3>4, <1>0 DEF TypeOK
      <4> QED BY <4>1, <4>2, <3>2, <3>4, <1>1 DEF Row
    <3> QED BY <3>1, <3>3, <3>4
  <2>2. CASE UNCHANGED run
    BY <2>2
  <2> QED BY <2>1, <2>2
          DEF Load, Recall, Boundary, Check, Drained, Node, NodeControl, Fault,
              Reject, Clarify, Escape, HeartbeatError
<1>4. \/ UNCHANGED log
      \/ \E k \in EventKinds \ {"result", "error", "cancelled"}, n \in Nat :
            Append1(r, Event(k, n))
  <2>1. CASE Boundary(t)
    BY <2>1, <1>1 DEF Boundary, EventKinds
  <2>2. CASE Clarify(t)
    BY <2>2 DEF Clarify, EventKinds
  <2> QED BY <2>1, <2>2
          DEF Load, Recall, Check, Drained, Node, NodeControl, Fault,
              Reject, Escape, Heartbeat, HeartbeatError
<1>5. \A q \in Runs \ {r} : log'[q] = log[q]
  BY <1>0, <1>4 DEF Append1, TypeOK
<1>6. RunOK(r)'
  BY <1>0, <1>1, <1>2, <1>3, <1>4, ActiveLemma DEF RunOK, Terminal
<1> QED BY <1>2, <1>3, <1>5, <1>6 DEF StepOf, Edge

\* The transactions of a slot: only the fence lets them touch the row.
LEMMA EndStep ==
    ASSUME SafeInv, NEW t \in Slots, NEW r \in Runs, r = exec[t].job,
           MarkCancelled(t) \/ MarkFinalizing(t) \/ Finalize(t) \/ HandleFailure(t)
    PROVE  StepOf(r)
<1>0. TypeOK /\ ExecutionOK /\ Busy(t) /\ exec[t] \in Execution
  BY DEF SafeInv, TypeInv, TypeOK, MarkCancelled, MarkFinalizing, Finalize,
         HandleFailure, At, Busy
<1>1. r \in Runs /\ RunOK(r) /\ run[r] \in Row /\ run[r].attempt \in Nat
  BY <1>0, JobLemma, RunQueueAssumption DEF SafeInv, TypeInv, TypeOK, Row
<1>2. CASE UNCHANGED <<run, turn, log>>
  BY <1>1, <1>2, FrameLemma DEF StepOf, Edge
<1>3. ASSUME ~UNCHANGED <<run, turn, log>>
      PROVE  Owns(t) /\ run[r].status \in {"running", "finalizing"} /\ ~Terminal(r)
  <2>1. Owns(t)
    BY <1>3 DEF MarkCancelled, MarkFinalizing, Finalize, HandleFailure
  <2> QED BY <2>1, <1>0, FenceLemma DEF Terminal, TerminalStatuses
<1>4. ASSUME MarkCancelled(t), ~UNCHANGED <<run, turn, log>> PROVE StepOf(r)
  <2>1. /\ run' = [run EXCEPT ![r] = Settled(run[r], "cancelled")]
        /\ PersistCancelledTurn(r) /\ run[r].status # "finalizing"
    BY <1>4, <1>0, <1>1 DEF MarkCancelled, TypeOK
  <2>2. run'[r] = Settled(run[r], "cancelled")
    BY <2>1, <1>0, <1>1 DEF TypeOK
  <2>3. /\ run'[r].status = "cancelled" /\ run'[r].owner = NoWorker
        /\ run'[r].live = FALSE /\ run'[r].error = run[r].error
    BY <2>2, <1>1 DEF Row, Settled
  <2>4. RunOK(r)'
    BY <2>1, <2>3, <1>0, <1>1, <1>3, <1>4, CancelledLemma
  <2>5. Edge(r)
    BY <1>3, <1>4, <2>1, <2>3, EdgeLemma DEF Edge
  <2> QED BY <1>0, <1>1, <1>3, <1>4, <2>1, <2>4, <2>5
          DEF StepOf, PersistCancelledTurn, Append1, TypeOK
<1>5. ASSUME MarkFinalizing(t), ~UNCHANGED <<run, turn, log>> PROVE StepOf(r)
  <2>1. /\ run' = [run EXCEPT ![r] = [run[r] EXCEPT !.status = "finalizing"]]
        /\ Append1(r, Event("finalizing", 0)) /\ UNCHANGED turn
        /\ run[r].status = "running"
    BY <1>5, <1>0, <1>1 DEF MarkFinalizing, TypeOK
  <2>2. run'[r] = [run[r] EXCEPT !.status = "finalizing"]
    BY <2>1, <1>0, <1>1 DEF TypeOK
  <2>3. /\ run'[r].status = "finalizing" /\ run'[r].owner = run[r].owner
        /\ run'[r].live = run[r].live /\ run'[r].error = run[r].error
    BY <2>2, <1>1 DEF Row
  <2>4. \E k \in EventKinds \ {"result", "error", "cancelled"}, n \in Nat :
           Append1(r, Event(k, n))
    BY <2>1 DEF EventKinds
  <2>5. RunOK(r)'
    BY <2>1, <2>3, <2>4, <1>0, <1>1, ActiveLemma DEF RunOK, Terminal, TerminalStatuses
  <2>6. Edge(r)
    BY <2>1, <2>3, EdgeLemma DEF Edge
  <2> QED BY <1>0, <1>1, <1>3, <1>5, <2>1, <2>5, <2>6 DEF StepOf, Append1, TypeOK
<1>6. ASSUME Finalize(t), ~UNCHANGED <<run, turn, log>> PROVE StepOf(r)
  <2>1. /\ run' = [run EXCEPT ![r] = Settled(run[r], "succeeded")]
        /\ turn' = IF turn[r].kind = "none"
                   THEN [turn EXCEPT ![r] = [kind |-> "result", at |-> exec[t].pos]]
                   ELSE turn
        /\ Append1(r, Event("result", 0)) /\ run[r].status = "finalizing"
    BY <1>6, <1>0, <1>1 DEF Finalize, TypeOK
  <2>2. run'[r] = Settled(run[r], "succeeded")
    BY <2>1, <1>0, <1>1 DEF TypeOK
  <2>3. /\ run'[r].status = "succeeded" /\ run'[r].owner = NoWorker
        /\ run'[r].live = FALSE /\ run'[r].error = run[r].error
    BY <2>2, <1>1 DEF Row, Settled
  <2>4. turn[r].kind = "none" => turn'[r].kind = "result"
    BY <2>1, <1>0, <1>1 DEF TypeOK
  <2>5. RunOK(r)'
    BY <2>1, <2>3, <2>4, <1>0, <1>1, <1>3, <1>6, SucceededLemma
  <2>6. Edge(r)
    BY <2>1, <2>3, EdgeLemma DEF Edge
  <2> QED BY <1>0, <1>1, <1>3, <1>6, <2>1, <2>5, <2>6 DEF StepOf, Append1, TypeOK
<1>7. ASSUME HandleFailure(t), ~UNCHANGED <<run, turn, log>> PROVE StepOf(r)
  <2>0. UNCHANGED turn /\ AttemptKey(run[r].attempt) \in Nat
    BY <1>1, <1>7 DEF HandleFailure, AttemptKey
  <2>1. CASE \E s \in {"finalizing", "retry_wait"} :
               /\ run' = [run EXCEPT ![r] = BackedOff(run[r], s)]
               /\ s = "retry_wait" <=> run[r].status = "running"
               /\ \/ UNCHANGED log
                  \/ Append1(r, Event("retry_wait", AttemptKey(run[r].attempt)))
    <3>1. PICK s \in {"finalizing", "retry_wait"} :
               /\ run' = [run EXCEPT ![r] = BackedOff(run[r], s)]
               /\ s = "retry_wait" <=> run[r].status = "running"
               /\ \/ UNCHANGED log
                  \/ Append1(r, Event("retry_wait", AttemptKey(run[r].attempt)))
      BY <2>1
    <3>2. run'[r] = BackedOff(run[r], s)
      BY <3>1, <1>0, <1>1 DEF TypeOK
    <3>3. /\ run'[r].status = s /\ run'[r].owner = NoWorker
          /\ run'[r].live = FALSE /\ run'[r].error = run[r].error
      BY <3>2, <1>1 DEF Row, BackedOff
    <3>4. "retry_wait" \in EventKinds \ {"result", "error", "cancelled"}
      BY DEF EventKinds
    <3>5. RunOK(r)'
      BY <2>0, <3>1, <3>3, <3>4, <1>0, <1>1, <1>3, <1>7, ActiveLemma DEF TerminalStatuses
    <3>6. Edge(r)
      BY <1>3, <1>7, <3>1, <3>3, EdgeLemma DEF Edge
    <3> QED BY <1>0, <1>1, <1>3, <1>7, <2>0, <3>1, <3>5, <3>6 DEF StepOf, Append1, TypeOK
  <2>2. CASE /\ run' = [run EXCEPT ![r] = Failed(run[r], exec[t].cause)]
             /\ Append1(r, Event("error", run[r].attempt))
    <3>1. run'[r] = Failed(run[r], exec[t].cause)
      BY <2>2, <1>0, <1>1 DEF TypeOK
    <3>2. exec[t].cause # "none"
      BY <1>0, <1>7 DEF HandleFailure, At, ExecutionOK
    <3>3. /\ run'[r].status = "failed" /\ run'[r].owner = NoWorker
          /\ run'[r].live = FALSE /\ run'[r].error # "none"
      BY <3>1, <3>2, <1>1 DEF Row, Failed, Settled
    <3>4. RunOK(r)'
      BY <2>0, <2>2, <3>3, <1>0, <1>1, <1>3, <1>7, FailedLemma
    <3>5. Edge(r)
      BY <1>3, <1>7, <3>3, EdgeLemma DEF Edge
    <3> QED BY <1>0, <1>1, <1>3, <1>7, <2>0, <2>2, <3>4, <3>5 DEF StepOf, Append1, TypeOK
  <2> QED BY <1>0, <1>1, <1>7, <2>0, <2>1, <2>2 DEF HandleFailure, TypeOK
<1> QED BY <1>2, <1>4, <1>5, <1>6, <1>7

\* Whatever happens, at most one run moves, and it moves as promised.
LEMMA NextStep ==
    ASSUME SafeInv, [Next]_vars
    PROVE  \/ \E r \in Runs : StepOf(r)
           \/ UNCHANGED <<run, turn, log>>
<1>1. CASE \E r \in Runs : \/ CreateRun(r) \/ Cancel(r) \/ Sweep(r)
                           \/ LeaseExpires(r) \/ BackoffElapses(r)
  BY <1>1, RequestStep
<1>2. CASE \E t \in Slots : Poll(t)
  BY <1>2, PollStep DEF Poll
<1>3. CASE \E t \in Slots : \/ Step(t) \/ Fault(t) \/ Reject(t) \/ Escape(t)
                            \/ Heartbeat(t) \/ HeartbeatError(t)
  <2>1. PICK t \in Slots : \/ Step(t) \/ Fault(t) \/ Reject(t) \/ Escape(t)
                           \/ Heartbeat(t) \/ HeartbeatError(t)
    BY <1>3
  <2>2. Busy(t)
    BY <2>1 DEF Step, Load, Recall, Boundary, Check, Drained, Node, NodeControl, Fault,
                Reject, Clarify, Escape, Heartbeat, HeartbeatError, MarkCancelled,
                MarkFinalizing, Finalize, HandleFailure, At, Busy
  <2>3. exec[t].job \in Runs
    BY <2>2, JobLemma DEF SafeInv, TypeInv
  <2>4. PICK r \in Runs : r = exec[t].job
    BY <2>3
  <2>5. StepOf(r)
    BY <2>1, <2>4, GraphStep, EndStep DEF Step
  <2> QED BY <2>5
<1>4. CASE \E w \in Workers : Drain(w) \/ Stopped(w) \/ Crash(w)
  BY <1>4 DEF Drain, Stopped, Crash
<1>5. CASE UNCHANGED vars
  BY <1>5 DEF vars
<1> QED BY <1>1, <1>2, <1>3, <1>4, <1>5 DEF Next

\* The invariant is inductive.
LEMMA SafeInductive == Spec => []SafeInv
<1>1. Init => SafeInv
  <2> SUFFICES ASSUME Init PROVE SafeInv
    OBVIOUS
  <2>1. \A r \in Runs : RunOK(r)
    BY DEF Init, Absent, NoTurn, RunOK, Ends
  <2> QED BY <2>1, InitType DEF SafeInv
<1>2. SafeInv /\ [Next]_vars => SafeInv'
  <2> SUFFICES ASSUME SafeInv, [Next]_vars PROVE SafeInv'
    OBVIOUS
  <2>1. TypeInv'
    BY NextType DEF SafeInv
  <2>2. \A q \in Runs : RunOK(q)'
    BY NextStep, FrameLemma DEF StepOf, SafeInv
  <2> QED BY <2>1, <2>2 DEF SafeInv
<1> QED BY <1>1, <1>2, PTL DEF Spec

\* A running run always names its owner, an owner is only ever named by a run
\* that is out, and no lease is alive without one (claim_next, mark_finalizing,
\* handle_failure and the heartbeat together).
THEOREM LeasesAreOrderly == Spec => []LeaseDiscipline
<1>1. SafeInv => LeaseDiscipline
  BY RunOKLemma DEF SafeInv
<1> QED BY <1>1, SafeInductive, PTL

\* The status of a run, its turn, its public error and the terminal event of
\* its stream always tell the same outcome, whichever slot wrote them.
THEOREM OutcomesAgree == Spec => []OutcomeTold
<1>1. SafeInv => OutcomeTold
  BY RunOKLemma DEF SafeInv
<1> QED BY <1>1, SafeInductive, PTL

\* No step of an overtaken slot, a retry or a client reopens a settled run or
\* rewrites its turn.
THEOREM SettledRunsStay == Spec => SettledIsFinal
<1> DEFINE Stay == \A r \in Runs : Terminal(r) =>
              /\ run'[r].status = run[r].status /\ run'[r].error = run[r].error
              /\ turn'[r] = turn[r]
<1>1. SafeInv /\ [Next]_vars => [Stay]_vars
  <2> SUFFICES ASSUME SafeInv, [Next]_vars PROVE Stay
    OBVIOUS
  <2>1. ASSUME NEW r \in Runs, StepOf(r) PROVE Stay
    <3>1. Terminal(r) => run'[r].status = run[r].status
      BY <2>1, EdgeLemma DEF StepOf, Edge, Terminal, TerminalStatuses
    <3> QED BY <2>1, <3>1 DEF StepOf
  <2>2. CASE UNCHANGED <<run, turn, log>>
    BY <2>2
  <2> QED BY <2>1, <2>2, NextStep
<1>2. SafeInv => TRUE
  OBVIOUS
<1> QED BY <1>1, SafeInductive, PTL DEF Spec, SettledIsFinal

-----------------------------------------------------------------------------
(* The queue implements the promised life cycle *)

\* The turn a run has is the one its status calls for.
LEMMA TurnLemma ==
    ASSUME TypeOK, NEW r \in Runs, RunOK(r)
    PROVE  turn[r].kind = Lifecycle!TurnAfter(run[r].status)
BY DEF TypeOK, Turn, RunOK, Lifecycle!TurnAfter

\* Every step of the queue, whatever slots, leases and processes it involves,
\* is one edge of one run of the abstract life cycle, or stutters there.
THEOREM QueueImplementsLifecycle == Spec => ImplementsLifecycle
<1>1. Init => Lifecycle!Init
  BY DEF Init, Absent, NoTurn, Lifecycle!Init
<1>2. SafeInv /\ SafeInv' /\ [Next]_vars => [Lifecycle!Next]_(Lifecycle!vars)
  <2> SUFFICES ASSUME SafeInv, SafeInv', [Next]_vars
               PROVE  [Lifecycle!Next]_(Lifecycle!vars)
    OBVIOUS
  <2> DEFINE st == [q \in Runs |-> run[q].status]
             tk == [q \in Runs |-> turn[q].kind]
  <2>1. CASE UNCHANGED <<run, turn, log>>
    BY <2>1 DEF Lifecycle!vars
  <2>2. ASSUME NEW r \in Runs, StepOf(r) PROVE [Lifecycle!Next]_(Lifecycle!vars)
    <3>1. \A q \in Runs \ {r} : run'[q] = run[q] /\ turn'[q] = turn[q]
      BY <2>2 DEF StepOf
    <3>2. /\ turn[r].kind = Lifecycle!TurnAfter(run[r].status)
          /\ turn'[r].kind = Lifecycle!TurnAfter(run'[r].status)
      <4>1. turn[r].kind = Lifecycle!TurnAfter(run[r].status)
        BY TurnLemma DEF SafeInv, TypeInv
      <4>2. TypeOK' /\ RunOK(r)'
        BY DEF SafeInv, TypeInv
      <4>3. turn'[r].kind = Lifecycle!TurnAfter(run'[r].status)
        BY <4>2 DEF TypeOK, Turn, RunOK, Lifecycle!TurnAfter
      <4> QED BY <4>1, <4>3
    <3>3. CASE run'[r].status = run[r].status
      <4>1. \A q \in Runs : run'[q].status = run[q].status /\ turn'[q].kind = turn[q].kind
        BY <3>1, <3>2, <3>3
      <4>2. st' = st /\ tk' = tk
        BY <4>1
      <4> QED BY <4>2 DEF Lifecycle!vars
    <3>4. CASE run'[r].status \in Lifecycle!AllowedTransitions[run[r].status]
      <4>1. run'[r].status \in Lifecycle!Statuses
        BY DEF SafeInv, TypeInv, TypeOK, Row, Statuses, ActiveStatuses, TerminalStatuses,
               Lifecycle!Statuses, Lifecycle!ActiveStatuses, Lifecycle!TerminalStatuses
      <4>2. PICK s \in Lifecycle!Statuses : s = run'[r].status
        BY <4>1
      <4>3. st' = [st EXCEPT ![r] = s]
        BY <3>1, <4>2
      <4>4. tk' = [tk EXCEPT ![r] = Lifecycle!TurnAfter(s)]
        BY <3>1, <3>2, <4>2
      <4>5. s \in Lifecycle!AllowedTransitions[st[r]]
        BY <3>4, <4>2
      <4>6. Lifecycle!Move(r, s)
        BY <4>3, <4>4, <4>5 DEF Lifecycle!Move
      <4>7. Lifecycle!Next
        BY <4>6 DEF Lifecycle!Next
      <4> QED BY <4>7
    <3> QED BY <2>2, <3>3, <3>4 DEF StepOf, Edge
  <2> QED BY <2>1, <2>2, NextStep
<1> QED BY <1>1, <1>2, SafeInductive, PTL DEF Spec, ImplementsLifecycle, Lifecycle!Spec

-----------------------------------------------------------------------------
(* With one slot per worker, the owner column is a fencing token *)

SingleSlot == \A t, u \in Slots : WorkerOf[t] = WorkerOf[u] => t = u

\* A row that is not claimed keeps its attempt and its owner, or is released.
KeepsClaim(r) == /\ run'[r].attempt = run[r].attempt
                 /\ run'[r].owner = run[r].owner \/ run'[r].owner = NoWorker
\* A slot that does not claim keeps its job and attempt, or is freed.
KeepsJob(t) == \/ exec'[t].pc = "idle"
               \/ /\ exec'[t].job = exec[t].job
                  /\ exec'[t].attempt = exec[t].attempt
                  /\ exec[t].pc # "idle"
               \/ exec'[t] = exec[t]

\* Every write but a claim keeps the attempt and hands the row to nobody.
LEMMA RowKept ==
    ASSUME TypeOK, NEW r \in Runs,
           \/ run'[r] = run[r]
           \/ \E s \in Statuses, c \in Causes :
                \/ run'[r] = Settled(run[r], s)
                \/ run'[r] = [Settled(run[r], s) EXCEPT !.cancel = TRUE]
                \/ run'[r] = Failed(run[r], c)
                \/ run'[r] = BackedOff(run[r], s)
                \/ run'[r] = [run[r] EXCEPT !.status = s]
           \/ \E b \in BOOLEAN : \/ run'[r] = [run[r] EXCEPT !.cancel = b]
                                 \/ run'[r] = [run[r] EXCEPT !.kept = b]
                                 \/ run'[r] = [run[r] EXCEPT !.live = b]
                                 \/ run'[r] = [run[r] EXCEPT !.due = b]
    PROVE  KeepsClaim(r)
<1>1. run[r] \in Row
  BY DEF TypeOK
<1> QED BY <1>1 DEF Row, KeepsClaim, Settled, Failed, BackedOff

\* A slot that moves on keeps its job and attempt.
LEMMA SlotKept ==
    ASSUME TypeOK, NEW t \in Slots, Busy(t),
           \/ \E pc \in Pcs : Goto(t, pc)
           \/ \E c \in Causes : Raise(t, c)
           \/ Leave(t)
           \/ \E x \in Execution : /\ exec' = [exec EXCEPT ![t] = x]
                                   /\ x.job = exec[t].job /\ x.attempt = exec[t].attempt
           \/ UNCHANGED exec
    PROVE  \A u \in Slots : KeepsJob(u)
<1>1. exec \in [Slots -> Execution]
  BY DEF TypeOK
<1>2. \A u \in Slots \ {t} : exec'[u] = exec[u]
  BY <1>1 DEF Goto, Raise, Leave
<1>3. KeepsJob(t)
  BY <1>1 DEF Goto, Raise, Leave, Idle, KeepsJob, Execution, Busy
<1> QED BY <1>2, <1>3 DEF KeepsJob

\* Requests and clocks claim nothing.
LEMMA RequestKeeps ==
    ASSUME TypeInv, NEW r \in Runs,
           CreateRun(r) \/ Cancel(r) \/ Sweep(r) \/ LeaseExpires(r) \/ BackoffElapses(r)
    PROVE  /\ \A q \in Runs : KeepsClaim(q)
           /\ \A u \in Slots : KeepsJob(u)
<1>0. TypeOK
  BY DEF TypeInv
<1>1. /\ \A q \in Runs \ {r} : run'[q] = run[q]
      /\ \/ run'[r] = [run[r] EXCEPT !.status = "queued"]
         \/ run'[r] = [run[r] EXCEPT !.cancel = TRUE]
         \/ run'[r] = [Settled(run[r], "cancelled") EXCEPT !.cancel = TRUE]
         \/ run'[r] = [run[r] EXCEPT !.kept = FALSE]
         \/ run'[r] = [run[r] EXCEPT !.live = FALSE]
         \/ run'[r] = [run[r] EXCEPT !.due = TRUE]
  BY <1>0 DEF CreateRun, Cancel, Sweep, LeaseExpires, BackoffElapses, TypeOK
<1>2. KeepsClaim(r)
  <2>1. {"queued", "cancelled"} \subseteq Statuses
    BY DEF Statuses, ActiveStatuses, TerminalStatuses
  <2>2. run[r] \in Row
    BY <1>0 DEF TypeOK
  <2> QED BY <1>1, <2>1, <2>2 DEF KeepsClaim, Row, Settled
<1>3. UNCHANGED exec
  BY DEF CreateRun, Cancel, Sweep, LeaseExpires, BackoffElapses
<1> QED BY <1>1, <1>2, <1>3 DEF KeepsClaim, KeepsJob

\* Steps of a busy slot claim nothing.
LEMMA SlotStepKeeps ==
    ASSUME TypeInv, NEW t \in Slots,
           \/ Step(t) \/ Fault(t) \/ Reject(t)
           \/ Escape(t) \/ Heartbeat(t) \/ HeartbeatError(t)
    PROVE  /\ \A q \in Runs : KeepsClaim(q)
           /\ \A u \in Slots : KeepsJob(u)
<1>0. TypeOK /\ ExecutionOK /\ Busy(t)
  BY DEF TypeInv, Step, Load, Recall, Boundary, Check, Drained, Node, NodeControl, Fault,
         Reject, Clarify, Escape, Heartbeat, HeartbeatError, MarkCancelled,
         MarkFinalizing, Finalize, HandleFailure, At, Busy
<1>1. PICK r \in Runs : r = exec[t].job
  BY <1>0, JobLemma
<1>2. run[r] \in Row /\ exec[t] \in Execution
  BY <1>0 DEF TypeOK
<1>3. \A q \in Runs : KeepsClaim(q)
  <2>1. /\ \A q \in Runs \ {r} : run'[q] = run[q]
        /\ \/ run'[r] = run[r]
           \/ run'[r] = Settled(run[r], "cancelled")
           \/ run'[r] = [run[r] EXCEPT !.status = "finalizing"]
           \/ run'[r] = Settled(run[r], "succeeded")
           \/ run'[r] = BackedOff(run[r], "finalizing")
           \/ run'[r] = BackedOff(run[r], "retry_wait")
           \/ run'[r] = Failed(run[r], exec[t].cause)
           \/ run'[r] = [run[r] EXCEPT !.live = TRUE]
    <3>1. CASE UNCHANGED run
      BY <3>1
    <3>2. CASE MarkCancelled(t)
      BY <3>2, <1>0, <1>1 DEF MarkCancelled, TypeOK
    <3>3. CASE MarkFinalizing(t)
      BY <3>3, <1>0, <1>1 DEF MarkFinalizing, TypeOK
    <3>4. CASE Finalize(t)
      BY <3>4, <1>0, <1>1 DEF Finalize, TypeOK
    <3>5. CASE HandleFailure(t)
      BY <3>5, <1>0, <1>1 DEF HandleFailure, TypeOK
    <3>6. CASE Heartbeat(t)
      BY <3>6, <1>0, <1>1 DEF Heartbeat, TypeOK
    <3> QED BY <3>1, <3>2, <3>3, <3>4, <3>5, <3>6
            DEF Step, Load, Recall, Boundary, Check, Drained, Node, NodeControl,
                Fault, Reject, Clarify, Escape, HeartbeatError
  <2>2. KeepsClaim(r)
    BY <2>1, <1>2 DEF KeepsClaim, Row, Settled, BackedOff, Failed
  <2> QED BY <2>1, <2>2 DEF KeepsClaim
<1>4. \A u \in Slots : KeepsJob(u)
  <2>1. CASE Load(t) \/ Recall(t) \/ Node(t) \/ Heartbeat(t) \/ HeartbeatError(t)
    <3>1. \A u \in Slots \ {t} : exec'[u] = exec[u]
      BY <2>1, <1>0 DEF Load, Recall, Node, Heartbeat, HeartbeatError, TypeOK
    <3>2. \/ exec'[t] = exec[t]
          \/ exec'[t] = [exec[t] EXCEPT !.lost = TRUE]
          \/ exec'[t] = [exec[t] EXCEPT !.pos = checkpoint[r], !.pc = "boundary"]
          \/ exec'[t] = [exec[t] EXCEPT !.pos = checkpoint[r], !.pc = "drained"]
          \/ exec'[t] = [exec[t] EXCEPT !.pos = @ + 1, !.pc = "boundary"]
      BY <2>1, <1>0, <1>1 DEF Load, Recall, Node, Heartbeat, HeartbeatError, TypeOK
    <3>3. KeepsJob(t)
      BY <3>2, <1>0, <1>2 DEF KeepsJob, Busy, Execution
    <3> QED BY <3>1, <3>3 DEF KeepsJob
  <2>2. CASE \/ Boundary(t) \/ Check(t) \/ Drained(t) \/ NodeControl(t) \/ Clarify(t)
            \/ MarkCancelled(t) \/ MarkFinalizing(t) \/ Finalize(t) \/ HandleFailure(t)
            \/ Fault(t) \/ Reject(t) \/ Escape(t)
    <3>1. {"check", "drained", "clarify", "cancel", "mark", "node", "finalize"} \subseteq Pcs
      BY DEF Pcs
    <3>2. {"retryable", "fatal", "run_cancelled", "illegal_transition"} \subseteq Causes
      BY DEF Causes
    <3>3. \/ \E pc \in Pcs : Goto(t, pc)
          \/ \E c \in Causes : Raise(t, c)
          \/ Leave(t)
      <4>1. CASE Check(t) \/ Drained(t)
        BY <4>1, <3>1, <3>2 DEF Check, Drained, Controlled
      <4>2. CASE Boundary(t) \/ Clarify(t) \/ NodeControl(t) \/ Fault(t) \/ Reject(t)
                 \/ Escape(t)
        BY <4>2, <3>1, <3>2 DEF Boundary, Clarify, NodeControl, Fault, Reject, Escape
      <4>3. CASE MarkCancelled(t) \/ MarkFinalizing(t)
        BY <4>3, <3>1, <3>2 DEF MarkCancelled, MarkFinalizing
      <4>4. CASE Finalize(t) \/ HandleFailure(t)
        BY <4>4, <3>1, <3>2 DEF Finalize, HandleFailure
      <4> QED BY <2>2, <4>1, <4>2, <4>3, <4>4
    <3> QED BY <3>3, <1>0, SlotKept
  <2> QED BY <2>1, <2>2 DEF Step
<1> QED BY <1>3, <1>4

\* Only claim_next starts an attempt or hands a row to a worker.
LEMMA ClaimOrKeep ==
    ASSUME TypeInv, [Next]_vars
    PROVE  \/ \E t \in Slots, r \in Runs : Claim(t, r)
           \/ /\ \A q \in Runs : KeepsClaim(q)
              /\ \A u \in Slots : KeepsJob(u)
<1>1. CASE \E r \in Runs : \/ CreateRun(r) \/ Cancel(r) \/ Sweep(r)
                           \/ LeaseExpires(r) \/ BackoffElapses(r)
  BY <1>1, RequestKeeps
<1>2. CASE \E t \in Slots, r \in Runs : Claim(t, r)
  BY <1>2
<1>3. CASE \E t \in Slots, r \in Runs : ClaimCancelled(t, r) \/ ClaimExhausted(t, r)
  <2>1. PICK r \in Runs : \E t \in Slots : ClaimCancelled(t, r) \/ ClaimExhausted(t, r)
    BY <1>3
  <2>2. /\ \A q \in Runs \ {r} : run'[q] = run[q]
        /\ \/ run'[r] = Settled(run[r], "cancelled")
           \/ run'[r] = Failed(run[r], "run_attempts_exhausted")
        /\ UNCHANGED exec /\ run[r] \in Row
    BY <2>1 DEF ClaimCancelled, ClaimExhausted, TypeInv, TypeOK
  <2>3. KeepsClaim(r)
    BY <2>2 DEF KeepsClaim, Row, Settled, Failed
  <2> QED BY <2>2, <2>3 DEF KeepsClaim, KeepsJob
<1>4. CASE \E t \in Slots : \/ Step(t) \/ Fault(t) \/ Reject(t) \/ Escape(t)
                            \/ Heartbeat(t) \/ HeartbeatError(t)
  BY <1>4, SlotStepKeeps
<1>5. CASE \E w \in Workers : Drain(w) \/ Stopped(w) \/ Crash(w)
  <2>1. UNCHANGED run /\ \A u \in Slots : exec'[u] = exec[u] \/ exec'[u] = Idle
    BY <1>5 DEF Drain, Stopped, Crash, TypeInv, TypeOK
  <2> QED BY <2>1 DEF KeepsClaim, KeepsJob, Idle
<1>6. CASE UNCHANGED vars
  BY <1>6 DEF vars, KeepsClaim, KeepsJob
<1> QED BY <1>1, <1>2, <1>3, <1>4, <1>5, <1>6 DEF Next, Poll

FenceInv == TypeInv /\ OwnerRunsNewestAttempt

\* A step that claims nothing keeps the fence.
LEMMA KeepFence ==
    ASSUME FenceInv, TypeInv',
           \A q \in Runs : KeepsClaim(q), \A u \in Slots : KeepsJob(u)
    PROVE  OwnerRunsNewestAttempt'
<1> SUFFICES ASSUME NEW t \in Slots, Busy(t)', Owns(t)'
             PROVE  exec'[t].attempt = run'[exec'[t].job].attempt
  BY DEF OwnerRunsNewestAttempt
<1>1. PICK r \in Runs : r = exec'[t].job
  BY DEF TypeInv, TypeOK, ExecutionOK, Execution, Busy
<1>2. exec[t].job = r /\ exec[t].attempt = exec'[t].attempt /\ Busy(t)
  BY <1>1 DEF KeepsJob, Busy
<1>3. run'[r].owner = WorkerOf[t] /\ WorkerOf[t] # NoWorker
  BY <1>1, RunQueueAssumption DEF Owns
<1>4. run[r].owner = WorkerOf[t] /\ run'[r].attempt = run[r].attempt
  BY <1>3 DEF KeepsClaim
<1>5. exec[t].attempt = run[r].attempt
  BY <1>2, <1>4 DEF FenceInv, OwnerRunsNewestAttempt, Owns
<1> QED BY <1>1, <1>2, <1>4, <1>5

\* A claim moves the fence to the claiming slot.
LEMMA ClaimFence ==
    ASSUME SingleSlot, FenceInv, TypeInv', NEW t \in Slots, NEW r \in Runs, Claim(t, r)
    PROVE  OwnerRunsNewestAttempt'
<1> DEFINE s == IF run[r].status = "finalizing" THEN "finalizing" ELSE "running"
           n == run[r].attempt + 1
<1>0. TypeOK /\ run[r] \in Row
  BY DEF FenceInv, TypeInv, TypeOK
<1>1. run' = [run EXCEPT ![r] = [Leased(run[r], WorkerOf[t]) EXCEPT !.status = s,
                                                                  !.attempt = n]]
  BY <1>0 DEF Claim, TypeOK
<1>2. run'[r] = [Leased(run[r], WorkerOf[t]) EXCEPT !.status = s, !.attempt = n]
  BY <1>0, <1>1 DEF TypeOK
<1>3. /\ run'[r].owner = WorkerOf[t] /\ run'[r].attempt = n
      /\ \A q \in Runs \ {r} : run'[q] = run[q]
  BY <1>0, <1>1, <1>2 DEF Row, Leased, TypeOK
<1>4. /\ exec'[t].job = r /\ exec'[t].attempt = n
      /\ \A u \in Slots \ {t} : exec'[u] = exec[u]
  BY <1>0 DEF Claim, TypeOK
<1> SUFFICES ASSUME NEW u \in Slots, Busy(u)', Owns(u)'
             PROVE  exec'[u].attempt = run'[exec'[u].job].attempt
  BY DEF OwnerRunsNewestAttempt
<1>5. CASE u = t
  BY <1>3, <1>4, <1>5
<1>6. CASE u # t
  <2>1. PICK q \in Runs : q = exec'[u].job
    BY DEF TypeInv, TypeOK, ExecutionOK, Execution, Busy
  <2>2. exec[u].job = q /\ exec[u].attempt = exec'[u].attempt /\ Busy(u)
    BY <1>4, <1>6, <2>1 DEF Busy
  <2>3. run'[q].owner = WorkerOf[u]
    BY <2>1 DEF Owns
  <2>4. q # r
    BY <1>3, <1>6, <2>3 DEF SingleSlot
  <2>5. exec[u].attempt = run[q].attempt
    BY <1>3, <2>2, <2>3, <2>4 DEF FenceInv, OwnerRunsNewestAttempt, Owns
  <2> QED BY <1>3, <2>1, <2>2, <2>4, <2>5
<1> QED BY <1>5, <1>6

\* With agent_worker_concurrency = 1 a slot that passes the owner check of
\* mark_finalizing, finalize, mark_cancelled or handle_failure executes the
\* newest attempt: an overtaken attempt never settles or releases a run.
THEOREM OwnerIsNewest == ASSUME SingleSlot PROVE Spec => []OwnerRunsNewestAttempt
<1>1. Init => FenceInv
  BY InitType DEF Init, Idle, Busy, OwnerRunsNewestAttempt, FenceInv
<1>2. FenceInv /\ [Next]_vars => FenceInv'
  <2> SUFFICES ASSUME FenceInv, [Next]_vars PROVE FenceInv'
    OBVIOUS
  <2>1. TypeInv /\ TypeInv'
    BY NextType DEF FenceInv
  <2>2. OwnerRunsNewestAttempt'
    BY <2>1, ClaimOrKeep, ClaimFence, KeepFence
  <2> QED BY <2>1, <2>2 DEF FenceInv
<1>3. FenceInv => OwnerRunsNewestAttempt
  BY DEF FenceInv
<1> QED BY <1>1, <1>2, <1>3, PTL DEF Spec

\* A requested cancellation is never lost to a new attempt of the graph: the
\* claim that would start one settles the run instead.
THEOREM CancellationIsKept == Spec => NoAttemptAfterCancel
<1> DEFINE Kept == \A r \in Runs :
              run[r].cancel /\ run'[r].attempt # run[r].attempt
                  => run[r].status = "finalizing"
<1>1. TypeInv /\ [Next]_vars => [Kept]_vars
  <2> SUFFICES ASSUME TypeInv, [Next]_vars PROVE Kept
    OBVIOUS
  <2>1. ASSUME NEW t \in Slots, NEW r \in Runs, Claim(t, r) PROVE Kept
    <3>1. \A q \in Runs \ {r} : run'[q] = run[q]
      BY <2>1 DEF Claim, TypeInv, TypeOK
    <3>2. ~run[r].cancel \/ run[r].status = "finalizing"
      BY <2>1 DEF Claim, CancelDue
    <3> QED BY <3>1, <3>2
  <2>2. CASE \A q \in Runs : KeepsClaim(q)
    BY <2>2 DEF KeepsClaim
  <2> QED BY <2>1, <2>2, ClaimOrKeep
<1>2. Spec => []TypeInv
  BY InitType, NextType, PTL DEF Spec
<1> QED BY <1>1, <1>2, PTL DEF Spec, NoAttemptAfterCancel

-----------------------------------------------------------------------------
(* One active run per conversation *)

\* Only create_run brings a run into being.
LEMMA CreationLemma ==
    ASSUME SafeInv, [Next]_vars, NEW r \in Runs,
           run[r].status = "absent", run'[r].status # "absent"
    PROVE  CreateRun(r)
<1>0. TypeOK /\ ExecutionOK /\ run \in [Runs -> Row] /\ run[r].owner = NoWorker
  BY RunOKLemma DEF SafeInv, TypeInv, TypeOK, RunOK
<1>1. CASE UNCHANGED run
  BY <1>1
<1>2. ASSUME NEW q \in Runs,
             \/ CreateRun(q) \/ Cancel(q) \/ Sweep(q) \/ LeaseExpires(q) \/ BackoffElapses(q)
      PROVE  CreateRun(r)
  <2>1. CASE q = r
    BY <1>0, <1>2, <2>1 DEF Cancel, Sweep, LeaseExpires, BackoffElapses, Terminal,
                            TerminalStatuses, Row
  <2>2. CASE q # r
    BY <1>0, <1>2, <2>2 DEF CreateRun, Cancel, Sweep, LeaseExpires, BackoffElapses
  <2> QED BY <2>1, <2>2
<1>3. ASSUME NEW t \in Slots, NEW q \in Runs,
             ClaimCancelled(t, q) \/ ClaimExhausted(t, q) \/ Claim(t, q)
      PROVE  FALSE
  <2>1. q # r
    BY <1>3 DEF ClaimCancelled, ClaimExhausted, Claim, Claimable
  <2> QED BY <1>0, <1>3, <2>1 DEF ClaimCancelled, ClaimExhausted, Claim
<1>4. ASSUME NEW t \in Slots, \/ Step(t) \/ Fault(t) \/ Reject(t) \/ Escape(t)
                              \/ Heartbeat(t) \/ HeartbeatError(t)
      PROVE  FALSE
  <2>1. ~(exec[t].job = r /\ Owns(t))
    BY <1>0, RunQueueAssumption DEF Owns
  <2>2. CASE \/ MarkCancelled(t) \/ MarkFinalizing(t) \/ Finalize(t)
             \/ HandleFailure(t) \/ Heartbeat(t)
    BY <1>0, <2>1, <2>2 DEF MarkCancelled, MarkFinalizing, Finalize, HandleFailure,
                            Heartbeat, Renewable
  <2> QED BY <1>1, <1>4, <2>2 DEF Step, Load, Recall, Boundary, Check, Drained, Node,
                                  NodeControl, Clarify, Fault, Reject, Escape, HeartbeatError
<1> QED BY <1>1, <1>2, <1>3, <1>4 DEF Next, Poll, Drain, Stopped, Crash, vars

\* However the runs of a conversation are created, cancelled, retried and
\* settled, at most one of them is under way.
THEOREM OneRunAtATime == Spec => []OneActivePerConversation
<1>1. Init => OneActivePerConversation
  BY DEF Init, Absent, OneActivePerConversation, Active, ActiveStatuses
<1>2. SafeInv /\ OneActivePerConversation /\ [Next]_vars => OneActivePerConversation'
  <2> SUFFICES ASSUME SafeInv, OneActivePerConversation, [Next]_vars,
                      NEW p \in Runs, NEW q \in Runs, ConvOf[p] = ConvOf[q],
                      Active(p)', Active(q)'
               PROVE  p = q
    BY DEF OneActivePerConversation
  <2>1. ASSUME NEW r \in Runs, Active(r)', ~Active(r) PROVE CreateRun(r)
    <3>1. run[r].status = "absent" /\ run'[r].status # "absent"
      <4>1. run[r].status \in Statuses
        BY DEF SafeInv, TypeInv, TypeOK, Row
      <4>2. run'[r].status # run[r].status
        BY <2>1 DEF Active
      <4>3. run'[r].status \in Lifecycle!AllowedTransitions[run[r].status]
        BY <4>2, NextStep DEF StepOf, Edge
      <4> QED BY <2>1, <4>1, <4>3, EdgeLemma DEF Active, ActiveStatuses, Statuses, TerminalStatuses
    <3> QED BY <3>1, CreationLemma
  <2>2. ASSUME NEW r \in Runs, CreateRun(r), NEW o \in Runs \ {r}, ConvOf[o] = ConvOf[r]
        PROVE  ~Active(o)'
    BY <2>2 DEF CreateRun, ConversationFree, Active, SafeInv, TypeInv, TypeOK
  <2> QED BY <2>1, <2>2 DEF OneActivePerConversation
<1> QED BY <1>1, <1>2, SafeInductive, PTL DEF Spec

-----------------------------------------------------------------------------
(***************************************************************************)
(* The event stream of a run against its row, for every number of runs,    *)
(* workers, slots, nodes and attempts (StreamFollowsStatus).               *)
(*                                                                         *)
(* append_runtime_event writes nothing for a key that is already there, so *)
(* the newest lifecycle event tells the status only if every key that a    *)
(* change of the status writes is new.  Behind says so: the keys of a run  *)
(* lie behind its attempt and its status.                                  *)
(***************************************************************************)

\* The events a run has, seen from its row.
Behind(r) ==
    /\ run[r].status = "absent" => \A e \in Events : ~Logged(r, e)
    /\ \A e \in Events : Logged(r, e) =>
          /\ e.kind \in {"running", "retry_wait", "finalizing"} => e.n <= run[r].attempt
          /\ e.kind = "retry_wait" /\ run[r].status = "running" => e.n < run[r].attempt
          /\ e.kind = "finalizing" => run[r].status \in {"finalizing"} \cup TerminalStatuses

\* StreamFollowsStatus for one run.
Told(r) == {i \in DOMAIN log[r] : EventStatus(log[r][i]) \in Statuses}
Follows(r) == Active(r) \/ Terminal(r) =>
    \E i \in Told(r) : /\ EventStatus(log[r][i]) = run[r].status
                       /\ \A j \in Told(r) : j <= i

\* A slot executes runs that exist.
JobsExist == \A t \in Slots : Busy(t) => run[exec[t].job].status # "absent"

StreamInv == SafeInv /\ JobsExist /\ \A r \in Runs : Behind(r) /\ Follows(r)

-----------------------------------------------------------------------------
(* What an appended event does to the stream.                              *)

\* The events of a stream are those it had and the one that is appended.
LEMMA LoggedLemma ==
    ASSUME TypeOK, NEW r \in Runs, NEW e \in Events, Append1(r, e), NEW x \in Events
    PROVE  Logged(r, x)' <=> Logged(r, x) \/ x = e
<1>1. log[r] \in Seq(Events) /\ log'[r] = Appended(r, e)
  BY DEF TypeOK, Append1
<1>2. CASE Logged(r, e)
  BY <1>1, <1>2 DEF Appended, Logged
<1>3. CASE ~Logged(r, e)
  <2>1. log'[r] = Append(log[r], e) /\ Len(log[r]) \in Nat
    BY <1>1, <1>3 DEF Appended
  <2>2. /\ DOMAIN log'[r] = 1..(Len(log[r]) + 1) /\ DOMAIN log[r] = 1..Len(log[r])
        /\ \A i \in DOMAIN log[r] : log'[r][i] = log[r][i]
        /\ log'[r][Len(log[r]) + 1] = e
    BY <1>1, <2>1
  <2>3. \A i \in DOMAIN log'[r] : i \in DOMAIN log[r] \/ i = Len(log[r]) + 1
    BY <2>1, <2>2
  <2>4. DOMAIN log[r] \subseteq DOMAIN log'[r] /\ Len(log[r]) + 1 \in DOMAIN log'[r]
    BY <2>1, <2>2
  <2>5. Logged(r, x)' <=> \E i \in DOMAIN log'[r] : log'[r][i] = x
    BY DEF Logged
  <2> QED BY <2>2, <2>3, <2>4, <2>5 DEF Logged
<1> QED BY <1>2, <1>3

\* A new event that tells the status the row now has is the newest to tell one.
LEMMA TellingLemma ==
    ASSUME TypeOK, NEW r \in Runs, NEW e \in Events, Append1(r, e), ~Logged(r, e),
           EventStatus(e) = run'[r].status, EventStatus(e) \in Statuses
    PROVE  Follows(r)'
<1>1. log[r] \in Seq(Events) /\ log'[r] = Append(log[r], e) /\ Len(log[r]) \in Nat
  BY DEF TypeOK, Append1, Appended
<1>2. /\ DOMAIN log'[r] = 1..(Len(log[r]) + 1)
      /\ log'[r][Len(log[r]) + 1] = e
  BY <1>1
<1>3. Len(log[r]) + 1 \in DOMAIN log'[r] /\ \A j \in DOMAIN log'[r] : j <= Len(log[r]) + 1
  BY <1>1, <1>2
<1>4. Told(r)' = {i \in DOMAIN log'[r] : EventStatus(log'[r][i]) \in Statuses}
  BY DEF Told, EventStatus
<1>5. \E i \in Told(r)' : /\ EventStatus(log'[r][i]) = run'[r].status
                          /\ \A j \in Told(r)' : j <= i
  BY <1>2, <1>3, <1>4
<1> QED BY <1>5 DEF Follows, EventStatus

\* An event that tells no status leaves the newest that does.
LEMMA QuietLemma ==
    ASSUME TypeOK, NEW r \in Runs, NEW e \in Events, Append1(r, e),
           EventStatus(e) \notin Statuses, Follows(r), run'[r].status = run[r].status
    PROVE  Follows(r)'
<1>1. log[r] \in Seq(Events) /\ log'[r] = Appended(r, e)
  BY DEF TypeOK, Append1
<1>2. /\ DOMAIN log[r] \subseteq DOMAIN log'[r]
      /\ \A i \in DOMAIN log[r] : log'[r][i] = log[r][i]
      /\ \A i \in DOMAIN log'[r] : i \in DOMAIN log[r] \/ log'[r][i] = e
  <2>1. CASE Logged(r, e)
    BY <1>1, <2>1 DEF Appended
  <2>2. CASE ~Logged(r, e)
    <3>1. log'[r] = Append(log[r], e) /\ Len(log[r]) \in Nat
      BY <1>1, <2>2 DEF Appended
    <3>2. /\ DOMAIN log'[r] = 1..(Len(log[r]) + 1) /\ DOMAIN log[r] = 1..Len(log[r])
          /\ \A i \in DOMAIN log[r] : log'[r][i] = log[r][i]
          /\ log'[r][Len(log[r]) + 1] = e
      BY <1>1, <3>1
    <3> QED BY <3>1, <3>2
  <2> QED BY <2>1, <2>2
<1>3. Told(r)' = {i \in DOMAIN log'[r] : EventStatus(log'[r][i]) \in Statuses}
  BY DEF Told, EventStatus
<1>4. Told(r)' = Told(r)
  BY <1>2, <1>3 DEF Told
<1>5. \A i \in Told(r) : EventStatus(log'[r][i]) = EventStatus(log[r][i])
  BY <1>2 DEF Told
<1>6. (Active(r) \/ Terminal(r))' <=> Active(r) \/ Terminal(r)
  BY DEF Active, Terminal
<1>7. Follows(r)' <=> ((Active(r) \/ Terminal(r))' =>
          \E i \in Told(r)' : /\ EventStatus(log'[r][i]) = run'[r].status
                              /\ \A j \in Told(r)' : j <= i)
  BY DEF Follows, EventStatus
<1> QED BY <1>4, <1>5, <1>6, <1>7 DEF Follows

\* A run whose events, status and attempt stay keeps what holds of its stream.
LEMMA SameLemma ==
    ASSUME NEW q \in Runs, Behind(q), Follows(q), log'[q] = log[q],
           run'[q].status = run[q].status, run'[q].attempt = run[q].attempt
    PROVE  Behind(q)' /\ Follows(q)'
<1>1. \A e \in Events : Logged(q, e)' <=> Logged(q, e)
  BY DEF Logged
<1>2. Behind(q)'
  BY <1>1 DEF Behind
<1>3. Told(q)' = Told(q)
  BY DEF Told, EventStatus
<1>4. Follows(q)'
  BY <1>3 DEF Follows, EventStatus, Active, Terminal
<1> QED BY <1>2, <1>4

-----------------------------------------------------------------------------
(* The two ways a step writes to a run's row and stream.                   *)

\* A node or clarification event changes nothing the row tells.
LEMMA NoteLemma ==
    ASSUME TypeOK, NEW r \in Runs, Behind(r), Follows(r),
           NEW k \in {"node", "clarification"}, NEW n \in Nat, Append1(r, Event(k, n)),
           run[r].status # "absent",
           run'[r].status = run[r].status, run'[r].attempt = run[r].attempt
    PROVE  Behind(r)' /\ Follows(r)'
<1> DEFINE e == Event(k, n)
<1>1. e \in Events /\ e.kind = k
  BY DEF Event, Events, EventKinds
<1>2. EventStatus(e) \notin Statuses
  BY <1>1 DEF EventStatus, Statuses, ActiveStatuses, TerminalStatuses
<1>3. Follows(r)'
  BY <1>1, <1>2, QuietLemma
<1>4. \A x \in Events : Logged(r, x)' <=> Logged(r, x) \/ x = e
  BY <1>1, LoggedLemma
<1>5. Behind(r)'
  BY <1>1, <1>4 DEF Behind
<1> QED BY <1>3, <1>5

\* A change of the status, or an attempt, is told by an event of its own, whose
\* key is new and lies behind what the row now says.
LEMMA AdvanceLemma ==
    ASSUME TypeOK, TypeOK', NEW r \in Runs, Behind(r),
           NEW k \in EventKinds, NEW n \in Nat,
           Append1(r, Event(k, n)), ~Logged(r, Event(k, n)),
           EventStatus(Event(k, n)) = run'[r].status, run'[r].status # "absent",
           run[r].attempt <= run'[r].attempt,
           k \in {"running", "retry_wait", "finalizing"} => n <= run'[r].attempt,
           run'[r].status = "running" => run[r].attempt < run'[r].attempt,
           run[r].status \in {"finalizing"} \cup TerminalStatuses
             => run'[r].status \in {"finalizing"} \cup TerminalStatuses
    PROVE  Behind(r)' /\ Follows(r)'
<1> DEFINE e == Event(k, n)
<1>1. e \in Events /\ e.kind = k /\ e.n = n
  BY DEF Event, Events
<1>2. run[r] \in Row /\ run'[r] \in Row /\ run[r].attempt \in Nat /\ run'[r].attempt \in Nat
  BY RunQueueAssumption DEF TypeOK, Row
<1>3. Follows(r)'
  BY <1>1, <1>2, TellingLemma DEF Row
<1>4. \A x \in Events : Logged(r, x)' <=> Logged(r, x) \/ x = e
  BY <1>1, LoggedLemma
<1>5. Behind(r)'
  <2> SUFFICES ASSUME NEW x \in Events, Logged(r, x)'
               PROVE  /\ x.kind \in {"running", "retry_wait", "finalizing"} => x.n <= run'[r].attempt
                      /\ x.kind = "retry_wait" /\ run'[r].status = "running" => x.n < run'[r].attempt
                      /\ x.kind = "finalizing" => run'[r].status \in {"finalizing"} \cup TerminalStatuses
    BY DEF Behind
  <2>1. x.n \in Nat
    BY DEF Events
  <2>2. CASE x = e
    BY <1>1, <2>2 DEF EventStatus
  <2>3. CASE Logged(r, x)
    <3>1. /\ x.kind \in {"running", "retry_wait", "finalizing"} => x.n <= run[r].attempt
          /\ x.kind = "finalizing" => run[r].status \in {"finalizing"} \cup TerminalStatuses
      BY <2>3 DEF Behind
    <3> QED BY <1>2, <2>1, <3>1
  <2> QED BY <1>4, <2>2, <2>3
<1> QED BY <1>3, <1>5

\* The event that settles a run is new, because its stream tells no outcome yet.
LEMMA SettleLemma ==
    ASSUME TypeOK, TypeOK', NEW r \in Runs, RunOK(r), Behind(r), ~Terminal(r),
           NEW k \in {"result", "error", "cancelled"}, NEW n \in Nat,
           Append1(r, Event(k, n)), EventStatus(Event(k, n)) = run'[r].status,
           run'[r].attempt = run[r].attempt
    PROVE  Behind(r)' /\ Follows(r)'
<1>1. k \in EventKinds /\ Event(k, n).kind = k
  BY DEF EventKinds, Event
<1>2. ~Ends(r, k)
  BY DEF RunOK, Terminal, TerminalStatuses
<1>3. ~Logged(r, Event(k, n))
  BY <1>1, <1>2 DEF Ends, Logged
<1>4. run'[r].status \in TerminalStatuses /\ run'[r].status \notin {"absent", "running"}
  BY <1>1 DEF EventStatus, TerminalStatuses
<1>5. run[r].attempt \in Nat
  BY RunQueueAssumption DEF TypeOK, Row
<1> QED BY <1>1, <1>3, <1>4, <1>5, AdvanceLemma

-----------------------------------------------------------------------------
(* Every step *)

\* Requests and clocks.
LEMMA RequestFollows ==
    ASSUME StreamInv, TypeOK', NEW r \in Runs,
           CreateRun(r) \/ Cancel(r) \/ Sweep(r) \/ LeaseExpires(r) \/ BackoffElapses(r)
    PROVE  Behind(r)' /\ Follows(r)'
<1>0. TypeOK /\ RunOK(r) /\ Behind(r) /\ Follows(r) /\ run[r] \in Row
  BY DEF StreamInv, SafeInv, TypeInv, TypeOK
<1>1. run[r].attempt \in Nat
  BY <1>0, RunQueueAssumption DEF Row
<1>2. CASE CreateRun(r)
  <2>1. /\ run'[r].status = "queued" /\ run'[r].attempt = run[r].attempt
        /\ run[r].status = "absent" /\ Append1(r, Event("queued", 0))
    BY <1>0, <1>2 DEF CreateRun, TypeOK, Row
  <2>2. /\ Event("queued", 0) \in Events /\ "queued" \in EventKinds
        /\ EventStatus(Event("queued", 0)) = "queued"
    BY DEF Event, Events, EventKinds, EventStatus
  <2>3. ~Logged(r, Event("queued", 0))
    BY <1>0, <2>1, <2>2 DEF Behind
  <2> QED BY <1>0, <1>1, <2>1, <2>2, <2>3, AdvanceLemma DEF TerminalStatuses
<1>3. CASE Cancel(r) /\ run[r].status # "running"
  <2>1. /\ run'[r] = [Settled(run[r], "cancelled") EXCEPT !.cancel = TRUE]
        /\ Append1(r, Event("cancelled", 0)) /\ ~Terminal(r)
    BY <1>0, <1>3 DEF Cancel, PersistCancelledTurn, Terminal, TerminalStatuses, TypeOK
  <2>2. /\ run'[r].status = "cancelled" /\ run'[r].attempt = run[r].attempt
        /\ EventStatus(Event("cancelled", 0)) = "cancelled"
    BY <1>0, <2>1 DEF Settled, Row, EventStatus, Event
  <2> QED BY <1>0, <2>1, <2>2, SettleLemma
<1>4. CASE \/ Cancel(r) /\ run[r].status = "running"
           \/ Sweep(r) \/ LeaseExpires(r) \/ BackoffElapses(r)
  <2>1. UNCHANGED log /\ \/ run'[r] = [run[r] EXCEPT !.cancel = TRUE]
                         \/ run'[r] = [run[r] EXCEPT !.kept = FALSE]
                         \/ run'[r] = [run[r] EXCEPT !.live = FALSE]
                         \/ run'[r] = [run[r] EXCEPT !.due = TRUE]
    BY <1>0, <1>4 DEF Cancel, Sweep, LeaseExpires, BackoffElapses, TypeOK
  <2>2. run'[r].status = run[r].status /\ run'[r].attempt = run[r].attempt
    BY <1>0, <2>1 DEF Row
  <2> QED BY <1>0, <2>1, <2>2, SameLemma
<1> QED BY <1>2, <1>3, <1>4

\* claim_next.
LEMMA PollFollows ==
    ASSUME StreamInv, TypeOK', NEW t \in Slots, NEW r \in Runs,
           ClaimCancelled(t, r) \/ ClaimExhausted(t, r) \/ Claim(t, r)
    PROVE  Behind(r)' /\ Follows(r)'
<1>0. TypeOK /\ RunOK(r) /\ Behind(r) /\ run[r] \in Row
  BY DEF StreamInv, SafeInv, TypeInv, TypeOK
<1>1. run[r].attempt \in Nat
  BY <1>0, RunQueueAssumption DEF Row
<1>2. run[r].status \in ActiveStatuses /\ ~Terminal(r)
  BY DEF ClaimCancelled, ClaimExhausted, Claim, Claimable, Terminal, TerminalStatuses,
         ActiveStatuses
<1>3. CASE ClaimCancelled(t, r)
  <2>1. run'[r] = Settled(run[r], "cancelled") /\ Append1(r, Event("cancelled", 0))
    BY <1>0, <1>3 DEF ClaimCancelled, PersistCancelledTurn, TypeOK
  <2>2. /\ run'[r].status = "cancelled" /\ run'[r].attempt = run[r].attempt
        /\ EventStatus(Event("cancelled", 0)) = "cancelled"
    BY <1>0, <2>1 DEF Settled, Row, EventStatus, Event
  <2> QED BY <1>0, <1>2, <2>1, <2>2, SettleLemma
<1>4. CASE ClaimExhausted(t, r)
  <2>1. /\ run'[r] = Failed(run[r], "run_attempts_exhausted")
        /\ Append1(r, Event("error", run[r].attempt))
    BY <1>0, <1>4 DEF ClaimExhausted, TypeOK
  <2>2. /\ run'[r].status = "failed" /\ run'[r].attempt = run[r].attempt
        /\ EventStatus(Event("error", run[r].attempt)) = "failed"
    BY <1>0, <2>1 DEF Failed, Settled, Row, EventStatus, Event
  <2> QED BY <1>0, <1>1, <1>2, <2>1, <2>2, SettleLemma
<1>5. CASE Claim(t, r)
  <2> DEFINE s == IF run[r].status = "finalizing" THEN "finalizing" ELSE "running"
             n == run[r].attempt + 1
  <2>1. /\ run'[r] = [Leased(run[r], WorkerOf[t]) EXCEPT !.status = s, !.attempt = n]
        /\ Append1(r, Event(s, n))
    BY <1>0, <1>5 DEF Claim, AttemptKey, TypeOK
  <2>2. run'[r].status = s /\ run'[r].attempt = n
    BY <1>0, <2>1 DEF Leased, Row
  <2>3. /\ s \in EventKinds /\ n \in Nat /\ Event(s, n) \in Events
        /\ Event(s, n).n = n /\ Event(s, n).kind = s /\ EventStatus(Event(s, n)) = s
    BY <1>1 DEF Event, Events, EventKinds, EventStatus
  <2>4. ~Logged(r, Event(s, n))
    BY <1>0, <1>1, <2>3 DEF Behind
  <2>5. /\ s \in {"running", "finalizing"}
        /\ run[r].status \in {"finalizing"} \cup TerminalStatuses => s = "finalizing"
    BY <1>2 DEF Terminal
  <2>6. PICK k \in EventKinds, m \in Nat : k = s /\ m = n
    BY <2>3
  <2>7. run[r].attempt < m
    BY <1>1, <2>6
  <2>8. /\ Append1(r, Event(k, m)) /\ ~Logged(r, Event(k, m))
        /\ EventStatus(Event(k, m)) = k /\ k \in {"running", "finalizing"}
        /\ run[r].status \in {"finalizing"} \cup TerminalStatuses => k = "finalizing"
        /\ run'[r].status = k /\ run'[r].attempt = m
    BY <2>1, <2>2, <2>3, <2>4, <2>5, <2>6
  <2> QED BY <1>0, <1>1, <2>7, <2>8, AdvanceLemma
<1> QED BY <1>3, <1>4, <1>5

\* The steps of a slot between its transactions: they write node and clarification
\* events at most.
LEMMA GraphFollows ==
    ASSUME StreamInv, NEW t \in Slots, NEW r \in Runs, r = exec[t].job,
           \/ Load(t) \/ Recall(t) \/ Boundary(t) \/ Check(t) \/ Drained(t)
           \/ Node(t) \/ NodeControl(t) \/ Fault(t) \/ Reject(t) \/ Clarify(t)
           \/ Escape(t) \/ Heartbeat(t) \/ HeartbeatError(t)
    PROVE  Behind(r)' /\ Follows(r)'
<1>0. TypeOK /\ Behind(r) /\ Follows(r) /\ run[r] \in Row /\ Busy(t)
  BY DEF StreamInv, SafeInv, TypeInv, TypeOK, Load, Recall, Boundary, Check, Drained, Node,
         NodeControl, Fault, Reject, Clarify, Escape, Heartbeat, HeartbeatError, At, Busy
<1>1. run[r].status # "absent" /\ exec[t].pos \in Nat
  BY <1>0, RunQueueAssumption DEF StreamInv, JobsExist, TypeOK, Execution
<1>2. \/ run'[r] = run[r]
      \/ run'[r] = [run[r] EXCEPT !.live = TRUE]
  BY <1>0 DEF Load, Recall, Boundary, Check, Drained, Node, NodeControl, Fault, Reject,
              Clarify, Escape, Heartbeat, HeartbeatError, TypeOK
<1>3. run'[r].status = run[r].status /\ run'[r].attempt = run[r].attempt
  BY <1>0, <1>2 DEF Row
<1>4. \/ UNCHANGED log
      \/ \E k \in {"node", "clarification"}, n \in Nat : Append1(r, Event(k, n))
  BY <1>1 DEF Load, Recall, Boundary, Check, Drained, Node, NodeControl, Fault, Reject,
              Clarify, Escape, Heartbeat, HeartbeatError
<1>5. CASE UNCHANGED log
  BY <1>0, <1>3, <1>5, SameLemma
<1>6. CASE \E k \in {"node", "clarification"}, n \in Nat : Append1(r, Event(k, n))
  BY <1>0, <1>1, <1>3, <1>6, NoteLemma
<1> QED BY <1>4, <1>5, <1>6

\* The transactions of a slot.
LEMMA EndFollows ==
    ASSUME StreamInv, TypeOK', NEW t \in Slots, NEW r \in Runs, r = exec[t].job,
           MarkCancelled(t) \/ MarkFinalizing(t) \/ Finalize(t) \/ HandleFailure(t)
    PROVE  Behind(r)' /\ Follows(r)'
<1>0. /\ SafeInv /\ TypeOK /\ RunOK(r) /\ Behind(r) /\ Follows(r) /\ run[r] \in Row
      /\ Busy(t)
  BY DEF StreamInv, SafeInv, TypeInv, TypeOK, MarkCancelled, MarkFinalizing, Finalize,
         HandleFailure, At, Busy
<1>1. run[r].attempt \in Nat
  BY <1>0, RunQueueAssumption DEF Row
<1>2. CASE UNCHANGED <<run, log>>
  BY <1>0, <1>2, SameLemma
<1>3. ASSUME ~UNCHANGED <<run, log>>
      PROVE  run[r].status \in {"running", "finalizing"} /\ ~Terminal(r)
  <2>1. Owns(t)
    BY <1>3 DEF MarkCancelled, MarkFinalizing, Finalize, HandleFailure
  <2> QED BY <2>1, <1>0, FenceLemma DEF Terminal, TerminalStatuses
<1>4. ASSUME MarkCancelled(t), ~UNCHANGED <<run, log>> PROVE Behind(r)' /\ Follows(r)'
  <2>1. run'[r] = Settled(run[r], "cancelled") /\ Append1(r, Event("cancelled", 0))
    BY <1>0, <1>4 DEF MarkCancelled, PersistCancelledTurn, TypeOK
  <2>2. /\ run'[r].status = "cancelled" /\ run'[r].attempt = run[r].attempt
        /\ EventStatus(Event("cancelled", 0)) = "cancelled"
    BY <1>0, <2>1 DEF Settled, Row, EventStatus, Event
  <2> QED BY <1>0, <1>3, <1>4, <2>1, <2>2, SettleLemma
<1>5. ASSUME MarkFinalizing(t), ~UNCHANGED <<run, log>> PROVE Behind(r)' /\ Follows(r)'
  <2>1. /\ run'[r] = [run[r] EXCEPT !.status = "finalizing"]
        /\ Append1(r, Event("finalizing", 0)) /\ run[r].status = "running"
    BY <1>0, <1>5 DEF MarkFinalizing, TypeOK
  <2>2. run'[r].status = "finalizing" /\ run'[r].attempt = run[r].attempt
    BY <1>0, <2>1 DEF Row
  <2>3. /\ "finalizing" \in EventKinds /\ Event("finalizing", 0) \in Events
        /\ Event("finalizing", 0).kind = "finalizing"
        /\ EventStatus(Event("finalizing", 0)) = "finalizing"
    BY DEF Event, Events, EventKinds, EventStatus
  <2>4. ~Logged(r, Event("finalizing", 0))
    BY <1>0, <2>1, <2>3 DEF Behind, TerminalStatuses
  <2>5. /\ run'[r].status \notin {"absent", "running"} /\ 0 <= run'[r].attempt
        /\ run[r].attempt <= run'[r].attempt /\ 0 \in Nat
        /\ run[r].status \notin {"finalizing"} \cup TerminalStatuses
    BY <1>1, <2>1, <2>2 DEF TerminalStatuses
  <2>6. EventStatus(Event("finalizing", 0)) = run'[r].status
    BY <2>2, <2>3
  <2> QED BY <1>0, <2>1, <2>3, <2>4, <2>5, <2>6, AdvanceLemma
<1>6. ASSUME Finalize(t), ~UNCHANGED <<run, log>> PROVE Behind(r)' /\ Follows(r)'
  <2>1. run'[r] = Settled(run[r], "succeeded") /\ Append1(r, Event("result", 0))
    BY <1>0, <1>6 DEF Finalize, TypeOK
  <2>2. /\ run'[r].status = "succeeded" /\ run'[r].attempt = run[r].attempt
        /\ EventStatus(Event("result", 0)) = "succeeded"
    BY <1>0, <2>1 DEF Settled, Row, EventStatus, Event
  <2> QED BY <1>0, <1>3, <1>6, <2>1, <2>2, SettleLemma
<1>7. ASSUME HandleFailure(t), ~UNCHANGED <<run, log>> PROVE Behind(r)' /\ Follows(r)'
  <2>0. \/ /\ run'[r] = BackedOff(run[r], "finalizing") /\ run[r].status = "finalizing"
           /\ UNCHANGED log
        \/ /\ run'[r] = BackedOff(run[r], "retry_wait") /\ run[r].status = "running"
           /\ Append1(r, Event("retry_wait", run[r].attempt))
        \/ /\ run'[r] = Failed(run[r], exec[t].cause)
           /\ Append1(r, Event("error", run[r].attempt))
    BY <1>0, <1>7 DEF HandleFailure, AttemptKey, TypeOK
  <2>1. CASE /\ run'[r] = BackedOff(run[r], "finalizing") /\ run[r].status = "finalizing"
             /\ UNCHANGED log
    <3>1. run'[r].status = run[r].status /\ run'[r].attempt = run[r].attempt
      BY <1>0, <2>1 DEF BackedOff, Row
    <3> QED BY <1>0, <2>1, <3>1, SameLemma
  <2>2. CASE /\ run'[r] = BackedOff(run[r], "retry_wait") /\ run[r].status = "running"
             /\ Append1(r, Event("retry_wait", run[r].attempt))
    <3>1. run'[r].status = "retry_wait" /\ run'[r].attempt = run[r].attempt
      BY <1>0, <2>2 DEF BackedOff, Row
    <3>2. PICK n \in Nat : n = run[r].attempt
      BY <1>1
    <3>3. /\ "retry_wait" \in EventKinds /\ Event("retry_wait", n) \in Events
          /\ Event("retry_wait", n).kind = "retry_wait" /\ Event("retry_wait", n).n = n
          /\ EventStatus(Event("retry_wait", n)) = "retry_wait"
      BY DEF Event, Events, EventKinds, EventStatus
    <3>4. ~Logged(r, Event("retry_wait", n))
      BY <1>0, <2>2, <3>2, <3>3 DEF Behind
    <3>5. Append1(r, Event("retry_wait", n))
      BY <2>2, <3>2
    <3>6. /\ EventStatus(Event("retry_wait", n)) = run'[r].status
          /\ run'[r].status \notin {"absent", "running"} /\ n <= run'[r].attempt
          /\ run[r].status \notin {"finalizing"} \cup TerminalStatuses
      BY <1>1, <2>2, <3>1, <3>2, <3>3 DEF TerminalStatuses
    <3>7. run[r].attempt <= run'[r].attempt
      BY <1>1, <3>1
    <3> QED BY <1>0, <3>3, <3>4, <3>5, <3>6, <3>7, AdvanceLemma
  <2>3. CASE /\ run'[r] = Failed(run[r], exec[t].cause)
             /\ Append1(r, Event("error", run[r].attempt))
    <3>1. run'[r].status = "failed" /\ run'[r].attempt = run[r].attempt
      BY <1>0, <2>3 DEF Failed, Settled, Row
    <3>2. PICK n \in Nat : n = run[r].attempt
      BY <1>1
    <3>3. Append1(r, Event("error", n)) /\ EventStatus(Event("error", n)) = "failed"
      BY <2>3, <3>2 DEF EventStatus, Event
    <3> QED BY <1>0, <1>3, <1>7, <3>1, <3>3, SettleLemma
  <2> QED BY <2>0, <2>1, <2>2, <2>3
<1> QED BY <1>2, <1>4, <1>5, <1>6, <1>7

\* A step writes the row and stream of one run at most, and keeps what holds of it.
LEMMA NextFollows ==
    ASSUME StreamInv, TypeOK', [Next]_vars
    PROVE  \A q \in Runs : Behind(q)' /\ Follows(q)'
<1>0. TypeOK /\ SafeInv
  BY DEF StreamInv, SafeInv, TypeInv
<1>1. ASSUME NEW r \in Runs, Behind(r)' /\ Follows(r)', StepOf(r)
      PROVE  \A q \in Runs : Behind(q)' /\ Follows(q)'
  <2>1. \A q \in Runs \ {r} : run'[q] = run[q] /\ log'[q] = log[q]
    BY <1>1 DEF StepOf
  <2>2. \A q \in Runs \ {r} : Behind(q)' /\ Follows(q)'
    BY <2>1, SameLemma DEF StreamInv
  <2> QED BY <1>1, <2>2
<1>2. ASSUME UNCHANGED <<run, log>> PROVE \A q \in Runs : Behind(q)' /\ Follows(q)'
  BY <1>2, SameLemma DEF StreamInv
<1>3. CASE \E r \in Runs : \/ CreateRun(r) \/ Cancel(r) \/ Sweep(r)
                           \/ LeaseExpires(r) \/ BackoffElapses(r)
  BY <1>0, <1>1, <1>3, RequestStep, RequestFollows
<1>4. CASE \E t \in Slots : Poll(t)
  BY <1>0, <1>1, <1>4, PollStep, PollFollows DEF Poll
<1>5. CASE \E t \in Slots : \/ Step(t) \/ Fault(t) \/ Reject(t) \/ Escape(t)
                            \/ Heartbeat(t) \/ HeartbeatError(t)
  <2>1. PICK t \in Slots : \/ Step(t) \/ Fault(t) \/ Reject(t) \/ Escape(t)
                           \/ Heartbeat(t) \/ HeartbeatError(t)
    BY <1>5
  <2>2. Busy(t)
    BY <2>1 DEF Step, Load, Recall, Boundary, Check, Drained, Node, NodeControl, Fault,
                Reject, Clarify, Escape, Heartbeat, HeartbeatError, MarkCancelled,
                MarkFinalizing, Finalize, HandleFailure, At, Busy
  <2>3. PICK r \in Runs : r = exec[t].job
    BY <1>0, <2>2, JobLemma DEF SafeInv, TypeInv
  <2>4. StepOf(r)
    BY <1>0, <2>1, <2>3, GraphStep, EndStep DEF Step
  <2>5. Behind(r)' /\ Follows(r)'
    BY <2>1, <2>3, GraphFollows, EndFollows DEF Step
  <2> QED BY <1>1, <2>4, <2>5
<1>6. CASE \E w \in Workers : Drain(w) \/ Stopped(w) \/ Crash(w)
  BY <1>2, <1>6 DEF Drain, Stopped, Crash
<1>7. CASE UNCHANGED vars
  BY <1>2, <1>7 DEF vars
<1> QED BY <1>3, <1>4, <1>5, <1>6, <1>7 DEF Next

\* A slot takes only runs that exist, and no run ceases to.
LEMMA NextJobs ==
    ASSUME StreamInv, TypeInv', [Next]_vars
    PROVE  JobsExist'
<1>0. SafeInv /\ TypeInv /\ TypeOK
  BY DEF StreamInv, SafeInv, TypeInv
<1>1. \A q \in Runs : run[q].status # "absent" => run'[q].status # "absent"
  <2>1. ASSUME NEW r \in Runs, Edge(r), run[r].status # "absent"
        PROVE  run'[r].status # "absent"
    <3>1. run[r].status \in Statuses
      BY <1>0 DEF TypeOK, Row
    <3> QED BY <2>1, <3>1, EdgeLemma DEF Edge, Statuses, ActiveStatuses, TerminalStatuses
  <2> QED BY <1>0, <2>1, NextStep DEF StepOf
<1> SUFFICES ASSUME NEW t \in Slots, Busy(t)'
             PROVE  run'[exec'[t].job].status # "absent"
  BY DEF JobsExist
<1>2. PICK r \in Runs : r = exec'[t].job
  BY DEF TypeInv, TypeOK, ExecutionOK, Execution, Busy
<1>3. ASSUME NEW u \in Slots, NEW q \in Runs, Claim(u, q)
      PROVE  run[r].status # "absent"
  <2>1. run[q].status # "absent"
    BY <1>3 DEF Claim, Claimable
  <2>2. /\ exec'[u].job = q
        /\ \A v \in Slots \ {u} : exec'[v] = exec[v]
    BY <1>0, <1>3 DEF Claim, TypeOK
  <2>3. t # u => Busy(t) /\ exec[t].job = r
    BY <1>2, <2>2 DEF Busy
  <2> QED BY <1>2, <2>1, <2>2, <2>3 DEF StreamInv, JobsExist
<1>4. ASSUME KeepsJob(t) PROVE run[r].status # "absent"
  <2>1. Busy(t) /\ exec[t].job = r
    BY <1>2, <1>4 DEF KeepsJob, Busy
  <2> QED BY <2>1 DEF StreamInv, JobsExist
<1>5. run[r].status # "absent"
  BY <1>0, <1>3, <1>4, ClaimOrKeep
<1> QED BY <1>1, <1>2, <1>5

\* A client that follows the stream of a run knows its status: the newest lifecycle
\* event is the one of the status the row has, whatever attempt wrote it and whatever
\* node events overtaken slots add (append_runtime_event, claim_next, handle_failure).
THEOREM StreamTellsTheStatus == Spec => []StreamFollowsStatus
<1>1. Init => StreamInv
  <2> SUFFICES ASSUME Init PROVE StreamInv
    OBVIOUS
  <2>1. \A r \in Runs : RunOK(r)
    BY DEF Init, Absent, NoTurn, RunOK, Ends
  <2>2. \A r \in Runs : run[r].status = "absent" /\ DOMAIN log[r] = {}
    BY DEF Init, Absent
  <2>3. \A r \in Runs : Behind(r) /\ Follows(r)
    BY <2>2 DEF Behind, Follows, Logged, Active, Terminal, ActiveStatuses, TerminalStatuses
  <2>4. JobsExist
    BY DEF JobsExist, Init, Idle, Busy
  <2> QED BY <2>1, <2>3, <2>4, InitType DEF StreamInv, SafeInv
<1>2. StreamInv /\ [Next]_vars => StreamInv'
  <2> SUFFICES ASSUME StreamInv, [Next]_vars PROVE StreamInv'
    OBVIOUS
  <2>1. TypeInv' /\ TypeOK'
    BY NextType DEF StreamInv, SafeInv, TypeInv
  <2>2. \A q \in Runs : RunOK(q)'
    BY NextStep, FrameLemma DEF StepOf, StreamInv, SafeInv
  <2> QED BY <2>1, <2>2, NextFollows, NextJobs DEF StreamInv, SafeInv
<1>3. StreamInv => StreamFollowsStatus
  BY DEF StreamInv, Follows, Told, StreamFollowsStatus
<1> QED BY <1>1, <1>2, <1>3, PTL DEF Spec
===============================================================================
