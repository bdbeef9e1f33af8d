--------------------------- MODULE ImportJobsProofs ---------------------------
(***************************************************************************)
(* Safety of the import jobs for every number of submissions, tenants,     *)
(* keys, snapshots, workers, slots and attempts.  The inductive invariant  *)
(* is SafeInv below.  The properties alone are not inductive: that a       *)
(* publication supersedes exactly the snapshot that was current needs      *)
(* LockOK, the row an open publication keeps locked, and SeenOK, what the  *)
(* batches its UPDATE retires may have become meanwhile.                   *)
(***************************************************************************)
EXTENDS ImportJobs, TLAPS

\* A slot that is not idle has a job.
ExecutionOK == \A t \in Slots : exec[t].job = NoJob <=> exec[t].pc = "idle"

TypeInv == TypeOK /\ ExecutionOK

-----------------------------------------------------------------------------
(* Lemmas about the operators *)

\* A released row is a row.
LEMMA RowLemma ==
    ASSUME NEW row \in Row, NEW s \in Statuses
    PROVE  /\ Released(row, s) \in Row
           /\ Released(row, s).status = s /\ Released(row, s).owner = NoWorker
           /\ ~Released(row, s).live /\ Released(row, s).attempt = row.attempt
BY DEF Row, Released

\* An audit event is counted where it is appended, and nowhere else.
LEMMA AuditLemma ==
    ASSUME TypeOK, NEW j \in Jobs, NEW a \in AuditActions, Audited(j, a)
    PROVE  /\ audit' \in [Jobs -> [AuditActions -> Nat]]
           /\ \A k \in Jobs, b \in AuditActions :
                 audit'[k][b] = IF k = j /\ b = a THEN audit[k][b] + 1 ELSE audit[k][b]
<1>1. audit \in [Jobs -> [AuditActions -> Nat]]
  BY DEF TypeOK
<1>2. audit' = [audit EXCEPT ![j] = [audit[j] EXCEPT ![a] = @ + 1]]
  BY <1>1 DEF Audited
<1>3. audit[j] \in [AuditActions -> Nat]
  BY <1>1
<1>4. [audit[j] EXCEPT ![a] = @ + 1] \in [AuditActions -> Nat]
  BY <1>3
<1>5. audit' \in [Jobs -> [AuditActions -> Nat]]
  BY <1>1, <1>2, <1>4
<1>6. \A k \in Jobs, b \in AuditActions :
         audit'[k][b] = IF k = j /\ b = a THEN audit[k][b] + 1 ELSE audit[k][b]
  BY <1>1, <1>2, <1>3
<1> QED BY <1>5, <1>6

\* The job of a busy slot is a submission.
LEMMA JobLemma ==
    ASSUME TypeInv, NEW t \in Slots, Busy(t)
    PROVE  exec[t].job \in Jobs /\ exec[t].phase \in WorkingStatuses
BY DEF TypeInv, TypeOK, ExecutionOK, Busy, Execution

\* What a slot can become when it moves on, raises or leaves.
MovesOn(t) == /\ exec' \in [Slots -> Execution] /\ ExecutionOK'
              /\ \A u \in Slots \ {t} : exec'[u] = exec[u]
              /\ \/ exec'[t] = Idle
                 \/ /\ exec'[t].job = exec[t].job /\ exec'[t].attempt = exec[t].attempt
                    /\ exec'[t].pc \notin {"idle", "publish"}

\* A slot that moves, raises or leaves opens no publication.
LEMMA SlotLemma ==
    ASSUME TypeInv, NEW t \in Slots, Busy(t),
           \/ \E pc \in {"outcome", "open", "report"} : Goto(t, pc)
           \/ \E b \in BOOLEAN : Raise(t, b)
           \/ Leave(t)
    PROVE  MovesOn(t)
<1>1. exec \in [Slots -> Execution] /\ exec[t] \in Execution
  BY DEF TypeInv, TypeOK
<1>2. ASSUME NEW pc \in {"outcome", "open", "report"}, Goto(t, pc) PROVE MovesOn(t)
  <2>1. exec' = [exec EXCEPT ![t] = [exec[t] EXCEPT !.pc = pc]]
    BY <1>1, <1>2 DEF Goto
  <2>2. [exec[t] EXCEPT !.pc = pc] \in Execution
    BY <1>1 DEF Execution
  <2>3. /\ exec'[t] = [exec[t] EXCEPT !.pc = pc] /\ exec' \in [Slots -> Execution]
        /\ \A u \in Slots \ {t} : exec'[u] = exec[u]
    BY <1>1, <2>1, <2>2
  <2>4. exec'[t].job = exec[t].job /\ exec'[t].attempt = exec[t].attempt /\ exec'[t].pc = pc
    BY <1>1, <2>3 DEF Execution
  <2>5. exec[t].job # NoJob
    BY DEF TypeInv, ExecutionOK, Busy
  <2>6. ASSUME NEW u \in Slots PROVE exec'[u].job = NoJob <=> exec'[u].pc = "idle"
    <3>1. CASE u = t
      BY <2>4, <2>5, <3>1
    <3>2. CASE u # t
      BY <2>3, <3>2 DEF TypeInv, ExecutionOK
    <3> QED BY <3>1, <3>2
  <2>7. ExecutionOK'
    BY <2>6 DEF ExecutionOK
  <2> QED BY <2>3, <2>4, <2>7 DEF MovesOn
<1>3. ASSUME NEW b \in BOOLEAN, Raise(t, b) PROVE MovesOn(t)
  <2>1. exec' = [exec EXCEPT ![t] = [exec[t] EXCEPT !.pc = "fail", !.retryable = b]]
    BY <1>1, <1>3 DEF Raise
  <2>2. [exec[t] EXCEPT !.pc = "fail", !.retryable = b] \in Execution
    BY <1>1 DEF Execution
  <2>3. /\ exec'[t] = [exec[t] EXCEPT !.pc = "fail", !.retryable = b]
        /\ exec' \in [Slots -> Execution]
        /\ \A u \in Slots \ {t} : exec'[u] = exec[u]
    BY <1>1, <2>1, <2>2
  <2>4. exec'[t].job = exec[t].job /\ exec'[t].attempt = exec[t].attempt /\ exec'[t].pc = "fail"
    BY <1>1, <2>3 DEF Execution
  <2>5. exec'[t].job # NoJob /\ exec'[t].pc # "idle"
    BY <2>4 DEF TypeInv, ExecutionOK, Busy
  <2>6. \A u \in Slots \ {t} : exec'[u] = exec[u]
    BY <2>3
  <2>7. ExecutionOK'
    BY <2>5, <2>6 DEF TypeInv, ExecutionOK
  <2> QED BY <2>3, <2>4, <2>7 DEF MovesOn
<1>4. ASSUME Leave(t) PROVE MovesOn(t)
  <2>1. Idle \in Execution /\ Idle.job = NoJob /\ Idle.pc = "idle"
    BY ImportJobsAssumption DEF Idle, Execution, WorkingStatuses
  <2> QED BY <1>1, <1>4, <2>1 DEF Leave, MovesOn, TypeInv, ExecutionOK
<1> QED BY <1>2, <1>3, <1>4

-----------------------------------------------------------------------------
(* Type correctness *)

\* The initial rows, batches and slots have their types.
LEMMA InitType == Init => TypeInv
<1> SUFFICES ASSUME Init PROVE TypeInv
  OBVIOUS
<1>1. Absent \in Row
  BY ImportJobsAssumption DEF Absent, Row, Statuses
<1>2. Idle \in Execution /\ Idle.job = NoJob /\ Idle.pc = "idle"
  BY ImportJobsAssumption DEF Idle, Execution, WorkingStatuses
<1> QED BY <1>1, <1>2 DEF Init, TypeInv, TypeOK, ExecutionOK

\* The API process and the clocks.
LEMMA RequestType ==
    ASSUME TypeInv, NEW j \in Jobs,
           \/ Submit(j) \/ Insert(j) \/ Cancel(j) \/ RequestAudit(j) \/ RequestDies(j)
           \/ LeaseExpires(j) \/ BackoffElapses(j)
           \/ \E d \in {"approved", "rejected"} : Decide(j, d)
    PROVE  TypeInv'
<1>0. job[j] \in Row
  BY DEF TypeInv, TypeOK
<1>1. CASE Submit(j)
  BY <1>1 DEF Submit, TypeInv, TypeOK, ExecutionOK
<1>2. CASE Insert(j)
  <2>1. [job[j] EXCEPT !.status = "submitted"] \in Row
    BY <1>0 DEF Row, Statuses
  <2>2. job' \in [Jobs -> Row]
    BY <1>2, <2>1 DEF Insert, TypeInv, TypeOK
  <2>3. owed' \in [Jobs -> SUBSET AuditActions]
    BY <1>2 DEF Insert, TypeInv, TypeOK, AuditActions
  <2> QED BY <1>2, <2>2, <2>3 DEF Insert, TypeInv, TypeOK, ExecutionOK
<1>3. CASE Cancel(j)
  <2>1. Released(job[j], "cancelled") \in Row
    BY <1>0, RowLemma DEF Statuses, TerminalStatuses
  <2>2. job' \in [Jobs -> Row]
    BY <1>3, <2>1 DEF Cancel, TypeInv, TypeOK
  <2>3. owed' \in [Jobs -> SUBSET AuditActions]
    BY <1>3 DEF Cancel, TypeInv, TypeOK, AuditActions
  <2> QED BY <1>3, <2>2, <2>3 DEF Cancel, TypeInv, TypeOK, ExecutionOK
<1>4. CASE RequestAudit(j)
  <2>1. PICK a \in AuditActions : Audited(j, a) /\ owed' = [owed EXCEPT ![j] = @ \ {a}]
    BY <1>4 DEF RequestAudit, TypeInv, TypeOK
  <2>2. audit' \in [Jobs -> [AuditActions -> Nat]]
    BY <2>1, AuditLemma DEF TypeInv
  <2>3. owed' \in [Jobs -> SUBSET AuditActions]
    BY <2>1 DEF TypeInv, TypeOK
  <2> QED BY <1>4, <2>2, <2>3 DEF RequestAudit, TypeInv, TypeOK, ExecutionOK
<1>5. CASE RequestDies(j)
  BY <1>5 DEF RequestDies, TypeInv, TypeOK, ExecutionOK
<1>6. CASE LeaseExpires(j) \/ BackoffElapses(j)
  <2>1. [job[j] EXCEPT !.live = FALSE] \in Row /\ [job[j] EXCEPT !.due = TRUE] \in Row
    BY <1>0 DEF Row
  <2>2. job' \in [Jobs -> Row]
    BY <1>6, <2>1 DEF LeaseExpires, BackoffElapses, TypeInv, TypeOK
  <2> QED BY <1>6, <2>2 DEF LeaseExpires, BackoffElapses, TypeInv, TypeOK, ExecutionOK
<1>7. ASSUME NEW d \in {"approved", "rejected"}, Decide(j, d) PROVE TypeInv'
  <2>1. [job[j] EXCEPT !.status = d] \in Row
    BY <1>0 DEF Row, Statuses, TerminalStatuses
  <2>2. job' \in [Jobs -> Row]
    BY <1>7, <2>1 DEF Decide, TypeInv, TypeOK
  <2>3. owed' \in [Jobs -> SUBSET AuditActions]
    BY <1>7 DEF Decide, TypeInv, TypeOK, AuditActions
  <2> QED BY <1>7, <2>2, <2>3 DEF Decide, TypeInv, TypeOK, ExecutionOK
<1> QED BY <1>1, <1>2, <1>3, <1>4, <1>5, <1>6, <1>7

\* A failure and its event.
LEMMA FailureType ==
    ASSUME TypeInv, NEW j \in Jobs, EndInFailure(j)
    PROVE  job' \in [Jobs -> Row] /\ audit' \in [Jobs -> [AuditActions -> Nat]]
<1>1. /\ FailureOf(job[j].status) \in Statuses /\ FailureOf(job[j].status) \in AuditActions
  BY DEF FailureOf, Statuses, TerminalStatuses, AuditActions
<1>2. Released(job[j], FailureOf(job[j].status)) \in Row
  BY <1>1, RowLemma DEF TypeInv, TypeOK
<1> QED BY <1>1, <1>2, AuditLemma DEF EndInFailure, TypeInv, TypeOK

\* What a claim does to the row and to the slot.
Claimed(t, j) ==
    LET s == CASE job[j].status = "submitted" -> "validating"
               [] job[j].status = "approved" -> "publishing"
               [] OTHER -> job[j].status
    IN  /\ job' \in [Jobs -> Row] /\ \A k \in Jobs \ {j} : job'[k] = job[k]
        /\ s \in WorkingStatuses /\ job'[j].status = s
        /\ job'[j].owner = WorkerOf[t] /\ job'[j].live
        /\ job'[j].attempt = job[j].attempt + 1
        /\ exec' \in [Slots -> Execution] /\ \A u \in Slots \ {t} : exec'[u] = exec[u]
        /\ exec'[t].job = j /\ exec'[t].pc \in {"validate", "announce"}
        /\ exec'[t].attempt = job'[j].attempt

\* claim_next_job hands the row to the slot that claims it.
LEMMA ClaimLemma ==
    ASSUME TypeInv, NEW t \in Slots, NEW j \in Jobs, Claim(t, j)
    PROVE  Claimed(t, j)
<1> DEFINE n == job[j].attempt + 1
           s == CASE job[j].status = "submitted" -> "validating"
                  [] job[j].status = "approved" -> "publishing"
                  [] OTHER -> job[j].status
           x == [pc |-> IF s = "validating" THEN "validate" ELSE "announce", job |-> j,
                 phase |-> s, attempt |-> n, seen |-> {}, retryable |-> FALSE]
           y == [job[j] EXCEPT !.status = s, !.attempt = n, !.live = TRUE,
                               !.owner = WorkerOf[t]]
<1>0. job \in [Jobs -> Row] /\ exec \in [Slots -> Execution] /\ job[j] \in Row
  BY DEF TypeInv, TypeOK
<1>1. n \in 0..MaxAttempts
  BY <1>0, ImportJobsAssumption DEF Claim, AttemptsLeft, Row
<1>2. s \in WorkingStatuses /\ s \in Statuses
  BY DEF Claim, Claimable, ClaimableStatuses, Working, WorkingStatuses, Statuses
<1>3. /\ y \in Row /\ y.status = s /\ y.owner = WorkerOf[t] /\ y.live /\ y.attempt = n
  BY <1>0, <1>1, <1>2, ImportJobsAssumption DEF Row
<1>4. x \in Execution /\ x.job = j /\ x.pc \in {"validate", "announce"} /\ x.attempt = n
  BY <1>1, <1>2 DEF Execution
<1>5. job' = [job EXCEPT ![j] = y]
  BY DEF Claim
<1>6. exec' = [exec EXCEPT ![t] = x]
  BY DEF Claim
<1> HIDE DEF n, s, x, y
<1>7. job'[j] = y /\ job' \in [Jobs -> Row] /\ \A k \in Jobs \ {j} : job'[k] = job[k]
  BY <1>0, <1>3, <1>5
<1>8. exec'[t] = x /\ exec' \in [Slots -> Execution] /\ \A u \in Slots \ {t} : exec'[u] = exec[u]
  BY <1>0, <1>4, <1>6
<1> QED BY <1>2, <1>3, <1>4, <1>7, <1>8 DEF Claimed, n, s

\* The two ends of claim_next_job keep the types.
LEMMA PollType ==
    ASSUME TypeInv, NEW t \in Slots, NEW j \in Jobs, ClaimExhausted(t, j) \/ Claim(t, j)
    PROVE  TypeInv'
<1>1. CASE ClaimExhausted(t, j)
  <2>1. job' \in [Jobs -> Row] /\ audit' \in [Jobs -> [AuditActions -> Nat]]
    BY <1>1, FailureType DEF ClaimExhausted
  <2> QED BY <1>1, <2>1 DEF ClaimExhausted, TypeInv, TypeOK, ExecutionOK
<1>2. CASE Claim(t, j)
  <2>1. Claimed(t, j)
    BY <1>2, ClaimLemma
  <2>2. ExecutionOK'
    BY <2>1, ImportJobsAssumption DEF Claimed, TypeInv, ExecutionOK
  <2> QED BY <1>2, <2>1, <2>2 DEF Claim, Claimed, TypeInv, TypeOK
<1> QED BY <1>1, <1>2

\* The slot moves on, or opens a publication.
LEMMA SlotMoves ==
    ASSUME TypeInv, NEW t \in Slots,
           \/ CompleteValidation(t) \/ AuditOutcome(t) \/ Announce(t) \/ Publish(t)
           \/ FailJob(t) \/ ReportFailure(t) \/ Fault(t) \/ RejectPayload(t) \/ Escape(t)
    PROVE  Busy(t) /\ MovesOn(t)
<1>0. Busy(t)
  BY DEF CompleteValidation, AuditOutcome, Announce, Publish, FailJob, ReportFailure,
         Fault, RejectPayload, Escape, At, Busy
<1>1. \/ \E pc \in {"outcome", "open", "report"} : Goto(t, pc)
      \/ \E b \in BOOLEAN : Raise(t, b)
      \/ Leave(t)
  <2>1. CASE CompleteValidation(t) \/ Publish(t)
    BY <2>1 DEF CompleteValidation, Publish
  <2>2. CASE AuditOutcome(t) \/ Announce(t) \/ ReportFailure(t) \/ Escape(t)
    BY <2>2 DEF AuditOutcome, Announce, ReportFailure, Escape
  <2>3. CASE Fault(t) \/ RejectPayload(t)
    BY <2>3 DEF Fault, RejectPayload
  <2>4. CASE FailJob(t)
    BY <2>4 DEF FailJob
  <2> QED BY <2>1, <2>2, <2>3, <2>4
<1> QED BY <1>0, <1>1, SlotLemma

\* What opening a publication does to the slot.
Opened(t) == /\ exec' \in [Slots -> Execution]
             /\ \A u \in Slots \ {t} : exec'[u] = exec[u]
             /\ exec'[t].job = exec[t].job /\ exec'[t].attempt = exec[t].attempt
             /\ exec'[t].pc = "publish" /\ exec'[t].seen = PublishedBeside(exec[t].job)
             /\ Unlocked(exec[t].job) /\ Leased(t)
             /\ job[exec[t].job].status = "publishing"

\* Opening locks the row, or finds the lease gone and leaves.
LEMMA OpenLemma ==
    ASSUME TypeInv, NEW t \in Slots, OpenPublication(t)
    PROVE  Busy(t) /\ (MovesOn(t) \/ Opened(t))
<1>0. Busy(t) /\ exec \in [Slots -> Execution] /\ exec[t] \in Execution
  BY DEF OpenPublication, At, Busy, TypeInv, TypeOK
<1>1. CASE Leave(t)
  BY <1>0, <1>1, SlotLemma
<1>2. CASE ~Leave(t)
  <2> DEFINE x == [exec[t] EXCEPT !.pc = "publish", !.seen = PublishedBeside(exec[t].job)]
  <2>1. exec' = [exec EXCEPT ![t] = x]
    BY <1>2, <1>0 DEF OpenPublication
  <2>2. /\ x \in Execution /\ x.job = exec[t].job /\ x.attempt = exec[t].attempt
        /\ x.pc = "publish" /\ x.seen = PublishedBeside(exec[t].job)
    BY <1>0 DEF Execution, PublishedBeside
  <2> HIDE DEF x
  <2>3. /\ exec'[t] = x /\ exec' \in [Slots -> Execution]
        /\ \A u \in Slots \ {t} : exec'[u] = exec[u]
    BY <1>0, <2>1, <2>2
  <2>4. /\ Unlocked(exec[t].job) /\ Leased(t)
        /\ job[exec[t].job].status = "publishing"
    BY <1>2 DEF OpenPublication
  <2> QED BY <1>0, <2>2, <2>3, <2>4 DEF Opened
<1> QED BY <1>1, <1>2

\* So does every step of a slot.
LEMMA SlotType ==
    ASSUME TypeInv, NEW t \in Slots,
           Step(t) \/ Fault(t) \/ RejectPayload(t) \/ Escape(t)
    PROVE  TypeInv'
<1>1. CASE OpenPublication(t)
  <2>1. exec' \in [Slots -> Execution] /\ ExecutionOK'
    BY <1>1, OpenLemma, JobLemma, ImportJobsAssumption
       DEF MovesOn, Opened, TypeInv, ExecutionOK, Busy
  <2> QED BY <1>1, <2>1 DEF OpenPublication, TypeInv, TypeOK
<1>2. CASE ~OpenPublication(t)
  <2>0. Busy(t) /\ MovesOn(t)
    BY <1>2, SlotMoves DEF Step
  <2>1. exec' \in [Slots -> Execution] /\ ExecutionOK'
    BY <2>0 DEF MovesOn
  <2>2. PICK j \in Jobs : j = exec[t].job /\ exec[t].phase \in WorkingStatuses
    BY <2>0, JobLemma
  <2>3. job[j] \in Row
    BY DEF TypeInv, TypeOK
  <2>4. CASE CompleteValidation(t)
    <3>1. /\ Released(job[j], "validation_failed") \in Row
          /\ Released(job[j], "approval_pending") \in Row
      BY <2>3, RowLemma DEF Statuses, TerminalStatuses
    <3>2. job' \in [Jobs -> Row]
      BY <2>2, <2>4, <3>1 DEF CompleteValidation, TypeInv, TypeOK
    <3>3. batch' \in [Jobs -> {"none", "failed", "published", "superseded"}]
      BY <2>2, <2>4 DEF CompleteValidation, TypeInv, TypeOK
    <3> QED BY <2>1, <2>4, <3>2, <3>3 DEF CompleteValidation, TypeInv, TypeOK
  <2>5. CASE Publish(t)
    <3>1. Released(job[j], "published") \in Row
      BY <2>3, RowLemma DEF Statuses, TerminalStatuses
    <3>2. job' \in [Jobs -> Row]
      BY <2>2, <2>5, <3>1 DEF Publish, TypeInv, TypeOK
    <3>3. batch' \in [Jobs -> {"none", "failed", "published", "superseded"}]
      BY <2>2, <2>5 DEF Publish, BatchesAfter, TypeInv, TypeOK
    <3>4. audit' \in [Jobs -> [AuditActions -> Nat]]
      <4>1. CASE audit' = audit
        BY <4>1 DEF TypeInv, TypeOK
      <4>2. CASE Audited(j, "published")
        BY <4>2, AuditLemma DEF TypeInv, AuditActions
      <4> QED BY <2>2, <2>5, <4>1, <4>2 DEF Publish
    <3> QED BY <2>1, <2>5, <3>2, <3>3, <3>4 DEF Publish, TypeInv, TypeOK
  <2>6. CASE AuditOutcome(t) \/ Announce(t) \/ ReportFailure(t)
    <3>1. \E a \in AuditActions : Audited(j, a)
      BY <2>2, <2>6 DEF AuditOutcome, Announce, ReportFailure, FailureOf, AuditActions
    <3>2. audit' \in [Jobs -> [AuditActions -> Nat]]
      BY <3>1, AuditLemma DEF TypeInv
    <3> QED BY <2>1, <2>6, <3>2 DEF AuditOutcome, Announce, ReportFailure, TypeInv, TypeOK
  <2>7. CASE FailJob(t)
    <3>1. job' \in [Jobs -> Row] /\ audit' \in [Jobs -> [AuditActions -> Nat]]
      <4>1. CASE UNCHANGED <<job, audit>>
        BY <4>1 DEF TypeInv, TypeOK
      <4>2. CASE EndInFailure(j)
        BY <4>2, FailureType
      <4>3. CASE /\ job' = [job EXCEPT ![j] = [Released(@, job[j].status) EXCEPT !.due = FALSE]]
                 /\ Audited(j, RetryOf(job[j].status))
        <5>1. [Released(job[j], job[j].status) EXCEPT !.due = FALSE] \in Row
          BY <2>3 DEF Row, Released
        <5>2. audit' \in [Jobs -> [AuditActions -> Nat]]
          BY <4>3, AuditLemma DEF TypeInv, RetryOf, AuditActions
        <5> QED BY <4>3, <5>1, <5>2 DEF TypeInv, TypeOK
      <4> QED BY <2>2, <2>7, <4>1, <4>2, <4>3 DEF FailJob
    <3> QED BY <2>1, <2>7, <3>1 DEF FailJob, TypeInv, TypeOK
  <2>8. CASE Fault(t) \/ RejectPayload(t) \/ Escape(t)
    BY <2>1, <2>8 DEF Fault, RejectPayload, Escape, TypeInv, TypeOK
  <2> QED BY <1>2, <2>4, <2>5, <2>6, <2>7, <2>8 DEF Step
<1> QED BY <1>1, <1>2

\* And so do processes that drain or die.
LEMMA WorkerType ==
    ASSUME TypeInv, NEW w \in Workers, Drain(w) \/ Crash(w)
    PROVE  TypeInv'
<1>1. Idle \in Execution /\ Idle.job = NoJob /\ Idle.pc = "idle"
  BY ImportJobsAssumption DEF Idle, Execution, WorkingStatuses
<1>2. exec' \in [Slots -> Execution] /\ \A t \in Slots : exec'[t] = exec[t] \/ exec'[t] = Idle
  BY <1>1 DEF Drain, Crash, TypeInv, TypeOK
<1>2a. ExecutionOK'
  BY <1>1, <1>2 DEF TypeInv, ExecutionOK
<1>3. worker' \in [Workers -> {"active", "draining", "gone"}]
  BY DEF Drain, Crash, TypeInv, TypeOK
<1> QED BY <1>2, <1>2a, <1>3 DEF Drain, Crash, TypeInv, TypeOK

\* No step breaks a type.
LEMMA NextType == TypeInv /\ [Next]_vars => TypeInv'
<1> SUFFICES ASSUME TypeInv, [Next]_vars PROVE TypeInv'
  OBVIOUS
<1>1. CASE UNCHANGED vars
  BY <1>1 DEF vars, TypeInv, TypeOK, ExecutionOK
<1> QED BY <1>1, RequestType, PollType, SlotType, WorkerType DEF Next, Poll

\* Rows, batches, events and executions keep their types.
THEOREM TypeCorrect == Spec => []TypeOK
<1>1. TypeInv => TypeOK
  BY DEF TypeInv
<1> QED BY <1>1, InitType, NextType, PTL DEF Spec

-----------------------------------------------------------------------------
(* The inductive invariant *)

\* The API appends events of its own only.
OwedOK == \A j \in Jobs : owed[j] \subseteq {"submitted", "approved", "rejected", "cancelled"}

\* The row an open publication keeps locked is the one it was opened with.
LockOK == \A t \in Slots : At(t, "publish") =>
    /\ job[exec[t].job].status = "publishing"
    /\ job[exec[t].job].owner = WorkerOf[t]
    /\ \A u \in Slots : At(u, "publish") /\ exec[u].job = exec[t].job => u = t

\* The batches it retires are its tenant's; others may have retired them since.
SeenOK == \A t \in Slots : At(t, "publish") => \A k \in exec[t].seen :
    SameTenant(exec[t].job, k) /\ batch[k] \in {"published", "superseded"}

\* A tenant that ever published has exactly one current snapshot.
CatalogOK == /\ \A j, k \in Jobs : /\ SameTenant(j, k)
                                   /\ batch[j] = "published" /\ batch[k] = "published"
                                   => j = k
             /\ \A j \in Jobs : batch[j] \in {"published", "superseded"} =>
                  \E k \in Jobs : SameTenant(j, k) /\ batch[k] = "published"

StateInv == OwedOK /\ LeaseDiscipline /\ PublicationTold /\ LockOK /\ SeenOK /\ CatalogOK
SafeInv == TypeInv /\ StateInv

\* A step opens no publication, and tells of none.
OpensNothing == \A t \in Slots : exec'[t].pc = "publish" => exec'[t] = exec[t]
TellsNothing == \A j \in Jobs :
    /\ audit'[j]["published"] = audit[j]["published"]
    /\ audit'[j]["publish_failed"] >= audit[j]["publish_failed"]

\* A row that changed at most by time passing.
SameRow(j) == /\ job'[j].status = job[j].status
              /\ job'[j].owner = job[j].owner
              /\ job'[j].attempt = job[j].attempt
              /\ job'[j].live => job[j].live

\* A step that changes no row, but for time passing.
LEMMA QuietStep ==
    ASSUME TypeInv, TypeInv', StateInv, OwedOK', OpensNothing, TellsNothing, UNCHANGED batch,
           \A j \in Jobs : SameRow(j)
    PROVE  StateInv'
<1>1. LeaseDiscipline'
  <2> SUFFICES ASSUME NEW j \in Jobs
               PROVE  /\ job'[j].owner # NoWorker => Working(j)'
                      /\ job'[j].live => job'[j].owner # NoWorker
                      /\ Working(j)' /\ job'[j].owner = NoWorker => AttemptsLeft(j)'
    BY DEF LeaseDiscipline
  <2>1. (Working(j)' <=> Working(j)) /\ (AttemptsLeft(j)' <=> AttemptsLeft(j))
    BY DEF SameRow, Working, AttemptsLeft
  <2> QED BY <2>1 DEF SameRow, StateInv, LeaseDiscipline
<1>2. PublicationTold'
  <2> SUFFICES ASSUME NEW j \in Jobs
               PROVE /\ job'[j].status = "published" <=> batch'[j] \in {"published", "superseded"}
                     /\ audit'[j]["published"] = IF job'[j].status = "published" THEN 1 ELSE 0
                     /\ job'[j].status = "publish_failed" => audit'[j]["publish_failed"] > 0
    BY DEF PublicationTold
  <2>1. audit[j]["publish_failed"] \in Nat /\ audit'[j]["publish_failed"] \in Nat
    BY DEF TypeInv, TypeOK, AuditActions
  <2>2. /\ audit'[j]["published"] = audit[j]["published"]
        /\ audit'[j]["publish_failed"] >= audit[j]["publish_failed"]
        /\ job'[j].status = job[j].status /\ batch'[j] = batch[j]
    BY DEF TellsNothing, SameRow
  <2>3. /\ job[j].status = "published" <=> batch[j] \in {"published", "superseded"}
        /\ audit[j]["published"] = IF job[j].status = "published" THEN 1 ELSE 0
        /\ job[j].status = "publish_failed" => audit[j]["publish_failed"] > 0
    BY DEF StateInv, PublicationTold
  <2> QED BY <2>1, <2>2, <2>3
<1>3. LockOK'
  <2> SUFFICES ASSUME NEW t \in Slots, exec'[t].pc = "publish"
               PROVE  /\ job'[exec'[t].job].status = "publishing"
                      /\ job'[exec'[t].job].owner = WorkerOf[t]
                      /\ \A u \in Slots : exec'[u].pc = "publish" /\ exec'[u].job = exec'[t].job
                                        => u = t
    BY DEF LockOK, At
  <2>1. exec'[t] = exec[t] /\ Busy(t)
    BY DEF OpensNothing, Busy
  <2>2. PICK j \in Jobs : j = exec[t].job
    BY <2>1, JobLemma
  <2>3. job[j].status = "publishing" /\ job[j].owner = WorkerOf[t]
    BY <2>1, <2>2 DEF StateInv, LockOK, At
  <2>4. ASSUME NEW u \in Slots, exec'[u].pc = "publish", exec'[u].job = exec'[t].job
        PROVE  u = t
    BY <2>1, <2>4 DEF OpensNothing, StateInv, LockOK, At
  <2> QED BY <2>1, <2>2, <2>3, <2>4 DEF SameRow
<1>4. SeenOK'
  BY DEF StateInv, SeenOK, OpensNothing, At, SameTenant
<1>5. CatalogOK'
  BY DEF StateInv, CatalogOK, SameTenant
<1> QED BY <1>1, <1>2, <1>3, <1>4, <1>5 DEF StateInv

\* A step that changes the row of one job, not locked and not published, and
\* may write its error batch.
LEMMA RowStep ==
    ASSUME TypeInv, TypeInv', StateInv, OwedOK', OpensNothing, TellsNothing, NEW j \in Jobs,
           Unlocked(j), job[j].status # "published",
           \A k \in Jobs \ {j} : job'[k] = job[k] /\ batch'[k] = batch[k],
           batch'[j] \notin {"published", "superseded"},
           job'[j].status # "published",
           job'[j].status = "publish_failed" => audit'[j]["publish_failed"] > 0,
           job'[j].owner # NoWorker => Working(j)',
           job'[j].live => job'[j].owner # NoWorker,
           Working(j)' /\ job'[j].owner = NoWorker => AttemptsLeft(j)'
    PROVE  StateInv'
<1>0. batch[j] \notin {"published", "superseded"}
  BY DEF StateInv, PublicationTold
<1>1. LeaseDiscipline'
  BY DEF StateInv, LeaseDiscipline, Working, AttemptsLeft
<1>2. PublicationTold'
  <2> SUFFICES ASSUME NEW k \in Jobs
               PROVE /\ job'[k].status = "published" <=> batch'[k] \in {"published", "superseded"}
                     /\ audit'[k]["published"] = IF job'[k].status = "published" THEN 1 ELSE 0
                     /\ job'[k].status = "publish_failed" => audit'[k]["publish_failed"] > 0
    BY DEF PublicationTold
  <2>1. audit[k]["publish_failed"] \in Nat /\ audit'[k]["publish_failed"] \in Nat
    BY DEF TypeInv, TypeOK, AuditActions
  <2>2. CASE k = j
    BY <2>2 DEF StateInv, PublicationTold, TellsNothing
  <2>3. CASE k # j
    BY <2>1, <2>3 DEF StateInv, PublicationTold, TellsNothing
  <2> QED BY <2>2, <2>3
<1>3. LockOK'
  <2> SUFFICES ASSUME NEW t \in Slots, exec'[t].pc = "publish"
               PROVE  /\ job'[exec'[t].job].status = "publishing"
                      /\ job'[exec'[t].job].owner = WorkerOf[t]
                      /\ \A u \in Slots : exec'[u].pc = "publish" /\ exec'[u].job = exec'[t].job
                                        => u = t
    BY DEF LockOK, At
  <2>1. exec'[t] = exec[t] /\ Busy(t)
    BY DEF OpensNothing, Busy
  <2>2. PICK k \in Jobs : k = exec[t].job
    BY <2>1, JobLemma
  <2>3. k # j
    BY <2>1, <2>2 DEF Unlocked, At
  <2> QED BY <2>1, <2>2, <2>3 DEF OpensNothing, StateInv, LockOK, At
<1>4. SeenOK'
  <2> SUFFICES ASSUME NEW t \in Slots, exec'[t].pc = "publish", NEW k \in exec'[t].seen
               PROVE  SameTenant(exec'[t].job, k) /\ batch'[k] \in {"published", "superseded"}
    BY DEF SeenOK, At, SameTenant
  <2>1. exec'[t] = exec[t] /\ exec[t] \in Execution
    BY DEF OpensNothing, TypeInv, TypeOK
  <2>2. k \in Jobs
    BY <2>1 DEF Execution
  <2>3. SameTenant(exec[t].job, k) /\ batch[k] \in {"published", "superseded"}
    BY <2>1 DEF StateInv, SeenOK, At
  <2> QED BY <1>0, <2>1, <2>2, <2>3
<1>5. CatalogOK'
  <2>1. \A k \in Jobs : /\ batch'[k] = "published" <=> batch[k] = "published"
                        /\ batch'[k] = "superseded" <=> batch[k] = "superseded"
    BY <1>0
  <2> QED BY <2>1 DEF StateInv, CatalogOK, SameTenant
<1> QED BY <1>1, <1>2, <1>3, <1>4, <1>5 DEF StateInv

\* Only a row that is being published is locked.
LEMMA LockedLemma ==
    ASSUME StateInv, NEW j \in Jobs, job[j].status # "publishing"
    PROVE  Unlocked(j)
BY DEF StateInv, LockOK, Unlocked

-----------------------------------------------------------------------------
(* Every step keeps the invariant *)

\* The invariant holds before the first submission.
LEMMA InitState == Init => StateInv
<1> SUFFICES ASSUME Init PROVE StateInv
  OBVIOUS
<1>1. OwedOK /\ CatalogOK
  BY DEF Init, OwedOK, CatalogOK
<1>2. LeaseDiscipline /\ PublicationTold
  BY DEF Init, LeaseDiscipline, PublicationTold, Absent, Working, WorkingStatuses, AuditActions
<1>3. LockOK /\ SeenOK
  BY DEF Init, LockOK, SeenOK, At, Idle
<1> QED BY <1>1, <1>2, <1>3 DEF StateInv

\* Events other than the two of a publication tell nothing of it.
LEMMA OtherEvent ==
    ASSUME TypeOK, NEW j \in Jobs, NEW a \in AuditActions \ {"published"}, Audited(j, a)
    PROVE  TellsNothing
<1>1. {"published", "publish_failed"} \subseteq AuditActions
  BY DEF AuditActions
<1>2. \A k \in Jobs : audit[k]["published"] \in Nat /\ audit[k]["publish_failed"] \in Nat
  BY <1>1 DEF TypeOK
<1>3. \A k \in Jobs, b \in AuditActions :
         audit'[k][b] = IF k = j /\ b = a THEN audit[k][b] + 1 ELSE audit[k][b]
  BY AuditLemma
<1> QED BY <1>1, <1>2, <1>3 DEF TellsNothing

\* A step without event tells nothing.
LEMMA NoEvent == ASSUME TypeOK, UNCHANGED audit PROVE TellsNothing
<1>1. {"published", "publish_failed"} \subseteq AuditActions
  BY DEF AuditActions
<1>2. \A k \in Jobs : audit[k]["published"] \in Nat /\ audit[k]["publish_failed"] \in Nat
  BY <1>1 DEF TypeOK
<1> QED BY <1>2 DEF TellsNothing

\* Requests and clocks keep the invariant: they reach no locked row.
LEMMA RequestState ==
    ASSUME SafeInv, NEW j \in Jobs,
           \/ Submit(j) \/ Insert(j) \/ Cancel(j) \/ RequestAudit(j) \/ RequestDies(j)
           \/ LeaseExpires(j) \/ BackoffElapses(j)
           \/ \E d \in {"approved", "rejected"} : Decide(j, d)
    PROVE  StateInv'
<1>0. TypeInv /\ StateInv /\ TypeInv' /\ TypeOK /\ job \in [Jobs -> Row] /\ job[j] \in Row
  BY RequestType DEF SafeInv, TypeInv, TypeOK
<1>1. UNCHANGED exec /\ OpensNothing
  BY DEF Submit, Insert, Cancel, RequestAudit, RequestDies, LeaseExpires, BackoffElapses,
         Decide, OpensNothing
<1>2. OwedOK'
  <2>1. CASE owed' = owed
    BY <2>1, <1>0 DEF StateInv, OwedOK
  <2>2. ASSUME NEW a, a \in {"submitted", "approved", "rejected", "cancelled"},
               owed' = [owed EXCEPT ![j] = @ \cup {a}]
        PROVE  OwedOK'
    BY <2>2, <1>0 DEF StateInv, OwedOK, TypeOK
  <2>3. CASE Insert(j) \/ Cancel(j)
    BY <2>1, <2>2, <2>3 DEF Insert, Cancel
  <2>4. CASE \E d \in {"approved", "rejected"} : Decide(j, d)
    BY <2>2, <2>4 DEF Decide
  <2>5. CASE RequestAudit(j) \/ RequestDies(j)
    BY <2>5, <1>0 DEF StateInv, OwedOK, RequestAudit, RequestDies, TypeOK
  <2> QED BY <2>1, <2>3, <2>4, <2>5 DEF Submit, LeaseExpires, BackoffElapses
<1>3. TellsNothing
  <2>1. CASE RequestAudit(j)
    <3>1. PICK a \in owed[j] : Audited(j, a)
      BY <2>1 DEF RequestAudit
    <3>2. a \in AuditActions \ {"published"}
      BY <1>0, <3>1 DEF StateInv, OwedOK, AuditActions
    <3> QED BY <1>0, <3>1, <3>2, OtherEvent
  <2> QED BY <2>1, <1>0, NoEvent DEF Submit, Insert, Cancel, RequestDies, LeaseExpires,
                                     BackoffElapses, Decide
<1>4. CASE Submit(j) \/ RequestAudit(j) \/ RequestDies(j)
  <2>1. UNCHANGED batch /\ \A k \in Jobs : SameRow(k)
    BY <1>4 DEF Submit, RequestAudit, RequestDies, SameRow
  <2> QED BY <2>1, <1>0, <1>1, <1>2, <1>3, QuietStep
<1>5. CASE LeaseExpires(j) \/ BackoffElapses(j)
  <2>1. UNCHANGED batch /\ \A k \in Jobs \ {j} : job'[k] = job[k]
    BY <1>5, <1>0 DEF LeaseExpires, BackoffElapses
  <2>2. SameRow(j)
    BY <1>5, <1>0 DEF LeaseExpires, BackoffElapses, SameRow, Row
  <2>3. \A k \in Jobs : SameRow(k)
    BY <2>1, <2>2 DEF SameRow
  <2> QED BY <2>1, <2>3, <1>0, <1>1, <1>2, <1>3, QuietStep
<1>6. ASSUME NEW s \in {"submitted", "approved", "rejected", "cancelled"},
             job'[j].status = s, job'[j].owner = NoWorker, ~job'[j].live,
             \A k \in Jobs \ {j} : job'[k] = job[k], UNCHANGED batch,
             job[j].status \in {"absent"} \cup CancellableStatuses
      PROVE  StateInv'
  <2>1. job[j].status \notin {"published", "publishing"}
    BY <1>6 DEF CancellableStatuses
  <2>2. Unlocked(j) /\ batch[j] \notin {"published", "superseded"}
    BY <2>1, <1>0, LockedLemma DEF StateInv, PublicationTold
  <2>3. ~Working(j)'
    BY <1>6 DEF Working, WorkingStatuses
  <2> QED BY <1>0, <1>1, <1>2, <1>3, <1>6, <2>1, <2>2, <2>3, RowStep
<1>7. CASE Insert(j)
  <2>1. CASE UNCHANGED job
    <3>1. UNCHANGED batch /\ \A k \in Jobs : SameRow(k)
      BY <1>7, <2>1 DEF Insert, SameRow
    <3> QED BY <3>1, <1>0, <1>1, <1>2, <1>3, QuietStep
  <2>2. CASE ~UNCHANGED job
    <3>1. job' = [job EXCEPT ![j].status = "submitted"] /\ UNCHANGED batch
      BY <1>7, <2>2 DEF Insert
    <3>2. job[j].status = "absent"
      BY <1>7, <2>2 DEF Insert, Exists, SameKey, SameTenant
    <3>3. job[j].owner = NoWorker /\ ~job[j].live
      BY <3>2, <1>0 DEF StateInv, LeaseDiscipline, Working, WorkingStatuses
    <3>4. /\ job'[j].status = "submitted" /\ job'[j].owner = NoWorker /\ ~job'[j].live
          /\ \A k \in Jobs \ {j} : job'[k] = job[k]
      BY <1>0, <3>1, <3>3 DEF Row
    <3> QED BY <1>6, <3>1, <3>2, <3>4
  <2> QED BY <2>1, <2>2
<1>8. CASE Cancel(j)
  <2>1. /\ job'[j] = Released(job[j], "cancelled") /\ \A k \in Jobs \ {j} : job'[k] = job[k]
        /\ UNCHANGED batch /\ job[j].status \in CancellableStatuses
    BY <1>8, <1>0 DEF Cancel
  <2>2. /\ job'[j].status = "cancelled" /\ job'[j].owner = NoWorker /\ ~job'[j].live
    BY <2>1, <1>0, RowLemma DEF Statuses, TerminalStatuses
  <2> QED BY <2>1, <2>2, <1>6
<1>9. ASSUME NEW d \in {"approved", "rejected"}, Decide(j, d) PROVE StateInv'
  <2>1. job[j].owner = NoWorker /\ ~job[j].live /\ job[j].status \in CancellableStatuses
    BY <1>9, <1>0 DEF Decide, StateInv, LeaseDiscipline, Working, WorkingStatuses,
                      CancellableStatuses
  <2>2. /\ job'[j].status = d /\ job'[j].owner = NoWorker /\ ~job'[j].live
        /\ \A k \in Jobs \ {j} : job'[k] = job[k]
        /\ UNCHANGED batch
    BY <1>9, <1>0, <2>1 DEF Decide, Row
  <2> QED BY <2>1, <2>2, <1>6
<1> QED BY <1>4, <1>5, <1>7, <1>8, <1>9

\* A failure: a released row, and its event.
LEMMA FailureState ==
    ASSUME SafeInv, TypeInv', NEW j \in Jobs, Working(j), Unlocked(j), EndInFailure(j),
           OpensNothing, UNCHANGED <<owed, batch>>
    PROVE  StateInv'
<1> DEFINE s == FailureOf(job[j].status)
<1>0. TypeInv /\ StateInv /\ TypeOK /\ job \in [Jobs -> Row] /\ job[j] \in Row
  BY DEF SafeInv, TypeInv, TypeOK
<1>1. /\ s \in {"validation_failed", "publish_failed"}
      /\ s \in Statuses /\ s \in AuditActions \ {"published"}
  BY DEF FailureOf, Statuses, TerminalStatuses, AuditActions
<1>2. /\ job'[j] = Released(job[j], s) /\ \A k \in Jobs \ {j} : job'[k] = job[k]
      /\ Audited(j, s)
  BY <1>0 DEF EndInFailure
<1> HIDE DEF s
<1>3. job'[j].status = s /\ job'[j].owner = NoWorker /\ ~job'[j].live
  BY <1>0, <1>1, <1>2, RowLemma
<1>4. TellsNothing
  BY <1>0, <1>1, <1>2, OtherEvent
<1>5. s = "publish_failed" => audit'[j]["publish_failed"] > 0
  <2>1. audit[j]["publish_failed"] \in Nat
    BY <1>0 DEF TypeOK, AuditActions
  <2>2. s = "publish_failed" => audit'[j]["publish_failed"] = audit[j]["publish_failed"] + 1
    BY <1>0, <1>1, <1>2, AuditLemma
  <2> QED BY <2>1, <2>2
<1>6. ~Working(j)' /\ job'[j].status # "published" /\ OwedOK'
  BY <1>0, <1>1, <1>3 DEF Working, WorkingStatuses, StateInv, OwedOK
<1>7. job[j].status # "published"
  BY DEF Working, WorkingStatuses
<1>8. batch'[j] \notin {"published", "superseded"}
  BY <1>0, <1>7 DEF StateInv, PublicationTold
<1> QED BY <1>0, <1>2, <1>3, <1>4, <1>5, <1>6, <1>7, <1>8, RowStep

\* claim_next_job keeps it: it skips locked rows.
LEMMA PollState ==
    ASSUME SafeInv, NEW t \in Slots, NEW j \in Jobs, ClaimExhausted(t, j) \/ Claim(t, j)
    PROVE  StateInv'
<1>0. TypeInv /\ StateInv /\ TypeInv' /\ TypeOK
  BY PollType DEF SafeInv, TypeInv
<1>1. CASE ClaimExhausted(t, j)
  <2>1. OpensNothing
    BY <1>1 DEF ClaimExhausted, OpensNothing
  <2> QED BY <1>0, <1>1, <2>1, FailureState DEF ClaimExhausted, Claimable
<1>2. CASE Claim(t, j)
  <2>1. Claimed(t, j)
    BY <1>0, <1>2, ClaimLemma
  <2>2. UNCHANGED <<owed, batch, audit>> /\ Unlocked(j)
    BY <1>2 DEF Claim, Claimable
  <2>3. job[j].status # "published"
    BY <1>2 DEF Claim, Claimable, ClaimableStatuses, Working, WorkingStatuses
  <2>4. OpensNothing /\ TellsNothing /\ OwedOK'
    BY <1>0, <2>1, <2>2, NoEvent DEF Claimed, OpensNothing, StateInv, OwedOK
  <2>5. /\ Working(j)' /\ job'[j].owner # NoWorker
        /\ job'[j].status \notin {"published", "publish_failed"}
    BY <2>1, ImportJobsAssumption DEF Claimed, Working, WorkingStatuses
  <2>6. batch'[j] \notin {"published", "superseded"}
    BY <1>0, <2>2, <2>3 DEF StateInv, PublicationTold
  <2>7. \A k \in Jobs \ {j} : job'[k] = job[k] /\ batch'[k] = batch[k]
    BY <2>1, <2>2 DEF Claimed
  <2> QED BY <1>0, <2>2, <2>3, <2>4, <2>5, <2>6, <2>7, RowStep
<1> QED BY <1>1, <1>2

\* A slot that moves on without writing a row.
LEMMA MoveState ==
    ASSUME SafeInv, TypeInv', NEW t \in Slots, MovesOn(t), TellsNothing,
           UNCHANGED <<owed, job, batch>>
    PROVE  StateInv'
<1>1. OpensNothing
  BY DEF MovesOn, OpensNothing, Idle
<1>2. OwedOK' /\ \A k \in Jobs : SameRow(k)
  BY DEF SafeInv, StateInv, OwedOK, SameRow
<1> QED BY <1>1, <1>2, QuietStep DEF SafeInv

\* complete_validation keeps it.
LEMMA ValidationState ==
    ASSUME SafeInv, TypeInv', NEW t \in Slots, CompleteValidation(t), MovesOn(t)
    PROVE  StateInv'
<1>0. TypeInv /\ StateInv /\ TypeOK /\ job \in [Jobs -> Row] /\ Busy(t)
  BY DEF SafeInv, TypeInv, TypeOK, CompleteValidation, At, Busy
<1>1. PICK j \in Jobs : j = exec[t].job
  BY <1>0, JobLemma
<1>2. TellsNothing /\ UNCHANGED owed
  BY <1>0, NoEvent DEF CompleteValidation
<1>3. CASE UNCHANGED <<job, batch>>
  BY <1>2, <1>3, MoveState
<1>4. CASE ~UNCHANGED <<job, batch>>
  <2>1. /\ job[j].status = "validating"
        /\ \E s \in {"validation_failed", "approval_pending"} :
              job' = [job EXCEPT ![j] = Released(@, s)]
        /\ batch' = [batch EXCEPT ![j] = "failed"] \/ UNCHANGED batch
    BY <1>1, <1>4 DEF CompleteValidation
  <2>2. PICK s \in {"validation_failed", "approval_pending"} :
              job' = [job EXCEPT ![j] = Released(@, s)]
    BY <2>1
  <2>3. job'[j] = Released(job[j], s) /\ \A k \in Jobs \ {j} : job'[k] = job[k]
    BY <1>0, <2>2
  <2>4. job'[j].status = s /\ job'[j].owner = NoWorker /\ ~job'[j].live
    BY <1>0, <2>3, RowLemma DEF Statuses, TerminalStatuses
  <2>5. ~Working(j)' /\ OwedOK' /\ OpensNothing
    BY <1>0, <1>2, <2>4 DEF Working, WorkingStatuses, StateInv, OwedOK, MovesOn,
                            OpensNothing, Idle
  <2>6. Unlocked(j) /\ batch[j] \notin {"published", "superseded"}
    BY <1>0, <2>1, LockedLemma DEF StateInv, PublicationTold
  <2>7. /\ \A k \in Jobs \ {j} : job'[k] = job[k] /\ batch'[k] = batch[k]
        /\ batch'[j] \notin {"published", "superseded"}
    BY <1>0, <2>1, <2>3, <2>6 DEF TypeOK
  <2> QED BY <1>0, <1>2, <2>1, <2>4, <2>5, <2>6, <2>7, RowStep
<1> QED BY <1>3, <1>4

\* fail_job keeps it: a retry is scheduled only with an attempt left.
LEMMA FailJobState ==
    ASSUME SafeInv, TypeInv', NEW t \in Slots, FailJob(t), MovesOn(t)
    PROVE  StateInv'
<1>0. TypeInv /\ StateInv /\ TypeOK /\ job \in [Jobs -> Row] /\ Busy(t)
  BY DEF SafeInv, TypeInv, TypeOK, FailJob, At, Busy
<1>1. PICK j \in Jobs : j = exec[t].job
  BY <1>0, JobLemma
<1>2. OpensNothing /\ UNCHANGED <<owed, batch>> /\ OwedOK' /\ job[j] \in Row
  BY <1>0 DEF FailJob, MovesOn, OpensNothing, Idle, StateInv, OwedOK
<1>3. CASE UNCHANGED <<job, audit>>
  BY <1>0, <1>2, <1>3, MoveState, NoEvent
<1>4. CASE Working(j) /\ Unlocked(j) /\ EndInFailure(j)
  BY <1>2, <1>4, FailureState
<1>5. CASE /\ Working(j) /\ Unlocked(j) /\ AttemptsLeft(j)
           /\ job' = [job EXCEPT ![j] = [Released(@, job[j].status) EXCEPT !.due = FALSE]]
           /\ Audited(j, RetryOf(job[j].status))
  <2>1. /\ job'[j] = [Released(job[j], job[j].status) EXCEPT !.due = FALSE]
        /\ \A k \in Jobs \ {j} : job'[k] = job[k] /\ batch'[k] = batch[k]
    BY <1>0, <1>2, <1>5
  <2>2. /\ job'[j].status = job[j].status /\ job'[j].owner = NoWorker /\ ~job'[j].live
        /\ job'[j].attempt = job[j].attempt
    BY <2>1, <1>2 DEF Released, Row
  <2>3. AttemptsLeft(j)' /\ job[j].status \notin {"published", "publish_failed"}
    BY <1>5, <2>2 DEF AttemptsLeft, Working, WorkingStatuses
  <2>4. TellsNothing
    BY <1>0, <1>5, OtherEvent DEF RetryOf, AuditActions
  <2>5. batch'[j] \notin {"published", "superseded"}
    BY <1>0, <1>2, <2>3 DEF StateInv, PublicationTold
  <2> QED BY <1>0, <1>2, <1>5, <2>1, <2>2, <2>3, <2>4, <2>5, RowStep
<1> QED BY <1>1, <1>3, <1>4, <1>5 DEF FailJob

\* Opening a publication locks a row nobody else has locked.
LEMMA OpenState ==
    ASSUME SafeInv, TypeInv', NEW t \in Slots, OpenPublication(t)
    PROVE  StateInv'
<1>0. TypeInv /\ StateInv /\ TypeOK /\ Busy(t) /\ UNCHANGED <<owed, job, batch, audit>>
  BY DEF SafeInv, TypeInv, OpenPublication, At, Busy
<1>1. CASE MovesOn(t)
  BY <1>0, <1>1, MoveState, NoEvent
<1>2. CASE Opened(t)
  <2>1. LockOK'
    <3> SUFFICES ASSUME NEW u \in Slots, exec'[u].pc = "publish"
                 PROVE  /\ job[exec'[u].job].status = "publishing"
                        /\ job[exec'[u].job].owner = WorkerOf[u]
                        /\ \A v \in Slots :
                              exec'[v].pc = "publish" /\ exec'[v].job = exec'[u].job => v = u
      BY <1>0 DEF LockOK, At
    <3>1. CASE u = t
      <4>1. ASSUME NEW v \in Slots \ {t}, exec[v].pc = "publish" PROVE exec[v].job # exec[t].job
        BY <1>2, <4>1 DEF Opened, Unlocked, At
      <4> QED BY <1>2, <3>1, <4>1 DEF Opened, Leased
    <3>2. CASE u # t
      <4>1. exec[u].pc = "publish" /\ exec'[u] = exec[u] /\ exec[u].job # exec[t].job
        BY <1>2, <3>2 DEF Opened, Unlocked, At
      <4>2. job[exec[u].job].status = "publishing" /\ job[exec[u].job].owner = WorkerOf[u]
        BY <1>0, <4>1 DEF StateInv, LockOK, At
      <4>3. ASSUME NEW v \in Slots, exec'[v].pc = "publish", exec'[v].job = exec[u].job
            PROVE  v = u
        BY <1>0, <1>2, <4>1, <4>3 DEF Opened, StateInv, LockOK, At
      <4> QED BY <4>1, <4>2, <4>3
    <3> QED BY <3>1, <3>2
  <2>2. SeenOK'
    <3> SUFFICES ASSUME NEW u \in Slots, exec'[u].pc = "publish", NEW k \in exec'[u].seen
                 PROVE  SameTenant(exec'[u].job, k) /\ batch[k] \in {"published", "superseded"}
      BY <1>0 DEF SeenOK, At, SameTenant
    <3>1. CASE u = t
      BY <1>2, <3>1 DEF Opened, PublishedBeside
    <3>2. CASE u # t
      BY <1>0, <1>2, <3>2 DEF Opened, StateInv, SeenOK, At
    <3> QED BY <3>1, <3>2
  <2>3. OwedOK' /\ LeaseDiscipline' /\ PublicationTold' /\ CatalogOK'
    BY <1>0 DEF StateInv, OwedOK, LeaseDiscipline, PublicationTold, CatalogOK, Working,
                AttemptsLeft, SameTenant
  <2> QED BY <2>1, <2>2, <2>3 DEF StateInv
<1> QED BY <1>0, <1>1, <1>2, OpenLemma

\* What a publication that commits does.
Commits(t, j) ==
    /\ j = exec[t].job /\ At(t, "publish") /\ job[j].live
    /\ ~Overtaken(t) /\ ~SnapshotTaken(j)
    /\ job' = [job EXCEPT ![j] = Released(@, "published")]
    /\ batch' = BatchesAfter(t)
    /\ Audited(j, "published")

\* A publication commits or leaves no trace.
LEMMA PublishLemma ==
    ASSUME TypeInv, NEW t \in Slots, Publish(t)
    PROVE  UNCHANGED <<job, batch, audit>> \/ \E j \in Jobs : Commits(t, j)
<1>1. PICK j \in Jobs : j = exec[t].job
  BY JobLemma DEF Publish, At, Busy
<1>2. UNCHANGED <<job, batch, audit>> \/ Commits(t, j)
  BY <1>1 DEF Publish, Commits, LeaseHeldAtCommit
<1> QED BY <1>2

\* The current snapshot of the tenant, if there is one, is among those seen,
\* and those seen are its current and its former ones.
LEMMA CommitBatches ==
    ASSUME SafeInv, NEW t \in Slots, NEW j \in Jobs, Commits(t, j)
    PROVE  /\ batch[j] \notin {"published", "superseded"} /\ batch'[j] = "published"
           /\ job[j].status = "publishing"
           /\ \A k \in Jobs \ {j} :
                 IF SameTenant(j, k) /\ batch[k] = "published"
                 THEN batch'[k] = "superseded" ELSE batch'[k] = batch[k]
<1>0. TypeInv /\ StateInv /\ TypeOK
  BY DEF SafeInv, TypeInv
<1>1. job[j].status = "publishing" /\ batch[j] \notin {"published", "superseded"}
  BY <1>0 DEF Commits, StateInv, LockOK, PublicationTold
<1>2. \A k \in exec[t].seen : SameTenant(j, k) /\ batch[k] \in {"published", "superseded"}
  BY <1>0 DEF Commits, StateInv, SeenOK
<1>3. \A k \in Jobs : SameTenant(j, k) /\ batch[k] = "published" => k \in exec[t].seen
  BY DEF Commits, Overtaken, PublishedBeside
<1>4. \A k \in Jobs : batch'[k] = IF k = j THEN "published"
                                  ELSE IF k \in exec[t].seen THEN "superseded" ELSE batch[k]
  BY DEF Commits, BatchesAfter
<1> QED BY <1>1, <1>2, <1>3, <1>4

\* A commit keeps the invariant.
LEMMA CommitState ==
    ASSUME SafeInv, TypeInv', NEW t \in Slots, NEW j \in Jobs, Commits(t, j), MovesOn(t),
           UNCHANGED owed
    PROVE  StateInv'
<1>0. TypeInv /\ StateInv /\ TypeOK /\ job \in [Jobs -> Row] /\ job[j] \in Row
  BY DEF SafeInv, TypeInv, TypeOK
<1>1. /\ job'[j] = Released(job[j], "published") /\ \A k \in Jobs \ {j} : job'[k] = job[k]
      /\ Audited(j, "published") /\ At(t, "publish") /\ exec[t].job = j
  BY <1>0 DEF Commits
<1>2. job'[j].status = "published" /\ job'[j].owner = NoWorker /\ ~job'[j].live
  BY <1>0, <1>1, RowLemma DEF Statuses, TerminalStatuses
<1>3. /\ batch[j] \notin {"published", "superseded"} /\ batch'[j] = "published"
      /\ job[j].status = "publishing"
      /\ \A k \in Jobs \ {j} : IF SameTenant(j, k) /\ batch[k] = "published"
                               THEN batch'[k] = "superseded" ELSE batch'[k] = batch[k]
  BY CommitBatches
<1>4. OpensNothing /\ OwedOK' /\ exec'[t].pc # "publish"
  BY <1>0 DEF MovesOn, OpensNothing, Idle, StateInv, OwedOK
<1>5. LeaseDiscipline'
  BY <1>0, <1>1, <1>2 DEF StateInv, LeaseDiscipline, Working, WorkingStatuses, AttemptsLeft
<1>6. PublicationTold'
  <2> SUFFICES ASSUME NEW k \in Jobs
               PROVE /\ job'[k].status = "published" <=> batch'[k] \in {"published", "superseded"}
                     /\ audit'[k]["published"] = IF job'[k].status = "published" THEN 1 ELSE 0
                     /\ job'[k].status = "publish_failed" => audit'[k]["publish_failed"] > 0
    BY DEF PublicationTold
  <2>1. /\ job[k].status = "published" <=> batch[k] \in {"published", "superseded"}
        /\ audit[k]["published"] = IF job[k].status = "published" THEN 1 ELSE 0
        /\ job[k].status = "publish_failed" => audit[k]["publish_failed"] > 0
    BY <1>0 DEF StateInv, PublicationTold
  <2>2. /\ audit'[k]["published"] = IF k = j THEN audit[k]["published"] + 1
                                             ELSE audit[k]["published"]
        /\ audit'[k]["publish_failed"] = audit[k]["publish_failed"]
    BY <1>0, <1>1, AuditLemma DEF AuditActions
  <2>3. CASE k = j
    BY <1>2, <1>3, <2>1, <2>2, <2>3
  <2>4. CASE k # j
    BY <1>1, <1>3, <2>1, <2>2, <2>4
  <2> QED BY <2>3, <2>4
<1>7. LockOK'
  <2> SUFFICES ASSUME NEW u \in Slots, exec'[u].pc = "publish"
               PROVE  /\ job'[exec'[u].job].status = "publishing"
                      /\ job'[exec'[u].job].owner = WorkerOf[u]
                      /\ \A v \in Slots :
                            exec'[v].pc = "publish" /\ exec'[v].job = exec'[u].job => v = u
    BY DEF LockOK, At
  <2>1. exec'[u] = exec[u] /\ u # t /\ Busy(u)
    BY <1>4 DEF OpensNothing, Busy
  <2>2. PICK k \in Jobs : k = exec[u].job
    BY <1>0, <2>1, JobLemma
  <2>3. k # j
    BY <1>0, <1>1, <2>1, <2>2 DEF StateInv, LockOK, At
  <2>4. job[k].status = "publishing" /\ job[k].owner = WorkerOf[u]
    BY <1>0, <2>1, <2>2 DEF StateInv, LockOK, At
  <2>5. ASSUME NEW v \in Slots, exec'[v].pc = "publish", exec'[v].job = exec'[u].job
        PROVE  v = u
    BY <1>0, <1>4, <2>1, <2>5 DEF OpensNothing, StateInv, LockOK, At
  <2> QED BY <1>1, <2>1, <2>2, <2>3, <2>4, <2>5
<1>8. SeenOK'
  <2> SUFFICES ASSUME NEW u \in Slots, exec'[u].pc = "publish", NEW k \in exec'[u].seen
               PROVE  SameTenant(exec'[u].job, k) /\ batch'[k] \in {"published", "superseded"}
    BY DEF SeenOK, At, SameTenant
  <2>1. exec'[u] = exec[u] /\ exec[u] \in Execution
    BY <1>0, <1>4 DEF OpensNothing, TypeOK
  <2>2. k \in Jobs
    BY <2>1 DEF Execution
  <2>3. SameTenant(exec[u].job, k) /\ batch[k] \in {"published", "superseded"}
    BY <1>0, <2>1 DEF StateInv, SeenOK, At
  <2> QED BY <1>3, <2>1, <2>2, <2>3
<1>9. CatalogOK'
  <2>1. ASSUME NEW k \in Jobs, NEW l \in Jobs, SameTenant(k, l),
               batch'[k] = "published", batch'[l] = "published"
        PROVE  k = l
    <3>1. CASE SameTenant(j, k)
      <4>1. SameTenant(j, l)
        BY <2>1, <3>1 DEF SameTenant
      <4> QED BY <1>3, <2>1, <3>1, <4>1
    <3>2. CASE ~SameTenant(j, k)
      <4>1. ~SameTenant(j, l) /\ k # j /\ l # j
        BY <2>1, <3>2 DEF SameTenant
      <4> QED BY <1>0, <1>3, <2>1, <3>2, <4>1 DEF StateInv, CatalogOK
    <3> QED BY <3>1, <3>2
  <2>2. ASSUME NEW k \in Jobs, batch'[k] \in {"published", "superseded"}
        PROVE  \E l \in Jobs : SameTenant(k, l) /\ batch'[l] = "published"
    <3>1. CASE SameTenant(j, k)
      BY <1>3, <3>1 DEF SameTenant
    <3>2. CASE ~SameTenant(j, k)
      <4>1. k # j /\ batch'[k] = batch[k]
        BY <1>3, <3>2 DEF SameTenant
      <4>2. PICK l \in Jobs : SameTenant(k, l) /\ batch[l] = "published"
        BY <1>0, <2>2, <4>1 DEF StateInv, CatalogOK
      <4>3. ~SameTenant(j, l) /\ l # j
        BY <3>2, <4>2 DEF SameTenant
      <4> QED BY <1>3, <4>2, <4>3
    <3> QED BY <3>1, <3>2
  <2>3. (\A k, l \in Jobs : SameTenant(k, l) /\ batch'[k] = "published"
                            /\ batch'[l] = "published" => k = l)
    BY <2>1
  <2> QED BY <2>2, <2>3 DEF CatalogOK, SameTenant
<1> QED BY <1>4, <1>5, <1>6, <1>7, <1>8, <1>9 DEF StateInv

\* Every step of a slot keeps the invariant.
LEMMA SlotState ==
    ASSUME SafeInv, NEW t \in Slots,
           Step(t) \/ Fault(t) \/ RejectPayload(t) \/ Escape(t)
    PROVE  StateInv'
<1>0. TypeInv /\ TypeInv' /\ TypeOK
  BY SlotType DEF SafeInv, TypeInv
<1>1. CASE OpenPublication(t)
  BY <1>0, <1>1, OpenState
<1>2. CASE ~OpenPublication(t)
  <2>1. Busy(t) /\ MovesOn(t)
    BY <1>0, <1>2, SlotMoves DEF Step
  <2>2. PICK j \in Jobs : j = exec[t].job /\ exec[t].phase \in WorkingStatuses
    BY <1>0, <2>1, JobLemma
  <2>3. CASE CompleteValidation(t)
    BY <1>0, <2>1, <2>3, ValidationState
  <2>4. CASE FailJob(t)
    BY <1>0, <2>1, <2>4, FailJobState
  <2>5. CASE Publish(t)
    <3>1. CASE UNCHANGED <<job, batch, audit>>
      BY <1>0, <2>1, <2>5, <3>1, MoveState, NoEvent DEF Publish
    <3>2. CASE \E k \in Jobs : Commits(t, k)
      BY <1>0, <2>1, <2>5, <3>2, CommitState DEF Publish
    <3> QED BY <1>0, <2>5, <3>1, <3>2, PublishLemma
  <2>6. CASE AuditOutcome(t) \/ Announce(t) \/ ReportFailure(t)
    <3>1. \E a \in AuditActions \ {"published"} : Audited(j, a)
      BY <2>2, <2>6 DEF AuditOutcome, Announce, ReportFailure, FailureOf, AuditActions
    <3>2. TellsNothing /\ UNCHANGED <<owed, job, batch>>
      BY <1>0, <2>6, <3>1, OtherEvent DEF AuditOutcome, Announce, ReportFailure
    <3> QED BY <1>0, <2>1, <3>2, MoveState
  <2>7. CASE Fault(t) \/ RejectPayload(t) \/ Escape(t)
    <3>1. TellsNothing /\ UNCHANGED <<owed, job, batch>>
      BY <1>0, <2>7, NoEvent DEF Fault, RejectPayload, Escape
    <3> QED BY <1>0, <2>1, <3>1, MoveState
  <2> QED BY <1>2, <2>3, <2>4, <2>5, <2>6, <2>7 DEF Step
<1> QED BY <1>1, <1>2

\* A process that dies keeps it: its open publication is rolled back.
LEMMA WorkerState ==
    ASSUME SafeInv, NEW w \in Workers, Drain(w) \/ Crash(w)
    PROVE  StateInv'
<1>0. TypeInv /\ StateInv /\ TypeInv' /\ TypeOK
  BY WorkerType DEF SafeInv, TypeInv
<1>1. UNCHANGED <<owed, job, batch, audit>>
  BY DEF Drain, Crash
<1>2. \A t \in Slots : exec'[t] = exec[t] \/ exec'[t] = Idle
  BY DEF Drain, Crash
<1>3. OpensNothing /\ TellsNothing /\ OwedOK' /\ \A k \in Jobs : SameRow(k)
  BY <1>0, <1>1, <1>2, NoEvent DEF OpensNothing, Idle, StateInv, OwedOK, SameRow
<1> QED BY <1>0, <1>1, <1>3, QuietStep

\* The invariant is inductive.
LEMMA SafeInductive == Spec => []SafeInv
<1>1. Init => SafeInv
  BY InitType, InitState DEF SafeInv
<1>2. SafeInv /\ [Next]_vars => SafeInv'
  <2> SUFFICES ASSUME SafeInv, [Next]_vars PROVE StateInv'
    BY NextType DEF SafeInv
  <2>1. CASE UNCHANGED vars
    BY <2>1 DEF vars, SafeInv, StateInv, OwedOK, LeaseDiscipline, PublicationTold, LockOK,
                SeenOK, CatalogOK, Working, AttemptsLeft, At, SameTenant
  <2>2. CASE \E j \in Jobs : \/ Submit(j) \/ Insert(j) \/ Cancel(j) \/ RequestAudit(j)
                             \/ RequestDies(j) \/ LeaseExpires(j) \/ BackoffElapses(j)
                             \/ \E d \in {"approved", "rejected"} : Decide(j, d)
    BY <2>2, RequestState
  <2>3. CASE \E t \in Slots : Poll(t)
    BY <2>3, PollState DEF Poll
  <2>4. CASE \E t \in Slots : Step(t) \/ Fault(t) \/ RejectPayload(t) \/ Escape(t)
    BY <2>4, SlotState
  <2>5. CASE \E w \in Workers : Drain(w) \/ Crash(w)
    BY <2>5, WorkerState
  <2> QED BY <2>1, <2>2, <2>3, <2>4, <2>5 DEF Next
<1> QED BY <1>1, <1>2, PTL DEF Spec

-----------------------------------------------------------------------------
(* What follows from the invariant *)

\* A claimed job has an owner whose lease runs out or a retry with an attempt
\* left, and no other job has an owner: none is out of claim_next_job's reach.
THEOREM LeasesAreOrderly == Spec => []LeaseDiscipline
<1>1. SafeInv => LeaseDiscipline
  BY DEF SafeInv, StateInv
<1> QED BY <1>1, SafeInductive, PTL

\* The snapshot rows, the status and the events of a publication agree.
THEOREM PublicationsAreTold == Spec => []PublicationTold
<1>1. SafeInv => PublicationTold
  BY DEF SafeInv, StateInv
<1> QED BY <1>1, SafeInductive, PTL

\* A tenant's queries never find two current snapshots, and find one exactly
\* when a job of the tenant was published.
THEOREM SnapshotIsUnique == Spec => []OneSnapshotPerTenant
<1>1. SafeInv => OneSnapshotPerTenant
  BY DEF SafeInv, StateInv, OneSnapshotPerTenant, CatalogOK, PublicationTold, SameTenant
<1> QED BY <1>1, SafeInductive, PTL

\* What the readers can see of a step: nothing, the commit of a publication,
\* or one job moving along an allowed edge other than to published.
SameSnapshots == \A k \in Jobs : /\ batch'[k] = "published" <=> batch[k] = "published"
                                 /\ batch'[k] = "superseded" <=> batch[k] = "superseded"
SameStatus == \A k \in Jobs : job'[k].status = job[k].status
MovesAlong(j) == /\ \A k \in Jobs \ {j} : job'[k].status = job[k].status
                 /\ job'[j].status \in Catalog!AllowedTransitions[job[j].status]
                 /\ job'[j].status # "published"

\* A request moves one job along an edge, or none.
LEMMA RequestEffect ==
    ASSUME SafeInv, NEW j \in Jobs,
           \/ Submit(j) \/ Insert(j) \/ Cancel(j) \/ RequestAudit(j) \/ RequestDies(j)
           \/ LeaseExpires(j) \/ BackoffElapses(j)
           \/ \E d \in {"approved", "rejected"} : Decide(j, d)
    PROVE  UNCHANGED batch /\ (SameStatus \/ MovesAlong(j))
<1>0. job \in [Jobs -> Row] /\ job[j] \in Row
  BY DEF SafeInv, TypeInv, TypeOK
<1>1. UNCHANGED batch
  BY DEF Submit, Insert, Cancel, RequestAudit, RequestDies, LeaseExpires, BackoffElapses, Decide
<1>2. CASE UNCHANGED job
  BY <1>1, <1>2 DEF SameStatus
<1>3. CASE LeaseExpires(j) \/ BackoffElapses(j)
  BY <1>0, <1>1, <1>3 DEF LeaseExpires, BackoffElapses, SameStatus, Row
<1>4. CASE Insert(j) /\ ~UNCHANGED job
  <2>1. job[j].status = "absent" /\ job' = [job EXCEPT ![j].status = "submitted"]
    BY <1>4 DEF Insert, Exists, SameKey, SameTenant
  <2>2. job'[j].status = "submitted" /\ \A k \in Jobs \ {j} : job'[k] = job[k]
    BY <1>0, <2>1 DEF Row
  <2> QED BY <1>1, <2>1, <2>2 DEF MovesAlong, Catalog!AllowedTransitions
<1>5. CASE Cancel(j)
  <2>1. job'[j] = Released(job[j], "cancelled") /\ \A k \in Jobs \ {j} : job'[k] = job[k]
    BY <1>0, <1>5 DEF Cancel
  <2>2. job'[j].status = "cancelled"
    BY <1>0, <2>1, RowLemma DEF Statuses, TerminalStatuses
  <2> QED BY <1>1, <1>5, <2>1, <2>2
          DEF Cancel, CancellableStatuses, MovesAlong, Catalog!AllowedTransitions
<1>6. ASSUME NEW d \in {"approved", "rejected"}, Decide(j, d) PROVE MovesAlong(j)
  <2>1. job'[j].status = d /\ \A k \in Jobs \ {j} : job'[k] = job[k]
    BY <1>0, <1>6 DEF Decide, Row
  <2> QED BY <1>6, <2>1 DEF Decide, MovesAlong, Catalog!AllowedTransitions
<1> QED BY <1>1, <1>2, <1>3, <1>4, <1>5, <1>6 DEF Submit, RequestAudit, RequestDies

\* A working job fails along an edge.
LEMMA FailureEffect ==
    ASSUME SafeInv, NEW j \in Jobs, Working(j), EndInFailure(j)
    PROVE  MovesAlong(j)
<1>0. job \in [Jobs -> Row] /\ job[j] \in Row
  BY DEF SafeInv, TypeInv, TypeOK
<1>1. FailureOf(job[j].status) \in Statuses
  BY DEF FailureOf, Statuses, TerminalStatuses
<1>2. /\ job'[j] = Released(job[j], FailureOf(job[j].status))
      /\ \A k \in Jobs \ {j} : job'[k] = job[k]
  BY <1>0 DEF EndInFailure
<1>3. job'[j].status = FailureOf(job[j].status)
  BY <1>0, <1>1, <1>2, RowLemma
<1> QED BY <1>2, <1>3
        DEF Working, WorkingStatuses, FailureOf, MovesAlong, Catalog!AllowedTransitions

\* A claim moves one job along an edge, or none.
LEMMA PollEffect ==
    ASSUME SafeInv, NEW t \in Slots, NEW j \in Jobs, ClaimExhausted(t, j) \/ Claim(t, j)
    PROVE  UNCHANGED batch /\ (SameStatus \/ MovesAlong(j))
<1>1. CASE ClaimExhausted(t, j)
  BY <1>1, FailureEffect DEF ClaimExhausted
<1>2. CASE Claim(t, j)
  <2>1. Claimed(t, j)
    BY <1>2, ClaimLemma DEF SafeInv
  <2>2. /\ \A k \in Jobs \ {j} : job'[k] = job[k]
        /\ job'[j].status = CASE job[j].status = "submitted" -> "validating"
                              [] job[j].status = "approved" -> "publishing"
                              [] OTHER -> job[j].status
    BY <2>1 DEF Claimed
  <2> QED BY <1>2, <2>2 DEF Claim, Claimable, ClaimableStatuses, Working, WorkingStatuses,
                            SameStatus, MovesAlong, Catalog!AllowedTransitions
<1> QED BY <1>1, <1>2

\* A slot commits a publication, or moves its job along an edge, or none.
LEMMA SlotEffect ==
    ASSUME SafeInv, NEW t \in Slots, Step(t) \/ Fault(t) \/ RejectPayload(t) \/ Escape(t)
    PROVE  \/ \E j \in Jobs : Commits(t, j)
           \/ \E j \in Jobs : /\ SameStatus \/ MovesAlong(j)
                              /\ \/ UNCHANGED batch
                                 \/ /\ batch' = [batch EXCEPT ![j] = "failed"]
                                    /\ ~SnapshotTaken(j) /\ job[j].status = "validating"
<1>0. TypeInv /\ job \in [Jobs -> Row] /\ Busy(t)
  BY DEF SafeInv, TypeInv, TypeOK, Busy, At, Step, CompleteValidation, AuditOutcome, Announce,
         OpenPublication, Publish, FailJob, ReportFailure, Fault, RejectPayload, Escape
<1>1. PICK j \in Jobs : j = exec[t].job
  BY <1>0, JobLemma
<1>2. CASE UNCHANGED <<job, batch>>
  BY <1>2 DEF SameStatus
<1>3. CASE CompleteValidation(t) /\ ~UNCHANGED <<job, batch>>
  <2>1. /\ job[j].status = "validating"
        /\ \E s \in {"validation_failed", "approval_pending"} :
              job' = [job EXCEPT ![j] = Released(@, s)]
        /\ \/ UNCHANGED batch
           \/ batch' = [batch EXCEPT ![j] = "failed"] /\ ~SnapshotTaken(j)
    BY <1>1, <1>3 DEF CompleteValidation
  <2>2. PICK s \in {"validation_failed", "approval_pending"} :
              job' = [job EXCEPT ![j] = Released(@, s)]
    BY <2>1
  <2>3. job'[j] = Released(job[j], s) /\ \A k \in Jobs \ {j} : job'[k] = job[k]
    BY <1>0, <2>2
  <2>4. job'[j].status = s
    BY <1>0, <2>3, RowLemma DEF Statuses, TerminalStatuses
  <2>5. MovesAlong(j)
    BY <2>1, <2>3, <2>4 DEF MovesAlong, Catalog!AllowedTransitions
  <2> QED BY <2>1, <2>5
<1>4. CASE Publish(t)
  BY <1>0, <1>2, <1>4, PublishLemma
<1>5. CASE FailJob(t) /\ ~UNCHANGED <<job, batch>>
  <2>1. /\ Working(j) /\ UNCHANGED batch
        /\ \/ EndInFailure(j)
           \/ job' = [job EXCEPT ![j] = [Released(@, job[j].status) EXCEPT !.due = FALSE]]
    BY <1>1, <1>5 DEF FailJob
  <2>2. CASE EndInFailure(j)
    BY <2>1, <2>2, FailureEffect
  <2>3. CASE job' = [job EXCEPT ![j] = [Released(@, job[j].status) EXCEPT !.due = FALSE]]
    <3>1. job'[j].status = job[j].status /\ \A k \in Jobs \ {j} : job'[k] = job[k]
      BY <1>0, <2>3 DEF Released, Row
    <3> QED BY <2>1, <3>1 DEF SameStatus
  <2> QED BY <2>1, <2>2, <2>3
<1> QED BY <1>2, <1>3, <1>4, <1>5
        DEF Step, AuditOutcome, Announce, OpenPublication, ReportFailure, Fault,
            RejectPayload, Escape

\* The effect of any step.
LEMMA StepEffect ==
    ASSUME SafeInv, [Next]_vars
    PROVE  \/ \E t \in Slots, j \in Jobs : Commits(t, j)
           \/ /\ SameStatus \/ \E j \in Jobs : MovesAlong(j)
              /\ \/ UNCHANGED batch
                 \/ \E j \in Jobs : /\ batch' = [batch EXCEPT ![j] = "failed"]
                                    /\ ~SnapshotTaken(j) /\ job[j].status = "validating"
<1>1. CASE UNCHANGED vars
  BY <1>1 DEF vars, SameStatus
<1>2. CASE \E j \in Jobs : \/ Submit(j) \/ Insert(j) \/ Cancel(j) \/ RequestAudit(j)
                           \/ RequestDies(j) \/ LeaseExpires(j) \/ BackoffElapses(j)
                           \/ \E d \in {"approved", "rejected"} : Decide(j, d)
  BY <1>2, RequestEffect
<1>3. CASE \E t \in Slots : Poll(t)
  BY <1>3, PollEffect DEF Poll
<1>4. CASE \E t \in Slots : Step(t) \/ Fault(t) \/ RejectPayload(t) \/ Escape(t)
  BY <1>4, SlotEffect
<1>5. CASE \E w \in Workers : Drain(w) \/ Crash(w)
  BY <1>5 DEF Drain, Crash, SameStatus
<1> QED BY <1>1, <1>2, <1>3, <1>4, <1>5 DEF Next

\* However long it took, a publication commits under a lease that is alive.
THEOREM PublicationNeedsLease == Spec => PublishedUnderLease
<1> DEFINE A == \A j \in Jobs :
              job[j].status # "published" /\ job'[j].status = "published" => job[j].live
<1>1. SafeInv /\ [Next]_vars => [A]_vars
  <2> SUFFICES ASSUME SafeInv, [Next]_vars PROVE A
    OBVIOUS
  <2>0. job \in [Jobs -> Row]
    BY DEF SafeInv, TypeInv, TypeOK
  <2>1. ASSUME NEW t \in Slots, NEW j \in Jobs, Commits(t, j) PROVE A
    BY <2>0, <2>1 DEF Commits
  <2>2. CASE SameStatus \/ \E j \in Jobs : MovesAlong(j)
    BY <2>2 DEF SameStatus, MovesAlong
  <2> QED BY <2>1, <2>2, StepEffect
<1> QED BY <1>1, SafeInductive, PTL DEF Spec, PublishedUnderLease

\* Two submissions of one snapshot never both get a batch, also when both
\* became jobs because they were submitted at once under different keys.
THEOREM SnapshotHasOneBatch == Spec => []OneBatchPerSnapshot
<1>1. Init => OneBatchPerSnapshot
  BY DEF Init, OneBatchPerSnapshot
<1>2. SafeInv /\ OneBatchPerSnapshot /\ [Next]_vars => OneBatchPerSnapshot'
  <2> SUFFICES ASSUME SafeInv, OneBatchPerSnapshot, [Next]_vars
               PROVE  OneBatchPerSnapshot'
    OBVIOUS
  <2>0. UNCHANGED carries /\ batch \in [Jobs -> {"none", "failed", "published", "superseded"}]
    <3>1. UNCHANGED carries
      BY DEF Next, Poll, Step, Submit, Insert, Cancel, RequestAudit, RequestDies, LeaseExpires,
             BackoffElapses, Decide, ClaimExhausted, Claim, CompleteValidation, AuditOutcome,
             Announce, OpenPublication, Publish, FailJob, ReportFailure, Fault,
             RejectPayload, Escape, Drain, Crash, vars
    <3> QED BY <3>1 DEF SafeInv, TypeInv, TypeOK
  <2>1. ASSUME NEW j \in Jobs, ~SnapshotTaken(j),
               \A k \in Jobs \ {j} : batch'[k] # "none" => batch[k] # "none"
        PROVE  OneBatchPerSnapshot'
    <3> SUFFICES ASSUME NEW k \in Jobs, NEW l \in Jobs, SameSnapshot(k, l),
                        batch'[k] # "none", batch'[l] # "none"
                 PROVE  k = l
      BY <2>0 DEF OneBatchPerSnapshot, SameSnapshot, SameTenant
    <3>1. CASE k = j \/ l = j
      BY <2>1, <3>1 DEF SnapshotTaken, SameSnapshot, SameTenant
    <3>2. CASE k # j /\ l # j
      BY <2>1, <3>2 DEF OneBatchPerSnapshot
    <3> QED BY <3>1, <3>2
  <2>2. CASE UNCHANGED batch
    BY <2>0, <2>2 DEF OneBatchPerSnapshot, SameSnapshot, SameTenant
  <2>3. ASSUME NEW j \in Jobs, batch' = [batch EXCEPT ![j] = "failed"], ~SnapshotTaken(j)
        PROVE  OneBatchPerSnapshot'
    BY <2>0, <2>1, <2>3
  <2>4. ASSUME NEW t \in Slots, NEW j \in Jobs, Commits(t, j) PROVE OneBatchPerSnapshot'
    <3>1. \A k \in Jobs \ {j} : batch'[k] # "none" => batch[k] # "none"
      BY <2>4, CommitBatches
    <3> QED BY <2>1, <2>4, <3>1 DEF Commits
  <2> QED BY <2>2, <2>3, <2>4, StepEffect
<1> QED BY <1>1, <1>2, SafeInductive, PTL DEF Spec

-----------------------------------------------------------------------------
(* The refinement *)

\* The published batch a tenant's queries find, if it is the only one.
LEMMA ChooseLemma ==
    ASSUME NEW b, NEW c, NEW j \in Jobs, TenantOf[j] = c, b[j] = "published",
           \A k \in Jobs : TenantOf[k] = c /\ b[k] = "published" => k = j
    PROVE  (IF \E k \in Jobs : TenantOf[k] = c /\ b[k] = "published"
            THEN CHOOSE k \in Jobs : TenantOf[k] = c /\ b[k] = "published"
            ELSE NoJob) = j
OBVIOUS

\* The pipeline implements the catalogue: a job moves along the allowed edges
\* and the snapshot of a tenant is replaced in the step that publishes the next.
THEOREM PipelineImplementsCatalog == Spec => ImplementsCatalog
<1> DEFINE st == [j \in Jobs |-> job[j].status]
           cur == [c \in Tenants |->
                     IF \E k \in Jobs : TenantOf[k] = c /\ batch[k] = "published"
                     THEN CHOOSE k \in Jobs : TenantOf[k] = c /\ batch[k] = "published"
                     ELSE NoJob]
           old == {j \in Jobs : batch[j] = "superseded"}
<1>1. Init => Catalog!Init
  <2> SUFFICES ASSUME Init PROVE Catalog!Init
    OBVIOUS
  <2>1. st = [j \in Jobs |-> "absent"] /\ cur = [c \in Tenants |-> NoJob] /\ old = {}
    BY DEF Init, Absent
  <2> QED BY <2>1 DEF Catalog!Init
<1>2. SafeInv /\ SafeInv' /\ [Next]_vars => [Catalog!Next]_(Catalog!vars)
  <2> SUFFICES ASSUME SafeInv, SafeInv', [Next]_vars
               PROVE  [Catalog!Next]_(Catalog!vars)
    OBVIOUS
  <2>0. /\ job \in [Jobs -> Row] /\ job' \in [Jobs -> Row]
        /\ batch \in [Jobs -> {"none", "failed", "published", "superseded"}]
        /\ CatalogOK /\ CatalogOK'
    BY DEF SafeInv, StateInv, TypeInv, TypeOK
  <2>1. ASSUME NEW j \in Jobs,
               \/ SameStatus
               \/ MovesAlong(j)
        PROVE  (st' = st) \/ \E s \in Catalog!Statuses :
                  /\ s \in Catalog!AllowedTransitions[st[j]] /\ s # "published"
                  /\ st' = [st EXCEPT ![j] = s]
    <3>1. CASE SameStatus
      BY <3>1 DEF SameStatus
    <3>2. CASE MovesAlong(j)
      <4>1. job'[j].status \in Catalog!Statuses
        BY <2>0 DEF Row, Statuses, TerminalStatuses, Catalog!Statuses, Catalog!TerminalStatuses
      <4>2. st' = [st EXCEPT ![j] = job'[j].status]
        BY <3>2 DEF MovesAlong
      <4> QED BY <3>2, <4>1, <4>2 DEF MovesAlong
    <3> QED BY <2>1, <3>1, <3>2
  <2>2. ASSUME SameSnapshots PROVE cur' = cur /\ old' = old
    <3>1. \A c \in Tenants : cur'[c] = cur[c]
      <4> SUFFICES ASSUME NEW c \in Tenants PROVE cur'[c] = cur[c]
        OBVIOUS
      <4>1. CASE \E j \in Jobs : TenantOf[j] = c /\ batch[j] = "published"
        <5>1. PICK j \in Jobs : TenantOf[j] = c /\ batch[j] = "published"
          BY <4>1
        <5>2. \A k \in Jobs : TenantOf[k] = c /\ batch[k] = "published" => k = j
          BY <2>0, <5>1 DEF CatalogOK, SameTenant
        <5>3. /\ batch'[j] = "published"
              /\ \A k \in Jobs : TenantOf[k] = c /\ batch'[k] = "published" => k = j
          BY <2>2, <5>1, <5>2 DEF SameSnapshots
        <5>4. cur[c] = j
          BY <5>1, <5>2, ChooseLemma
        <5>5. cur'[c] = j
          BY <5>1, <5>3, ChooseLemma
        <5> QED BY <5>4, <5>5
      <4>2. CASE ~\E j \in Jobs : TenantOf[j] = c /\ batch[j] = "published"
        <5>1. ~\E j \in Jobs : TenantOf[j] = c /\ batch'[j] = "published"
          BY <2>2, <4>2 DEF SameSnapshots
        <5> QED BY <4>2, <5>1
      <4> QED BY <4>1, <4>2
    <3>2. old' = old
      BY <2>2 DEF SameSnapshots
    <3> QED BY <3>1, <3>2
  <2>3. CASE /\ SameStatus \/ \E j \in Jobs : MovesAlong(j)
             /\ \/ UNCHANGED batch
                \/ \E j \in Jobs : /\ batch' = [batch EXCEPT ![j] = "failed"]
                                   /\ job[j].status = "validating"
    <3>1. SameSnapshots
      <4>1. CASE UNCHANGED batch
        BY <4>1 DEF SameSnapshots
      <4>2. ASSUME NEW j \in Jobs, batch' = [batch EXCEPT ![j] = "failed"],
                   job[j].status = "validating"
            PROVE  SameSnapshots
        <5>1. batch[j] \notin {"published", "superseded"}
          BY <4>2 DEF SafeInv, StateInv, PublicationTold
        <5> QED BY <2>0, <4>2, <5>1 DEF SameSnapshots
      <4> QED BY <2>3, <4>1, <4>2
    <3>2. cur' = cur /\ old' = old
      BY <2>2, <3>1
    <3>3. CASE SameStatus
      <4>1. st' = st
        BY <3>3 DEF SameStatus
      <4> QED BY <3>2, <4>1 DEF Catalog!vars
    <3>4. ASSUME NEW j \in Jobs, MovesAlong(j) PROVE [Catalog!Next]_(Catalog!vars)
      <4>1. CASE st' = st
        BY <3>2, <4>1 DEF Catalog!vars
      <4>2. ASSUME NEW s \in Catalog!Statuses, s \in Catalog!AllowedTransitions[st[j]],
                   s # "published", st' = [st EXCEPT ![j] = s]
            PROVE  Catalog!Next
        <5>1. Catalog!Move(j, s)
          BY <3>2, <4>2 DEF Catalog!Move
        <5> QED BY <5>1 DEF Catalog!Next
      <4> QED BY <2>1, <3>4, <4>1, <4>2
    <3> QED BY <2>3, <3>3, <3>4
  <2>4. ASSUME NEW t \in Slots, NEW j \in Jobs, Commits(t, j)
        PROVE  Catalog!Next
    <3> DEFINE c == TenantOf[j]
    <3>1. /\ batch[j] \notin {"published", "superseded"} /\ batch'[j] = "published"
          /\ job[j].status = "publishing"
          /\ \A k \in Jobs \ {j} : IF SameTenant(j, k) /\ batch[k] = "published"
                                   THEN batch'[k] = "superseded" ELSE batch'[k] = batch[k]
      BY <2>4, CommitBatches
    <3>2. st' = [st EXCEPT ![j] = "published"]
      <4>1. job'[j] = Released(job[j], "published") /\ \A k \in Jobs \ {j} : job'[k] = job[k]
        BY <2>0, <2>4 DEF Commits
      <4>2. job'[j].status = "published"
        BY <2>0, <4>1, RowLemma DEF Statuses, TerminalStatuses
      <4> QED BY <4>1, <4>2
    <3>3. "published" \in Catalog!AllowedTransitions[st[j]] /\ "published" \in Catalog!Statuses
      BY <3>1 DEF Catalog!AllowedTransitions, Catalog!Statuses, Catalog!TerminalStatuses
    <3>4. c \in Tenants /\ \A k \in Jobs : SameTenant(j, k) <=> TenantOf[k] = c
      BY ImportJobsAssumption DEF SameTenant
    <3>5. \A k \in Jobs : TenantOf[k] = c /\ batch'[k] = "published" => k = j
      BY <3>1, <3>4
    <3>6. cur'[c] = j
      BY <3>1, <3>4, <3>5, ChooseLemma
    <3>7. \A d \in Tenants \ {c} : cur'[d] = cur[d]
      <4> SUFFICES ASSUME NEW d \in Tenants \ {c} PROVE cur'[d] = cur[d]
        OBVIOUS
      <4>1. \A k \in Jobs : TenantOf[k] = d => batch'[k] = batch[k]
        BY <3>1, <3>4
      <4>2. CASE \E k \in Jobs : TenantOf[k] = d /\ batch[k] = "published"
        <5>1. PICK k \in Jobs : TenantOf[k] = d /\ batch[k] = "published"
          BY <4>2
        <5>2. \A l \in Jobs : TenantOf[l] = d /\ batch[l] = "published" => l = k
          BY <2>0, <5>1 DEF CatalogOK, SameTenant
        <5>3. /\ batch'[k] = "published"
              /\ \A l \in Jobs : TenantOf[l] = d /\ batch'[l] = "published" => l = k
          BY <4>1, <5>1, <5>2
        <5>4. cur[d] = k
          BY <5>1, <5>2, ChooseLemma
        <5>5. cur'[d] = k
          BY <5>1, <5>3, ChooseLemma
        <5> QED BY <5>4, <5>5
      <4>3. CASE ~\E k \in Jobs : TenantOf[k] = d /\ batch[k] = "published"
        <5>1. ~\E k \in Jobs : TenantOf[k] = d /\ batch'[k] = "published"
          BY <4>1, <4>3
        <5> QED BY <4>3, <5>1
      <4> QED BY <4>2, <4>3
    <3>8. cur' = [cur EXCEPT ![c] = j]
      BY <3>4, <3>6, <3>7
    <3>9. old' = old \cup ({cur[c]} \ {NoJob})
      <4>1. CASE \E k \in Jobs : TenantOf[k] = c /\ batch[k] = "published"
        <5>1. PICK k \in Jobs : TenantOf[k] = c /\ batch[k] = "published"
          BY <4>1
        <5>2. \A l \in Jobs : TenantOf[l] = c /\ batch[l] = "published" => l = k
          BY <2>0, <5>1 DEF CatalogOK, SameTenant
        <5>3. cur[c] = k /\ k # NoJob
          BY <3>4, <5>1, <5>2, ChooseLemma, ImportJobsAssumption
        <5>4. old' = old \cup {k}
          BY <3>1, <3>4, <5>1, <5>2
        <5> QED BY <5>3, <5>4
      <4>2. CASE ~\E k \in Jobs : TenantOf[k] = c /\ batch[k] = "published"
        <5>1. cur[c] = NoJob
          BY <3>4, <4>2
        <5>2. old' = old
          BY <3>1, <3>4, <4>2
        <5> QED BY <5>1, <5>2
      <4> QED BY <4>1, <4>2
    <3>10. Catalog!Move(j, "published")
      BY <3>2, <3>3, <3>8, <3>9 DEF Catalog!Move
    <3> QED BY <3>3, <3>10 DEF Catalog!Next
  <2> QED BY <2>3, <2>4, StepEffect
<1> QED BY <1>1, <1>2, SafeInductive, PTL DEF Spec, ImplementsCatalog, Catalog!Spec

-----------------------------------------------------------------------------
(* With one slot per worker, the owner column tells the attempts apart *)

SingleSlot == \A t, u \in Slots : WorkerOf[t] = WorkerOf[u] => t = u

\* A slot of the lease's owner executes the newest attempt of its job.
OwnerIsNewest == \A t \in Slots :
    Busy(t) /\ job[exec[t].job].owner = WorkerOf[t]
        => exec[t].attempt = job[exec[t].job].attempt

\* A row that is not claimed keeps its attempt and its owner, or is released.
KeepsClaim(j) == /\ job'[j].attempt = job[j].attempt
                 /\ job'[j].owner = job[j].owner \/ job'[j].owner = NoWorker
\* A slot that does not claim keeps its job and attempt, or is freed.
KeepsJob(t) == \/ exec'[t].pc = "idle"
               \/ /\ exec'[t].job = exec[t].job
                  /\ exec'[t].attempt = exec[t].attempt
                  /\ exec[t].pc # "idle"
               \/ exec'[t] = exec[t]

\* Every write but a claim keeps the attempt and hands the row to nobody.
LEMMA RowKept ==
    ASSUME TypeOK, NEW j \in Jobs, NEW s \in Statuses,
           \/ job' = job
           \/ job' = [job EXCEPT ![j].status = s]
           \/ job' = [job EXCEPT ![j] = Released(@, s)]
           \/ job' = [job EXCEPT ![j] = [Released(@, s) EXCEPT !.due = FALSE]]
           \/ job' = [job EXCEPT ![j].live = FALSE]
           \/ job' = [job EXCEPT ![j].due = TRUE]
    PROVE  \A k \in Jobs : KeepsClaim(k)
<1>0. job \in [Jobs -> Row] /\ job[j] \in Row
  BY DEF TypeOK
<1>1. \A k \in Jobs \ {j} : job'[k] = job[k]
  BY <1>0
<1>2. \/ job'[j] = job[j]
      \/ job'[j] = [job[j] EXCEPT !.status = s]
      \/ job'[j] = Released(job[j], s)
      \/ job'[j] = [Released(job[j], s) EXCEPT !.due = FALSE]
      \/ job'[j] = [job[j] EXCEPT !.live = FALSE]
      \/ job'[j] = [job[j] EXCEPT !.due = TRUE]
  BY <1>0
<1>3. KeepsClaim(j)
  BY <1>0, <1>2 DEF KeepsClaim, Released, Row
<1> QED BY <1>1, <1>3 DEF KeepsClaim

\* A slot that moves on keeps its job and attempt.
LEMMA SlotKept ==
    ASSUME NEW t \in Slots, Busy(t), MovesOn(t) \/ Opened(t)
    PROVE  \A u \in Slots : KeepsJob(u)
BY DEF MovesOn, Opened, KeepsJob, Busy, Idle

\* Only claim_next_job starts an attempt or hands a row to a worker.
LEMMA ClaimOrKeep ==
    ASSUME TypeInv, [Next]_vars
    PROVE  \/ \E t \in Slots, j \in Jobs : Claim(t, j)
           \/ (\A j \in Jobs : KeepsClaim(j)) /\ \A t \in Slots : KeepsJob(t)
<1>0. TypeOK /\ job \in [Jobs -> Row] /\ exec \in [Slots -> Execution]
  BY DEF TypeInv, TypeOK
<1>1. CASE UNCHANGED vars
  BY <1>1 DEF vars, KeepsClaim, KeepsJob
<1>2. ASSUME NEW j \in Jobs,
             \/ Submit(j) \/ Insert(j) \/ Cancel(j) \/ RequestAudit(j) \/ RequestDies(j)
             \/ LeaseExpires(j) \/ BackoffElapses(j)
             \/ \E d \in {"approved", "rejected"} : Decide(j, d)
      PROVE  (\A k \in Jobs : KeepsClaim(k)) /\ \A t \in Slots : KeepsJob(t)
  <2>1. {"submitted", "cancelled", "approved", "rejected"} \subseteq Statuses
    BY DEF Statuses, TerminalStatuses
  <2>2. \E s \in Statuses : \/ job' = job
                            \/ job' = [job EXCEPT ![j].status = s]
                            \/ job' = [job EXCEPT ![j] = Released(@, s)]
                            \/ job' = [job EXCEPT ![j].live = FALSE]
                            \/ job' = [job EXCEPT ![j].due = TRUE]
    BY <1>2, <2>1 DEF Submit, Insert, Cancel, RequestAudit, RequestDies, LeaseExpires,
                      BackoffElapses, Decide
  <2>3. \A k \in Jobs : KeepsClaim(k)
    BY <1>0, <2>2, RowKept
  <2> QED BY <1>2, <2>3 DEF KeepsJob, Submit, Insert, Cancel, RequestAudit, RequestDies,
                            LeaseExpires, BackoffElapses, Decide
<1>3. ASSUME NEW t \in Slots, NEW j \in Jobs, ClaimExhausted(t, j)
      PROVE  (\A k \in Jobs : KeepsClaim(k)) /\ \A u \in Slots : KeepsJob(u)
  <2>1. FailureOf(job[j].status) \in Statuses
    BY DEF FailureOf, Statuses, TerminalStatuses
  <2>2. \A k \in Jobs : KeepsClaim(k)
    BY <1>0, <1>3, <2>1, RowKept DEF ClaimExhausted, EndInFailure
  <2> QED BY <1>3, <2>2 DEF ClaimExhausted, KeepsJob
<1>4. ASSUME NEW t \in Slots, Step(t) \/ Fault(t) \/ RejectPayload(t) \/ Escape(t)
      PROVE  (\A j \in Jobs : KeepsClaim(j)) /\ \A u \in Slots : KeepsJob(u)
  <2>1. Busy(t) /\ (MovesOn(t) \/ Opened(t))
    BY <1>4, SlotMoves, OpenLemma DEF Step
  <2>2. PICK j \in Jobs : j = exec[t].job
    BY <2>1, JobLemma
  <2>3. \E s \in Statuses :
          \/ job' = job
          \/ job' = [job EXCEPT ![j] = Released(@, s)]
          \/ job' = [job EXCEPT ![j] = [Released(@, s) EXCEPT !.due = FALSE]]
    <3>1. /\ {"validation_failed", "approval_pending", "published", "absent"} \subseteq Statuses
          /\ job[j].status \in Statuses /\ FailureOf(job[j].status) \in Statuses
      BY <1>0 DEF Statuses, TerminalStatuses, FailureOf, Row
    <3>2. CASE CompleteValidation(t)
      BY <2>2, <3>1, <3>2 DEF CompleteValidation
    <3>3. CASE Publish(t)
      BY <2>2, <3>1, <3>3 DEF Publish
    <3>4. CASE FailJob(t)
      BY <2>2, <3>1, <3>4 DEF FailJob, EndInFailure
    <3> QED BY <1>4, <3>1, <3>2, <3>3, <3>4
            DEF Step, AuditOutcome, Announce, OpenPublication, ReportFailure, Fault,
                RejectPayload, Escape
  <2> QED BY <1>0, <2>1, <2>3, RowKept, SlotKept
<1>5. ASSUME NEW w \in Workers, Drain(w) \/ Crash(w)
      PROVE  (\A j \in Jobs : KeepsClaim(j)) /\ \A t \in Slots : KeepsJob(t)
  BY <1>5 DEF Drain, Crash, KeepsClaim, KeepsJob, Idle
<1> QED BY <1>1, <1>2, <1>3, <1>4, <1>5 DEF Next, Poll

\* A step that claims nothing keeps the newest attempt with its owner.
LEMMA KeepNewest ==
    ASSUME TypeInv, TypeInv', OwnerIsNewest,
           \A j \in Jobs : KeepsClaim(j), \A t \in Slots : KeepsJob(t)
    PROVE  OwnerIsNewest'
<1> SUFFICES ASSUME NEW t \in Slots, Busy(t)', job'[exec'[t].job].owner = WorkerOf[t]
             PROVE  exec'[t].attempt = job'[exec'[t].job].attempt
  BY DEF OwnerIsNewest
<1>1. PICK j \in Jobs : j = exec'[t].job
  BY DEF TypeInv, TypeOK, ExecutionOK, Execution, Busy
<1>2. exec[t].job = j /\ exec[t].attempt = exec'[t].attempt /\ Busy(t)
  BY <1>1 DEF KeepsJob, Busy
<1>3. job[j].owner = WorkerOf[t] /\ job'[j].attempt = job[j].attempt
  BY <1>1, ImportJobsAssumption DEF KeepsClaim
<1> QED BY <1>1, <1>2, <1>3 DEF OwnerIsNewest

\* A claim makes the claiming slot the only one of the owner.
LEMMA ClaimNewest ==
    ASSUME SingleSlot, TypeInv, TypeInv', OwnerIsNewest,
           NEW t \in Slots, NEW j \in Jobs, Claim(t, j)
    PROVE  OwnerIsNewest'
<1>0. Claimed(t, j)
  BY ClaimLemma
<1> SUFFICES ASSUME NEW u \in Slots, Busy(u)', job'[exec'[u].job].owner = WorkerOf[u]
             PROVE  exec'[u].attempt = job'[exec'[u].job].attempt
  BY DEF OwnerIsNewest
<1>1. CASE u = t
  BY <1>0, <1>1 DEF Claimed
<1>2. CASE u # t
  <2>1. PICK k \in Jobs : k = exec'[u].job
    BY DEF TypeInv, TypeOK, ExecutionOK, Execution, Busy
  <2>2. exec'[u] = exec[u] /\ Busy(u)
    BY <1>0, <1>2 DEF Claimed, Busy
  <2>3. k # j
    BY <1>0, <1>2, <2>1 DEF Claimed, SingleSlot
  <2>4. job'[k] = job[k]
    BY <1>0, <2>3 DEF Claimed
  <2> QED BY <2>1, <2>2, <2>4 DEF OwnerIsNewest
<1> QED BY <1>1, <1>2

\* With agent_worker_concurrency = 1 a slot writes only the attempt it claimed:
\* complete_validation, the publication and fail_job never settle or release
\* the work of a later attempt.
THEOREM HolderWrites == ASSUME SingleSlot PROVE Spec => OnlyTheHolderWrites
<1> DEFINE A == \A t \in Slots, j \in Jobs :
              /\ Busy(t) /\ exec[t].job = j
              /\ exec'[t] # exec[t] /\ job'[j] # job[j]
              => exec[t].attempt = job[j].attempt
<1>1. Init => OwnerIsNewest
  BY DEF Init, Idle, Busy, OwnerIsNewest
<1>2. SafeInv /\ SafeInv' /\ OwnerIsNewest /\ [Next]_vars => OwnerIsNewest'
  BY ClaimOrKeep, KeepNewest, ClaimNewest DEF SafeInv
<1>3. SafeInv /\ OwnerIsNewest /\ [Next]_vars => [A]_vars
  <2> SUFFICES ASSUME SafeInv, OwnerIsNewest, Next,
                      NEW t \in Slots, NEW j \in Jobs, Busy(t), exec[t].job = j,
                      exec'[t] # exec[t], job'[j] # job[j]
               PROVE  exec[t].attempt = job[j].attempt
    BY DEF vars
  <2>0. TypeInv /\ StateInv
    BY DEF SafeInv
  <2>1. ASSUME NEW u \in Slots, Step(u) \/ Fault(u) \/ RejectPayload(u) \/ Escape(u)
        PROVE  u = t
    BY <2>0, <2>1, SlotMoves, OpenLemma DEF Step, MovesOn, Opened
  <2>2. Step(t)
    <3>1. ASSUME NEW u \in Slots, NEW k \in Jobs, Claim(u, k) PROVE FALSE
      <4>1. u # t
        BY <3>1 DEF Claim, CanPoll
      <4>2. \A v \in Slots \ {u} : exec'[v] = exec[v]
        BY <2>0, <3>1, ClaimLemma DEF Claimed
      <4> QED BY <4>1, <4>2
    <3>2. ASSUME NEW u \in Slots, Fault(u) \/ RejectPayload(u) \/ Escape(u) PROVE FALSE
      BY <3>2 DEF Fault, RejectPayload, Escape
    <3>3. ASSUME NEW w \in Workers, Drain(w) \/ Crash(w) PROVE FALSE
      BY <3>3 DEF Drain, Crash
    <3>4. ASSUME NEW u \in Slots, NEW k \in Jobs, ClaimExhausted(u, k) PROVE FALSE
      BY <3>4 DEF ClaimExhausted
    <3>5. ASSUME NEW k \in Jobs,
                 \/ Submit(k) \/ Insert(k) \/ Cancel(k) \/ RequestAudit(k) \/ RequestDies(k)
                 \/ LeaseExpires(k) \/ BackoffElapses(k)
                 \/ \E d \in {"approved", "rejected"} : Decide(k, d)
          PROVE  FALSE
      BY <3>5 DEF Submit, Insert, Cancel, RequestAudit, RequestDies, LeaseExpires,
                  BackoffElapses, Decide
    <3> QED BY <2>1, <3>1, <3>2, <3>3, <3>4, <3>5 DEF Next, Poll
  <2>3. job[j].owner = WorkerOf[t]
    <3>1. CASE CompleteValidation(t)
      BY <3>1 DEF CompleteValidation, Leased
    <3>2. CASE FailJob(t)
      BY <3>2 DEF FailJob, Leased
    <3>3. CASE Publish(t)
      BY <2>0, <3>3 DEF Publish, StateInv, LockOK
    <3> QED BY <2>2, <3>1, <3>2, <3>3
            DEF Step, AuditOutcome, Announce, OpenPublication, ReportFailure
  <2> QED BY <2>3 DEF OwnerIsNewest
<1> QED BY <1>1, <1>2, <1>3, SafeInductive, PTL DEF Spec, OnlyTheHolderWrites
=============================================================================
