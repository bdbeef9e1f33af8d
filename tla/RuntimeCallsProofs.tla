-------------------------- MODULE RuntimeCallsProofs --------------------------
(***************************************************************************)
(* Safety of the calls of a run for every script of nodes and calls, every *)
(* budget and every number of overlapping attempts.                        *)
(*                                                                         *)
(* No write of a call is fenced on the lease, so that the argument rests   *)
(* on the call ids: the inductive invariant places every key that an event *)
(* was written under behind the execution of its attempt (Behind), which   *)
(* makes the key of a call about to be reserved a new one.  A failed or    *)
(* late call leaves its attempt in a state that reaches no further call    *)
(* (Sunk).                                                                 *)
(***************************************************************************)
EXTENDS RuntimeCalls, FiniteSetTheorems, TLAPS

\* An execution that calls is at a call of its script and has seen no error; one
\* whose tokens are counted has succeeded; and only claimed attempts execute.
ExecutionOK == \A a \in Attempts :
    /\ exec[a].pc \in Calling => /\ exec[a].i \in 1..Len(Script[exec[a].node])
                                 /\ exec[a].error = "none"
    /\ exec[a].pc = "tokens" => exec[a].outcome = "none"
    /\ exec[a].pc # "idle" => a <= row.attempt

\* The execution of an attempt has passed the call with this key.
Behind(key) == LET e == exec[key.attempt] IN
    /\ e.pc \notin {"idle", "load"}
    /\ e.pc = "boundary" => key.node <= e.done
    /\ e.pc = "node" => key.node <= e.node
    /\ e.pc \in Calling =>
          \/ key.node < e.node
          \/ /\ key.node = e.node
             /\ key.ordinal <= e.ordinals[key.kind]
             /\ e.pc = "reserve" /\ key.kind = Kind(key.attempt) =>
                   key.ordinal < e.ordinals[key.kind]

KeysBehind == /\ \A key \in started : Behind(key)
              /\ \A f \in finished : Behind(f.key)

\* The start event of a call in progress, and of a refused one its absence.
StartedOnce == \A a \in Attempts :
    /\ exec[a].pc \in {"call", "tokens"} => Key(a) \in started
    /\ exec[a].pc = "finish" => (exec[a].outcome = "refused" <=> Key(a) \notin started)

\* What is counted is finite.
Counted == IsFiniteSet(started) /\ IsFiniteSet(ran)

\* An execution that has no call ahead of it.
Sunk(a) == \/ exec[a].pc \in {"fail", "gone", "drained", "mark", "finalize", "cancel"}
           \/ exec[a].pc \in {"node", "boundary"} /\ exec[a].error # "none"

\* A late call is the last one of its attempt.
LateIsLast == \A c \in late :
    /\ \/ Sunk(c.attempt)
       \/ exec[c.attempt].pc = "call" /\ (exec[c.attempt].lost \/ row.cancel)
       \/ exec[c.attempt].pc = "finish" /\ exec[c.attempt].outcome # "none"
    /\ \A d \in late : d.attempt = c.attempt => d = c

FailedIsLast == \A f \in finished : f.error # "none" =>
    /\ Sunk(f.key.attempt)
    /\ f.key.kind = "model" => exec[f.key.attempt].pc \in {"fail", "gone"}

IInv == /\ TypeOK /\ ExecutionOK
        /\ KeysBehind /\ StartedOnce /\ RefusalsAreFree
        /\ Counted /\ EveryChargeIsTold /\ BudgetHolds
        /\ FailedIsLast /\ LateIsLast

-----------------------------------------------------------------------------
(* Types *)

\* The constants of the script, and the executions that the code resets to.
LEMMA ScriptLemma ==
    /\ Final \in Nat \ {0} /\ Final \in Nodes /\ Script[Final] = <<>>
    /\ \A n \in Nodes : /\ n \in Nat \ {0} /\ n <= Final
                        /\ Script[n] \in Seq(Kinds)
                        /\ Len(Script[n]) \in Nat
                        /\ \A i \in 1..Len(Script[n]) : Script[n][i] \in Kinds
                        /\ Script[n] # <<>> => Len(Script[n]) >= 1
    /\ \A n \in Catching : n \in Nodes
<1>1. Len(Script) \in Nat \ {0}
  BY RuntimeCallsAssumption
<1>2. ASSUME NEW n \in Nodes
      PROVE  /\ n \in Nat \ {0} /\ n <= Final
             /\ Script[n] \in Seq(Kinds)
             /\ Len(Script[n]) \in Nat
             /\ \A i \in 1..Len(Script[n]) : Script[n][i] \in Kinds
             /\ Script[n] # <<>> => Len(Script[n]) >= 1
  <2>1. Script[n] \in Seq(Kinds)
    BY RuntimeCallsAssumption, <1>1 DEF Nodes
  <2> QED BY <2>1, <1>1 DEF Nodes, Final
<1> QED BY <1>1, <1>2, RuntimeCallsAssumption DEF Final, Nodes

LEMMA ResetLemma ==
    /\ Idle \in Execution /\ Gone \in Execution
    /\ \A c \in Causes : Raised(c) \in Execution
<1>1. Idle \in Execution
  BY ScriptLemma DEF Idle, Execution, Pcs, Causes, Nodes, Final
<1> QED BY <1>1 DEF Gone, Raised, Idle, Execution, Pcs

\* The kind and the key of the call that an execution is at.
LEMMA KeyLemma ==
    ASSUME TypeOK, ExecutionOK, NEW a \in Attempts, exec[a].pc \in Calling
    PROVE  /\ Kind(a) \in Kinds /\ Call(a) \in Calls /\ Key(a) \in Keys
           /\ exec[a].ordinals[Kind(a)] \in Nat
<1>1. exec[a] \in Execution /\ exec[a].i \in 1..Len(Script[exec[a].node])
  BY DEF TypeOK, ExecutionOK
<1>2. exec[a].node \in Nodes
  BY <1>1 DEF Execution
<1>3. Kind(a) \in Kinds
  BY <1>1, <1>2, ScriptLemma DEF Kind
<1>4. exec[a].ordinals[Kind(a)] \in Nat
  BY <1>1, <1>3 DEF Execution
<1> QED BY <1>1, <1>2, <1>3, <1>4 DEF Call, Calls, Key, Keys, Execution

\* What the actions change in an execution.
LEMMA MoveLemma ==
    ASSUME NEW e \in Execution
    PROVE  /\ [e EXCEPT !.lost = TRUE] \in Execution
           /\ \A pc \in Pcs :
                 /\ [e EXCEPT !.pc = pc] \in Execution
                 /\ \A c \in Causes : /\ [e EXCEPT !.pc = pc, !.outcome = c] \in Execution
                                      /\ [e EXCEPT !.outcome = c, !.pc = pc] \in Execution
                                      /\ [e EXCEPT !.pc = pc, !.error = c] \in Execution
                 /\ \A i \in Nat \ {0} : [e EXCEPT !.pc = pc, !.i = i] \in Execution
                 /\ \A o \in [Kinds -> Nat] :
                       /\ \A c \in Causes : [e EXCEPT !.ordinals = o, !.pc = pc,
                                                      !.outcome = c] \in Execution
                       /\ \A n \in Nodes, i \in Nat \ {0} :
                             [e EXCEPT !.node = n, !.i = i, !.ordinals = o,
                                       !.pc = pc] \in Execution
                 /\ \A d \in 0..Final, c \in Causes :
                       [e EXCEPT !.done = d, !.error = c, !.pc = pc] \in Execution
<1>1. ASSUME NEW pc \in Pcs
      PROVE  /\ [e EXCEPT !.pc = pc] \in Execution
             /\ \A c \in Causes : /\ [e EXCEPT !.pc = pc, !.outcome = c] \in Execution
                                  /\ [e EXCEPT !.outcome = c, !.pc = pc] \in Execution
                                  /\ [e EXCEPT !.pc = pc, !.error = c] \in Execution
             /\ \A i \in Nat \ {0} : [e EXCEPT !.pc = pc, !.i = i] \in Execution
  BY DEF Execution
<1>2. ASSUME NEW pc \in Pcs, NEW o \in [Kinds -> Nat], NEW c \in Causes
      PROVE  [e EXCEPT !.ordinals = o, !.pc = pc, !.outcome = c] \in Execution
  BY DEF Execution
<1>3. ASSUME NEW pc \in Pcs, NEW o \in [Kinds -> Nat], NEW n \in Nodes, NEW i \in Nat \ {0}
      PROVE  [e EXCEPT !.node = n, !.i = i, !.ordinals = o, !.pc = pc] \in Execution
  BY DEF Execution
<1>4. ASSUME NEW pc \in Pcs, NEW d \in 0..Final, NEW c \in Causes
      PROVE  [e EXCEPT !.done = d, !.error = c, !.pc = pc] \in Execution
  BY DEF Execution
<1>5. [e EXCEPT !.lost = TRUE] \in Execution
  BY DEF Execution
<1> QED BY <1>1, <1>2, <1>3, <1>4, <1>5

\* A step of an attempt changes no execution but its own, which stays one.
OwnStep(a) == Step(a) \/ Fault(a) \/ LoseLease(a)
Becomes(a, e) == e \in Execution /\ exec' = [exec EXCEPT ![a] = e]
LEMMA OwnStepLemma ==
    ASSUME TypeOK, ExecutionOK, NEW a \in Attempts, OwnStep(a)
    PROVE  \E e : Becomes(a, e)
<1>0. exec \in [Attempts -> Execution] /\ exec[a] \in Execution
  BY DEF TypeOK
<1>a. ASSUME NEW pc \in Pcs, Goto(a, pc) PROVE \E e : Becomes(a, e)
  <2>1. exec' = [exec EXCEPT ![a] = [exec[a] EXCEPT !.pc = pc]]
    BY <1>0, <1>a DEF Goto
  <2>2. [exec[a] EXCEPT !.pc = pc] \in Execution
    BY <1>0, ResetLemma, MoveLemma DEF Causes
  <2> QED BY <2>1, <2>2 DEF Becomes
<1>b. ASSUME NEW c \in Causes, Raise(a, c) PROVE \E e : Becomes(a, e)
  BY <1>b, ResetLemma DEF Raise, Becomes
<1>c. ASSUME Leave(a) PROVE \E e : Becomes(a, e)
  BY <1>c, ResetLemma DEF Leave, Becomes
<1>d. {"none", "transient", "permanent", "lease_lost", "run_timeout", "run_cancelled",
       "refused"} \subseteq Causes
  BY DEF Causes, Retryable
<1>e. ASSUME NEW c \in Causes PROVE Broken(exec[a], c, Caught(a)) \in Execution
  <2>1. [exec[a] EXCEPT !.pc = "node", !.error = c] \in Execution
    BY <1>0, <1>e, MoveLemma DEF Pcs
  <2> QED BY <1>e, <2>1, ResetLemma DEF Broken
<1>1. CASE Load(a)
  <2> DEFINE e == [exec[a] EXCEPT !.done = checkpoint.done, !.error = checkpoint.error,
                 !.pc = IF row.status = "finalizing" THEN "drained" ELSE "boundary"]
  <2>1. checkpoint.done \in 0..Final /\ checkpoint.error \in Causes
    BY DEF TypeOK, Checkpoint
  <2>2. e \in Execution
    BY <1>0, <2>1, MoveLemma DEF Pcs
  <2>3. exec' = [exec EXCEPT ![a] = e]
    BY <1>0, <1>1 DEF Load
  <2> QED BY <2>2, <2>3 DEF Becomes
<1>2. CASE Boundary(a)
  <2>1. ASSUME exec[a].done # Final
        PROVE  Entered(exec[a], NextNode(a)) \in Execution
    <3>1. NextNode(a) \in Nodes
      BY <1>0, <2>1, ScriptLemma DEF NextNode, Nodes, Final, Execution
    <3>2. [k \in Kinds |-> 0] \in [Kinds -> Nat] /\ 1 \in Nat \ {0}
      OBVIOUS
    <3> QED BY <1>0, <3>1, <3>2, MoveLemma DEF Entered, Pcs
  <2>2. CASE exec[a].done # Final /\ exec' = [exec EXCEPT ![a] = Entered(@, NextNode(a))]
    BY <1>0, <2>1, <2>2 DEF Becomes
  <2> QED BY <1>2, <2>2, <1>a, <1>b, <1>d DEF Boundary, Pcs
<1>3. CASE EndNode(a)
  <2> DEFINE New(c) == [Idle EXCEPT !.pc = "boundary", !.done = exec[a].node, !.error = c,
                                    !.lost = exec[a].lost]
  <2>1. PICK c \in Causes : exec' = [exec EXCEPT ![a] = New(c)]
    BY <1>0, <1>3, <1>d DEF EndNode, Execution
  <2>2. exec[a].node \in 0..Final /\ exec[a].lost \in BOOLEAN
    <3>1. exec[a].node \in Nodes /\ exec[a].lost \in BOOLEAN
      BY <1>0 DEF Execution
    <3>2. Nodes = 1..Final /\ Final \in Nat
      BY ScriptLemma DEF Nodes, Final
    <3> QED BY <3>1, <3>2
  <2>3. New(c) \in Execution
    BY <2>2, ResetLemma DEF Execution, Pcs
  <2> QED BY <2>1, <2>3 DEF Becomes
<1>4. CASE Control(a)
  <2>1. Kind(a) \in Kinds /\ exec[a].ordinals[Kind(a)] \in Nat
    BY <1>4, KeyLemma DEF Control, At, Calling
  <2>2. CheckControl(a) \subseteq Causes
    BY <1>d DEF CheckControl
  <2>3. CASE \E c \in CheckControl(a) \ {"none"} : Break(a, c)
    BY <1>0, <1>e, <2>2, <2>3 DEF Break, Becomes
  <2>4. ASSUME NEW next \in {[pc |-> "reserve", outcome |-> "none"],
                             [pc |-> "finish", outcome |-> "refused"]},
               exec' = [exec EXCEPT ![a].ordinals[Kind(a)] = @ + 1,
                                    ![a].pc = next.pc, ![a].outcome = next.outcome]
        PROVE  \E e : Becomes(a, e)
    <3> DEFINE o == [exec[a].ordinals EXCEPT ![Kind(a)] = @ + 1]
               e == [exec[a] EXCEPT !.ordinals = o, !.pc = next.pc, !.outcome = next.outcome]
    <3>0. next.pc \in Pcs /\ next.outcome \in Causes
      BY <1>d DEF Pcs
    <3>1. o \in [Kinds -> Nat]
      BY <1>0, <2>1 DEF Execution
    <3>2. e \in Execution
      BY <1>0, <1>d, <3>1, <3>0, MoveLemma
    <3>3. exec' = [exec EXCEPT ![a] = e]
      BY <1>0, <2>4 DEF Execution
    <3> QED BY <3>2, <3>3 DEF Becomes
  <2> QED BY <1>4, <2>3, <2>4 DEF Control

<1>5. CASE Reserve(a)
  <2> DEFINE e == [exec[a] EXCEPT !.pc = "call"]
             f == [exec[a] EXCEPT !.pc = "finish", !.outcome = "refused"]
  <2>1. e \in Execution /\ f \in Execution
    BY <1>0, <1>d, MoveLemma DEF Pcs
  <2>2. CASE exec' = [exec EXCEPT ![a] = e]
    BY <2>1, <2>2 DEF Becomes
  <2>3. CASE exec' = [exec EXCEPT ![a].pc = "finish", ![a].outcome = "refused"]
    <3>1. exec' = [exec EXCEPT ![a] = f]
      BY <1>0, <2>3
    <3> QED BY <2>1, <3>1 DEF Becomes
  <2> QED BY <1>5, <1>b, <1>d, <2>2, <2>3 DEF Reserve, Written
<1>6. CASE Answer(a)
  <2>1. Answers(a) \subseteq Causes
    BY <1>d DEF Answers, CheckControl
  <2>2. PICK o \in Answers(a), pc \in {"tokens", "finish"} :
           exec' = [exec EXCEPT ![a].outcome = o, ![a].pc = pc]
    BY <1>6 DEF Answer
  <2>3. [exec[a] EXCEPT !.outcome = o, !.pc = pc] \in Execution
    BY <1>0, <2>1, MoveLemma DEF Pcs
  <2>4. exec' = [exec EXCEPT ![a] = [exec[a] EXCEPT !.outcome = o, !.pc = pc]]
    BY <1>0, <2>2
  <2> QED BY <2>3, <2>4 DEF Becomes
<1>7. CASE RecordUsage(a)
  <2> DEFINE e == [exec[a] EXCEPT !.pc = "finish", !.outcome = "permanent"]
  <2>1. e \in Execution
    BY <1>0, <1>d, MoveLemma DEF Pcs
  <2>2. CASE exec' = [exec EXCEPT ![a].pc = "finish", ![a].outcome = "permanent"]
    <3>1. exec' = [exec EXCEPT ![a] = e]
      BY <1>0, <2>2
    <3> QED BY <2>1, <3>1 DEF Becomes
  <2> QED BY <1>7, <1>a, <2>2 DEF RecordUsage, Pcs
<1>8. CASE Finish(a)
  <2>1. exec[a].outcome \in Causes /\ exec[a].i + 1 \in Nat \ {0}
    BY <1>0 DEF Execution
  <2>2. Continued(a) \in Execution
    BY <1>0, <1>e, <2>1, MoveLemma DEF Continued, Pcs
  <2> QED BY <1>8, <1>b, <1>d, <2>2 DEF Finish, Written, Becomes
<1>9. CASE Drained(a) \/ Fault(a) \/ HandleFailure(a)
  BY <1>9, <1>a, <1>b, <1>c, <1>d DEF Drained, Fault, HandleFailure, Pcs
<1>10. CASE LoseLease(a)
  <2>1. [exec[a] EXCEPT !.lost = TRUE] \in Execution
    BY <1>0, MoveLemma
  <2>2. exec' = [exec EXCEPT ![a] = [exec[a] EXCEPT !.lost = TRUE]]
    BY <1>0, <1>10 DEF LoseLease
  <2> QED BY <2>1, <2>2 DEF Becomes
<1>11. CASE MarkCancelled(a) \/ MarkFinalizing(a) \/ Finalize(a)
  <2>1. [exec[a] EXCEPT !.pc = "finalize"] \in Execution
    BY <1>0, MoveLemma DEF Pcs
  <2> QED BY <1>11, <1>b, <1>c, <1>d, <2>1, ResetLemma
          DEF MarkCancelled, MarkFinalizing, Finalize, Written, Becomes, Leave
<1> QED BY <1>1, <1>2, <1>3, <1>4, <1>5, <1>6, <1>7, <1>8, <1>9, <1>10, <1>11
        DEF OwnStep, Step

\* Rows stay rows.
LEMMA RowLemma ==
    ASSUME TypeOK, Next
    PROVE  row' \in Row /\ row'.attempt >= row.attempt /\ (row.cancel => row'.cancel)
<1>0. row \in Row
  BY DEF TypeOK
<1>1. /\ MaxAttempts \in Nat
      /\ \A s \in ActiveStatuses \cup TerminalStatuses :
            /\ Settled(s) \in Row
            /\ Settled(s).attempt = row.attempt /\ Settled(s).cancel = row.cancel
  <2>1. MaxAttempts \in Nat /\ 0 \in 0..MaxAttempts
    BY RuntimeCallsAssumption
  <2>2. ASSUME NEW s \in ActiveStatuses \cup TerminalStatuses
        PROVE  /\ Settled(s) \in Row
               /\ Settled(s).attempt = row.attempt /\ Settled(s).cancel = row.cancel
    BY <1>0, <2>1 DEF Settled, Row, NoOwner
  <2> QED BY <2>1, <2>2
<1>s. {"cancelled", "failed", "succeeded", "running", "finalizing", "retry_wait"}
         \subseteq ActiveStatuses \cup TerminalStatuses
  BY DEF ActiveStatuses, TerminalStatuses
<1>2. CASE ClaimSettles
  BY <1>0, <1>1, <1>s, <1>2 DEF ClaimSettles, Row
<1>3. CASE Cancel
  <2>1. [Settled("cancelled") EXCEPT !.cancel = TRUE] \in Row
    BY <1>1, <1>s DEF Row
  <2>2. [row EXCEPT !.cancel = TRUE] \in Row
    BY <1>0 DEF Row
  <2>3. [Settled("cancelled") EXCEPT !.cancel = TRUE].attempt = row.attempt
    BY <1>1, <1>s DEF Row
  <2> QED BY <1>0, <1>3, <2>1, <2>2, <2>3 DEF Cancel, Row
<1>4. ASSUME NEW a \in Attempts, Claim(a)
      PROVE  row' \in Row /\ row'.attempt = row.attempt + 1 /\ row'.cancel = row.cancel
  <2> DEFINE s == IF row.status = "finalizing" THEN row.status ELSE "running"
  <2>1. row' = [row EXCEPT !.attempt = a, !.owner = a, !.status = s]
    BY <1>4 DEF Claim
  <2>2. s \in ActiveStatuses \cup TerminalStatuses
    BY <1>s
  <2>3. a \in 0..MaxAttempts /\ a = row.attempt + 1
    BY <1>1, <1>4 DEF Claim, Attempts
  <2> HIDE DEF s
  <2> QED BY <1>0, <2>1, <2>2, <2>3 DEF Row
<1>5. ASSUME NEW a \in Attempts, Step(a) \/ Fault(a) \/ LoseLease(a)
      PROVE  row' \in Row /\ row'.attempt = row.attempt /\ row'.cancel = row.cancel
  <2>1. CASE MarkCancelled(a)
    BY <1>0, <1>1, <1>s, <2>1 DEF MarkCancelled
  <2>2. CASE MarkFinalizing(a)
    BY <1>0, <1>s, <2>2 DEF MarkFinalizing, Row
  <2>3. CASE Finalize(a)
    <3>1. exec[a].error \in Causes
      BY DEF TypeOK, Execution
    <3>2. LET r == [Settled("succeeded") EXCEPT !.answer = exec[a].error] IN
             r \in Row /\ r.attempt = row.attempt /\ r.cancel = row.cancel
      BY <1>1, <1>s, <3>1 DEF Row
    <3> QED BY <1>0, <2>3, <3>2 DEF Finalize
  <2>4. CASE HandleFailure(a)
    <3> DEFINE s == IF row.status = "running" THEN "retry_wait" ELSE row.status
    <3>1. s \in ActiveStatuses \cup TerminalStatuses
      BY <1>0, <1>s DEF Row
    <3>2. NoOwner \in 0..MaxAttempts
      BY <1>1 DEF NoOwner
    <3>3. row' \in {row, Settled("failed"), [row EXCEPT !.owner = NoOwner, !.status = s]}
      BY <2>4 DEF HandleFailure
    <3> HIDE DEF s
    <3>4. LET r == [row EXCEPT !.owner = NoOwner, !.status = s] IN
             r \in Row /\ r.attempt = row.attempt /\ r.cancel = row.cancel
      BY <1>0, <3>1, <3>2 DEF Row
    <3> QED BY <1>0, <1>1, <1>s, <3>3, <3>4
  <2>5. CASE UNCHANGED row
    BY <1>0, <2>5
  <2> QED BY <1>5, <2>1, <2>2, <2>3, <2>4, <2>5
          DEF Step, Load, Boundary, EndNode, Drained, Control, Reserve, Answer, RecordUsage,
              Finish, Fault, LoseLease
<1> QED BY <1>0, <1>2, <1>3, <1>4, <1>5 DEF Next, Row

\* The execution of a claimed attempt begins, the others do as they did.
LEMMA ClaimLemma ==
    ASSUME TypeOK, NEW a \in Attempts, Claim(a)
    PROVE  Becomes(a, [Idle EXCEPT !.pc = "load"])
BY ResetLemma DEF Claim, Becomes, TypeOK, Execution, Idle, Pcs

\* Executions stay executions.
LEMMA ExecLemma ==
    ASSUME TypeOK, ExecutionOK, Next
    PROVE  exec' \in [Attempts -> Execution]
<1>0. exec \in [Attempts -> Execution]
  BY DEF TypeOK
<1>1. ASSUME NEW a \in Attempts, Claim(a) \/ OwnStep(a)
      PROVE  exec' \in [Attempts -> Execution]
  BY <1>0, <1>1, OwnStepLemma, ClaimLemma DEF Becomes
<1>2. CASE Cancel \/ ClaimSettles
  BY <1>0, <1>2 DEF Cancel, ClaimSettles
<1> QED BY <1>1, <1>2 DEF Next, OwnStep

\* So do the budget, the checkpoint, the events and the calls.
LEMMA DataLemma ==
    ASSUME TypeOK, ExecutionOK, Next
    PROVE  /\ usage' \in Usage /\ checkpoint' \in Checkpoint
           /\ started' \subseteq Keys /\ ran' \subseteq Calls /\ late' \subseteq Calls
           /\ finished' \subseteq [key: Keys, error: {"none", "refused", "failed"}]
<1>0. /\ usage \in Usage /\ checkpoint \in Checkpoint
      /\ started \subseteq Keys /\ ran \subseteq Calls /\ late \subseteq Calls
      /\ finished \subseteq [key: Keys, error: {"none", "refused", "failed"}]
  BY DEF TypeOK
<1>1. \A k \in Kinds : Charged(k) \in Usage
  BY <1>0 DEF Charged, Usage, Kinds
<1>2. TokensAdded(usage) \in Usage
  BY <1>0 DEF TokensAdded, Usage
<1>3. ASSUME NEW a \in Attempts, Reserve(a)
      PROVE  /\ usage' \in Usage /\ started' \subseteq Keys
             /\ ran' \subseteq Calls /\ late' \subseteq Calls
  <2>1. Kind(a) \in Kinds /\ Key(a) \in Keys /\ Call(a) \in Calls
    BY <1>3, KeyLemma DEF Reserve, At, Calling
  <2>2. usage' \in {usage, Charged(Kind(a))} /\ started' \in {started, started \cup {Key(a)}}
    BY <1>3 DEF Reserve
  <2>3. ran' \in {ran, ran \cup {Call(a)}} /\ late' \in {late, late \cup {Call(a)}}
    BY <1>3 DEF Reserve
  <2> QED BY <1>0, <1>1, <2>1, <2>2, <2>3
<1>4. ASSUME NEW a \in Attempts, Finish(a)
      PROVE  finished' \subseteq [key: Keys, error: {"none", "refused", "failed"}]
  <2>1. Key(a) \in Keys
    BY <1>4, KeyLemma DEF Finish, At, Calling
  <2>2. Told(exec[a].outcome) \in {"none", "refused", "failed"}
    BY DEF Told
  <2> QED BY <1>0, <1>4, <2>1, <2>2 DEF Finish
<1>5. ASSUME NEW a \in Attempts, EndNode(a) PROVE checkpoint' \in Checkpoint
  <2>1. exec[a].node \in 0..Final /\ exec[a].error \in Causes /\ "permanent" \in Causes
    BY ScriptLemma DEF TypeOK, Execution, Causes
  <2> QED BY <1>5, <2>1 DEF EndNode, Checkpoint
<1>6. ASSUME NEW a \in Attempts, Step(a) \/ Fault(a) \/ LoseLease(a) \/ Claim(a)
      PROVE  /\ usage' \in Usage /\ checkpoint' \in Checkpoint
             /\ started' \subseteq Keys /\ ran' \subseteq Calls /\ late' \subseteq Calls
             /\ finished' \subseteq [key: Keys, error: {"none", "refused", "failed"}]
  <2>1. CASE Reserve(a) \/ Finish(a) \/ EndNode(a)
    BY <1>0, <1>3, <1>4, <1>5, <2>1 DEF Reserve, Finish, EndNode
  <2>2. CASE RecordUsage(a)
    BY <1>0, <1>2, <2>2 DEF RecordUsage
  <2>3. CASE UNCHANGED <<usage, checkpoint, started, finished, ran, late>>
    BY <1>0, <2>3
  <2> QED BY <1>6, <2>1, <2>2, <2>3
          DEF Step, Load, Boundary, Drained, Control, Answer, MarkCancelled, MarkFinalizing,
              Finalize, HandleFailure, Fault, LoseLease, Claim
<1> QED BY <1>0, <1>6 DEF Next, Cancel, ClaimSettles

-----------------------------------------------------------------------------
(* Executions and the keys behind them *)

\* A step of one attempt leaves the executions of the others alone.
LEMMA OthersLemma ==
    ASSUME TypeOK, ExecutionOK, NEW a \in Attempts, OwnStep(a) \/ Claim(a),
           NEW b \in Attempts, b # a
    PROVE  exec'[b] = exec[b]
BY OwnStepLemma, ClaimLemma DEF Becomes, TypeOK

\* What every step does to the fields that say where an execution is: it stays
\* in its node, leaves it, or enters the next one.
LEMMA WhereLemma ==
    ASSUME TypeOK, ExecutionOK, NEW a \in Attempts
    PROVE  LET e == exec[a]
               n == exec'[a] IN
      /\ Load(a) => e.pc = "load" /\ n.pc \in {"drained", "boundary"}
      /\ Boundary(a) => /\ e.pc = "boundary"
                        /\ \/ n.pc \in {"fail", "cancel", "drained"}
                           \/ /\ n.pc \in {"node", "control"} /\ n.node > e.done
                              /\ n.error = e.error
                              /\ n.i = 1 /\ n.node \in Nodes
                              /\ n.pc = "control" => /\ e.error = "none"
                                                     /\ Script[n.node] # <<>>
      /\ EndNode(a) => /\ e.pc = "node" /\ n.pc = "boundary" /\ n.done = e.node
                       /\ e.error # "none" => n.error = e.error
<1>0. exec \in [Attempts -> Execution] /\ exec[a] \in Execution
  BY DEF TypeOK
<1>1. ASSUME Load(a) PROVE exec[a].pc = "load" /\ exec'[a].pc \in {"drained", "boundary"}
  BY <1>0, <1>1 DEF Load, At, Execution
<1>2. ASSUME Boundary(a)
      PROVE /\ exec[a].pc = "boundary"
            /\ \/ exec'[a].pc \in {"fail", "cancel", "drained"}
               \/ /\ exec'[a].pc \in {"node", "control"} /\ exec'[a].node > exec[a].done
                  /\ exec'[a].error = exec[a].error
                  /\ exec'[a].i = 1 /\ exec'[a].node \in Nodes
                  /\ exec'[a].pc = "control" => /\ exec[a].error = "none"
                                                /\ Script[exec'[a].node] # <<>>
  <2>1. CASE exec[a].done # Final /\ exec' = [exec EXCEPT ![a] = Entered(@, NextNode(a))]
    <3> DEFINE n == NextNode(a)
    <3>1. n \in Nodes /\ n > exec[a].done
      BY <1>0, <2>1, ScriptLemma DEF NextNode, Nodes, Final, Execution
    <3>2. exec[a].error # "none" => Script[n] = <<>>
      BY ScriptLemma DEF NextNode
    <3>3. exec'[a] = Entered(exec[a], n)
      BY <1>0, <2>1
    <3>4. /\ exec'[a].node = n /\ exec'[a].i = 1 /\ exec'[a].error = exec[a].error
          /\ exec'[a].pc = IF Script[n] = <<>> THEN "node" ELSE "control"
      BY <1>0, <3>3 DEF Entered, Execution
    <3> QED BY <1>2, <3>1, <3>2, <3>4 DEF Boundary, At
  <2>2. ASSUME NEW c \in Causes, Raise(a, c) PROVE exec'[a].pc = "fail"
    BY <1>0, <2>2 DEF Raise, Raised, Idle, Execution
  <2>3. ASSUME NEW pc \in Pcs, Goto(a, pc) PROVE exec'[a].pc = pc
    BY <1>0, <2>3 DEF Goto, Execution
  <2> QED BY <1>2, <2>1, <2>2, <2>3 DEF Boundary, At, Causes, Retryable, Pcs
<1>3. ASSUME EndNode(a)
      PROVE  /\ exec[a].pc = "node" /\ exec'[a].pc = "boundary"
             /\ exec'[a].done = exec[a].node
             /\ exec[a].error # "none" => exec'[a].error = exec[a].error
  <2>1. PICK c : /\ exec[a].error # "none" => c = exec[a].error
                 /\ exec' = [exec EXCEPT ![a] = [Idle EXCEPT
                       !.pc = "boundary", !.done = exec[a].node, !.error = c,
                       !.lost = exec[a].lost]]
    BY <1>3 DEF EndNode
  <2> QED BY <1>0, <1>3, <2>1 DEF EndNode, At, Idle, Execution
<1> QED BY <1>1, <1>2, <1>3

\* The same of the steps of a call: it stays the same call until it is finished.
SameCall(a) == LET e == exec[a]
                   n == exec'[a] IN
    n.node = e.node /\ n.i = e.i /\ n.error = e.error /\ n.lost = e.lost
Ended(a) == LET n == exec'[a] IN
    \/ n.pc = "fail"
    \/ n.pc = "node" /\ n.node = exec[a].node /\ n.error # "none" /\ Kind(a) = "tool"

LEMMA BrokenLemma ==
    ASSUME TypeOK, NEW a \in Attempts, NEW c \in Causes, c # "none",
           exec' = [exec EXCEPT ![a] = Broken(@, c, Caught(a))]
    PROVE  Ended(a)
<1>0. exec \in [Attempts -> Execution] /\ exec[a] \in Execution
  BY DEF TypeOK
<1>1. CASE Caught(a)
  <2>1. exec'[a] = [exec[a] EXCEPT !.pc = "node", !.error = c]
    BY <1>0, <1>1 DEF Broken
  <2> QED BY <1>0, <1>1, <2>1 DEF Ended, Caught, Execution
<1>2. CASE ~Caught(a)
  <2>1. exec'[a] = Raised(c)
    BY <1>0, <1>2 DEF Broken
  <2>2. exec'[a].pc = "fail"
    BY <1>0, <1>2 DEF Broken, Raised, Idle
  <2> QED BY <2>2 DEF Ended
<1> QED BY <1>1, <1>2

LEMMA ControlLemma ==
    ASSUME TypeOK, ExecutionOK, NEW a \in Attempts, Control(a)
    PROVE  LET e == exec[a]
               n == exec'[a] IN
      /\ e.pc = "control"
      /\ \/ Ended(a)
         \/ /\ SameCall(a) /\ ~e.lost /\ ~row.cancel
            /\ n.ordinals = [e.ordinals EXCEPT ![Kind(a)] = @ + 1]
            /\ \/ n.pc = "reserve"
               \/ n.pc = "finish" /\ n.outcome = "refused"
<1>0. exec \in [Attempts -> Execution] /\ exec[a] \in Execution
  BY DEF TypeOK
<1>1. exec[a].pc = "control"
  BY DEF Control, At
<1>2. ASSUME NEW c \in CheckControl(a) \ {"none"}, Break(a, c) PROVE Ended(a)
  <2>1. c \in Causes /\ c # "none"
    BY DEF CheckControl, Causes, Retryable
  <2> QED BY <1>2, <2>1, BrokenLemma DEF Break
<1>3. ASSUME "none" \in CheckControl(a),
             NEW next \in {[pc |-> "reserve", outcome |-> "none"],
                           [pc |-> "finish", outcome |-> "refused"]},
             exec' = [exec EXCEPT ![a].ordinals[Kind(a)] = @ + 1,
                                  ![a].pc = next.pc, ![a].outcome = next.outcome]
      PROVE  /\ SameCall(a) /\ ~exec[a].lost /\ ~row.cancel
             /\ exec'[a].ordinals = [exec[a].ordinals EXCEPT ![Kind(a)] = @ + 1]
             /\ \/ exec'[a].pc = "reserve"
                \/ exec'[a].pc = "finish" /\ exec'[a].outcome = "refused"
  <2>1. ~exec[a].lost /\ ~row.cancel
    BY <1>3 DEF CheckControl
  <2>2. exec'[a] = [exec[a] EXCEPT !.ordinals = [exec[a].ordinals EXCEPT ![Kind(a)] = @ + 1],
                                   !.pc = next.pc, !.outcome = next.outcome]
    BY <1>0, <1>3 DEF Execution
  <2> QED BY <1>0, <2>1, <2>2 DEF SameCall, Execution
<1> QED BY <1>1, <1>2, <1>3 DEF Control

LEMMA ReserveLemma ==
    ASSUME TypeOK, ExecutionOK, NEW a \in Attempts, Reserve(a)
    PROVE  LET e == exec[a]
               n == exec'[a] IN
      /\ e.pc = "reserve"
      /\ \/ n.pc = "fail" /\ started' = started \cup {Key(a)}
         \/ /\ SameCall(a) /\ n.ordinals = e.ordinals
            /\ \/ n.pc = "call" /\ started' = started \cup {Key(a)}
               \/ n.pc = "finish" /\ n.outcome = "refused"
                  /\ Key(a) \notin started /\ started' = started
      /\ n.pc # "call" => ran' = ran /\ late' = late
<1>0. exec \in [Attempts -> Execution] /\ exec[a] \in Execution
  BY DEF TypeOK
<1>1. CASE /\ exec' = [exec EXCEPT ![a] = [exec[a] EXCEPT !.pc = "call"]]
           /\ started' = started \cup {Key(a)}
  <2>1. exec'[a] = [exec[a] EXCEPT !.pc = "call"]
    BY <1>0, <1>1
  <2> QED BY <1>0, <1>1, <2>1 DEF Reserve, At, SameCall, Execution
<1>2. CASE Raise(a, "transient") /\ started' = started \cup {Key(a)}
  <2>1. exec'[a].pc = "fail"
    BY <1>0, <1>2 DEF Raise, Raised, Idle
  <2> QED BY <1>2, <2>1 DEF Reserve, At
<1>3. CASE /\ exec' = [exec EXCEPT ![a].pc = "finish", ![a].outcome = "refused"]
           /\ Key(a) \notin started /\ started' = started
  <2>1. exec'[a] = [exec[a] EXCEPT !.pc = "finish", !.outcome = "refused"]
    BY <1>0, <1>3
  <2> QED BY <1>0, <1>3, <2>1 DEF Reserve, At, SameCall, Execution
<1>4. Key(a) \in started => started = started \cup {Key(a)}
  OBVIOUS
<1> QED BY <1>1, <1>2, <1>3, <1>4 DEF Reserve, Written

LEMMA AnswerLemma ==
    ASSUME TypeOK, ExecutionOK, NEW a \in Attempts, Answer(a)
    PROVE  LET e == exec[a]
               n == exec'[a] IN
      /\ e.pc = "call" /\ SameCall(a) /\ n.ordinals = e.ordinals
      /\ n.outcome # "refused"
      /\ n.pc = "tokens" => n.outcome = "none"
      /\ n.pc \in {"tokens", "finish"}
      /\ e.lost \/ row.cancel => n.outcome # "none"
<1>0. exec \in [Attempts -> Execution] /\ exec[a] \in Execution
  BY DEF TypeOK
<1>1. PICK o \in Answers(a) :
         exec' = [exec EXCEPT ![a].outcome = o,
                    ![a].pc = IF o = "none" /\ Kind(a) = "model" THEN "tokens" ELSE "finish"]
  BY DEF Answer
<1>2. o # "refused" /\ (exec[a].lost \/ row.cancel => o # "none")
  BY DEF Answers, CheckControl
<1>3. exec'[a] = [exec[a] EXCEPT !.outcome = o,
         !.pc = IF o = "none" /\ Kind(a) = "model" THEN "tokens" ELSE "finish"]
  BY <1>0, <1>1
<1> QED BY <1>0, <1>2, <1>3 DEF Answer, At, SameCall, Execution

LEMMA RecordUsageLemma ==
    ASSUME TypeOK, ExecutionOK, NEW a \in Attempts, RecordUsage(a)
    PROVE  LET e == exec[a]
               n == exec'[a] IN
      /\ e.pc = "tokens" /\ SameCall(a) /\ n.ordinals = e.ordinals
      /\ n.pc = "finish" /\ n.outcome # "refused"
<1>0. exec \in [Attempts -> Execution] /\ exec[a] \in Execution
  BY DEF TypeOK
<1>1. exec[a].pc = "tokens" /\ exec[a].outcome = "none"
  BY DEF RecordUsage, At, ExecutionOK
<1>2. CASE Goto(a, "finish")
  <2>1. exec'[a] = [exec[a] EXCEPT !.pc = "finish"]
    BY <1>0, <1>2 DEF Goto
  <2> QED BY <1>0, <1>1, <2>1 DEF SameCall, Execution
<1>3. CASE exec' = [exec EXCEPT ![a].pc = "finish", ![a].outcome = "permanent"]
  <2>1. exec'[a] = [exec[a] EXCEPT !.pc = "finish", !.outcome = "permanent"]
    BY <1>0, <1>3
  <2> QED BY <1>0, <1>1, <2>1 DEF SameCall, Execution
<1> QED BY <1>2, <1>3 DEF RecordUsage

LEMMA FinishLemma ==
    ASSUME TypeOK, ExecutionOK, NEW a \in Attempts, Finish(a)
    PROVE  LET e == exec[a]
               n == exec'[a] IN
      /\ e.pc = "finish"
      /\ \/ e.outcome # "none" /\ Ended(a)
         \/ n.pc = "fail"
         \/ /\ e.outcome = "none" /\ n.node = e.node /\ n.error = e.error
            /\ n.ordinals = e.ordinals
            /\ \/ n.pc = "node"
               \/ n.pc = "control" /\ n.i \in 1..Len(Script[n.node])
<1>0. exec \in [Attempts -> Execution] /\ exec[a] \in Execution
  BY DEF TypeOK
<1>1. exec[a].pc = "finish" /\ exec[a].i \in 1..Len(Script[exec[a].node])
  BY DEF Finish, At, ExecutionOK, Calling
<1>2. CASE Raise(a, "transient")
  BY <1>0, <1>1, <1>2 DEF Raise, Raised, Idle
<1>3. CASE exec' = [exec EXCEPT ![a] = Continued(a)] /\ exec[a].outcome # "none"
  <2>1. exec' = [exec EXCEPT ![a] = Broken(@, exec[a].outcome, Caught(a))]
    BY <1>0, <1>3 DEF Continued
  <2> QED BY <1>0, <1>1, <1>3, <2>1, BrokenLemma DEF Execution
<1>4. CASE exec' = [exec EXCEPT ![a] = Continued(a)] /\ exec[a].outcome = "none"
  <2>1. CASE exec[a].i < Len(Script[exec[a].node])
    <3>1. exec'[a] = [exec[a] EXCEPT !.pc = "control", !.i = @ + 1]
      BY <1>0, <1>4, <2>1 DEF Continued
    <3>2. exec[a].i + 1 \in 1..Len(Script[exec[a].node])
      <4>1. exec[a].node \in Nodes
        BY <1>0 DEF Execution
      <4>2. Len(Script[exec[a].node]) \in Nat
        BY <4>1, ScriptLemma
      <4> QED BY <1>1, <2>1, <4>2
    <3> QED BY <1>0, <1>1, <1>4, <3>1, <3>2 DEF Execution
  <2>2. CASE ~(exec[a].i < Len(Script[exec[a].node]))
    <3>1. exec'[a] = [exec[a] EXCEPT !.pc = "node"]
      BY <1>0, <1>4, <2>2 DEF Continued
    <3> QED BY <1>0, <1>1, <1>4, <3>1 DEF Execution
  <2> QED BY <2>1, <2>2
<1> QED BY <1>2, <1>3, <1>4 DEF Finish, Written

\* The rest of the steps of an attempt, but for the loss of its lease, end it.
LEMMA RestLemma ==
    ASSUME TypeOK, ExecutionOK, NEW a \in Attempts
    PROVE  /\ LoseLease(a) => exec'[a] = [exec[a] EXCEPT !.lost = TRUE]
           /\ Drained(a) \/ MarkCancelled(a) \/ MarkFinalizing(a) \/ Finalize(a)
              \/ HandleFailure(a) \/ Fault(a)
                => /\ exec'[a].pc \in {"fail", "gone", "cancel", "mark", "finalize"}
                   /\ exec[a].pc # "idle"
                   /\ exec[a].pc \in {"fail", "gone"} => exec'[a].pc \in {"fail", "gone"}
<1>0. exec \in [Attempts -> Execution] /\ exec[a] \in Execution
  BY DEF TypeOK
<1>1. \A pc \in Pcs : Goto(a, pc) => exec'[a].pc = pc
  BY <1>0 DEF Goto, Execution
<1>2. \A c \in Causes : Raise(a, c) => exec'[a].pc = "fail"
  BY <1>0 DEF Raise, Raised, Idle
<1>3. Leave(a) => exec'[a].pc = "gone"
  BY <1>0 DEF Leave, Gone, Idle
<1>4. exec' = [exec EXCEPT ![a] = Gone] => exec'[a].pc = "gone"
  BY <1>0 DEF Gone, Idle
<1>5. exec' = [exec EXCEPT ![a] = [exec[a] EXCEPT !.pc = "finalize"]]
         => exec'[a].pc = "finalize"
  BY <1>0 DEF Execution
<1>6. LoseLease(a) => exec'[a] = [exec[a] EXCEPT !.lost = TRUE]
  BY <1>0 DEF LoseLease
<1> QED BY <1>1, <1>2, <1>3, <1>4, <1>5, <1>6
        DEF Drained, MarkCancelled, MarkFinalizing, Finalize, HandleFailure, Fault, Written,
            At, Busy, Pcs, Causes, Retryable

-----------------------------------------------------------------------------
(* The parts of the invariant *)

\* An execution goes on being at a call of its script, and of a claimed attempt.
LEMMA ExecutionOKLemma ==
    ASSUME TypeOK, ExecutionOK, Next
    PROVE  ExecutionOK'
<1> DEFINE OK(b) == /\ exec[b].pc \in Calling => /\ exec[b].i \in 1..Len(Script[exec[b].node])
                                                /\ exec[b].error = "none"
                    /\ exec[b].pc = "tokens" => exec[b].outcome = "none"
<1>0. row.attempt \in Nat /\ row'.attempt \in Nat /\ row'.attempt >= row.attempt
  BY RowLemma, RuntimeCallsAssumption DEF TypeOK, Row
<1>1. ASSUME NEW a \in Attempts, OwnStep(a)
      PROVE  OK(a)' /\ exec[a].pc # "idle"
  <2>0. OK(a)
    BY DEF ExecutionOK
  <2>1. CASE Boundary(a)
    <3>1. ASSUME exec'[a].pc = "control"
          PROVE  exec'[a].i \in 1..Len(Script[exec'[a].node]) /\ exec'[a].error = "none"
      BY <2>1, <3>1, WhereLemma, ScriptLemma
    <3>2. exec'[a].pc \in Calling => exec'[a].pc = "control"
      BY <2>1, WhereLemma DEF Calling
    <3> QED BY <2>1, <3>1, <3>2, WhereLemma DEF Calling
  <2>2. CASE Load(a) \/ EndNode(a)
    BY <2>2, WhereLemma DEF Calling
  <2>3. CASE Control(a)
    BY <2>0, <2>3, ControlLemma DEF Calling, SameCall, Ended
  <2>4. CASE Reserve(a)
    BY <2>0, <2>4, ReserveLemma DEF Calling, SameCall
  <2>5. CASE Answer(a)
    BY <2>0, <2>5, AnswerLemma DEF Calling, SameCall
  <2>6. CASE RecordUsage(a)
    BY <2>0, <2>6, RecordUsageLemma DEF Calling, SameCall
  <2>7. CASE Finish(a)
    BY <2>0, <2>7, FinishLemma DEF Calling, Ended
  <2>8. CASE LoseLease(a)
    <3>1. exec[a] \in Execution
      BY DEF TypeOK
    <3> QED BY <2>0, <2>8, <3>1, RestLemma DEF LoseLease, Busy, Execution
  <2>9. CASE Drained(a) \/ MarkCancelled(a) \/ MarkFinalizing(a) \/ Finalize(a)
             \/ HandleFailure(a) \/ Fault(a)
    BY <2>9, RestLemma DEF Calling
  <2> QED BY <1>1, <2>1, <2>2, <2>3, <2>4, <2>5, <2>6, <2>7, <2>8, <2>9 DEF OwnStep, Step
<1>2. ASSUME NEW a \in Attempts, Claim(a) PROVE OK(a)' /\ a <= row'.attempt
  <2>1. exec'[a] = [Idle EXCEPT !.pc = "load"]
    BY <1>2, ClaimLemma DEF Becomes, TypeOK
  <2>2. exec'[a].pc = "load"
    BY <2>1 DEF Idle
  <2>3. row'.attempt = a
    BY <1>2 DEF Claim, TypeOK, Row
  <2> QED BY <2>2, <2>3 DEF Calling, Attempts
<1>3. ASSUME NEW a \in Attempts, OwnStep(a) \/ Claim(a), NEW b \in Attempts
      PROVE  OK(b)' /\ (exec'[b].pc # "idle" => b <= row'.attempt)
  <2>1. CASE b = a
    BY <1>0, <1>1, <1>2, <1>3, <2>1 DEF ExecutionOK, Attempts
  <2>2. CASE b # a
    BY <1>0, <1>3, <2>2, OthersLemma DEF ExecutionOK, Attempts
  <2> QED BY <2>1, <2>2
<1>4. CASE Cancel \/ ClaimSettles
  BY <1>0, <1>4 DEF Cancel, ClaimSettles, ExecutionOK, Attempts
<1>5. CASE \E a \in Attempts : OwnStep(a) \/ Claim(a)
  BY <1>3, <1>5 DEF ExecutionOK
<1> QED BY <1>4, <1>5 DEF Next, OwnStep

\* What is behind an execution stays behind it.
LEMMA BehindLemma ==
    ASSUME TypeOK, ExecutionOK, NEW a \in Attempts, OwnStep(a),
           NEW key \in Keys, key.attempt = a, Behind(key)
    PROVE  Behind(key)'
<1>0. /\ exec[a] \in Execution /\ exec'[a] \in Execution
      /\ key.node \in Nat /\ key.ordinal \in Nat /\ key.kind \in Kinds
      /\ exec[a].node \in Nat /\ exec[a].ordinals[key.kind] \in Nat
      /\ exec'[a].node \in Nat /\ exec'[a].ordinals[key.kind] \in Nat
      /\ exec[a].done \in Nat
  <2>1. PICK e : Becomes(a, e)
    BY OwnStepLemma
  <2>2. exec[a] \in Execution /\ exec'[a] \in Execution
    BY <2>1 DEF TypeOK, Becomes
  <2>3. key.node \in Nat /\ key.ordinal \in Nat /\ key.kind \in Kinds
    BY ScriptLemma DEF Keys
  <2>4. ASSUME NEW x \in Execution
        PROVE  x.node \in Nat /\ x.done \in Nat /\ x.ordinals[key.kind] \in Nat
    <3>1. x.node \in Nodes /\ x.done \in 0..Final /\ x.ordinals \in [Kinds -> Nat]
      BY DEF Execution
    <3>2. Final \in Nat /\ \A n \in Nodes : n \in Nat
      BY ScriptLemma
    <3>3. x.done \in Nat
      BY <3>1, <3>2
    <3> QED BY <2>3, <3>1, <3>2, <3>3
  <2> QED BY <2>2, <2>3, <2>4
<1>1. CASE Load(a)
  BY <1>1, WhereLemma DEF Behind, Calling
<1>2. CASE Boundary(a) \/ EndNode(a)
  BY <1>0, <1>2, WhereLemma DEF Behind, Calling
<1>3. CASE Control(a)
  <2>1. Kind(a) \in Kinds /\ exec[a].ordinals[Kind(a)] \in Nat
    BY <1>3, KeyLemma DEF Control, At, Calling
  <2>2. CASE Ended(a)
    <3>1. exec[a].pc = "control" /\ key.node <= exec[a].node
      BY <1>0, <1>3 DEF Control, At, Behind, Calling
    <3> QED BY <2>2, <3>1 DEF Behind, Calling, Ended
  <2>3. CASE /\ SameCall(a)
             /\ exec'[a].ordinals = [exec[a].ordinals EXCEPT ![Kind(a)] = @ + 1]
             /\ exec'[a].pc \in {"reserve", "finish"}
    <3>1. Kind(a)' = Kind(a)
      BY <2>3 DEF SameCall, Kind
    <3>2. /\ exec'[a].ordinals[key.kind] >= exec[a].ordinals[key.kind]
          /\ key.kind = Kind(a) => exec'[a].ordinals[key.kind] > exec[a].ordinals[key.kind]
      BY <1>0, <2>1, <2>3 DEF Execution
    <3> QED BY <1>0, <1>3, <2>3, <3>1, <3>2, ControlLemma DEF Behind, Calling, SameCall
  <2> QED BY <1>3, <2>2, <2>3, ControlLemma
<1>4. CASE Reserve(a)
  BY <1>0, <1>4, ReserveLemma DEF Behind, Calling, SameCall
<1>5. CASE Answer(a)
  BY <1>0, <1>5, AnswerLemma DEF Behind, Calling, SameCall
<1>6. CASE RecordUsage(a)
  BY <1>0, <1>6, RecordUsageLemma DEF Behind, Calling, SameCall
<1>7. CASE Finish(a)
  BY <1>0, <1>7, FinishLemma DEF Behind, Calling, Ended
<1>8. CASE LoseLease(a)
  <2>1. exec'[a] = [exec[a] EXCEPT !.lost = TRUE]
    BY <1>8, RestLemma
  <2>2. Kind(a)' = Kind(a)
    BY <1>0, <2>1 DEF Kind, Execution
  <2> QED BY <1>0, <2>1, <2>2 DEF Behind, Execution
<1>9. CASE Drained(a) \/ MarkCancelled(a) \/ MarkFinalizing(a) \/ Finalize(a)
           \/ HandleFailure(a) \/ Fault(a)
  BY <1>9, RestLemma DEF Behind, Calling
<1> QED BY <1>1, <1>2, <1>3, <1>4, <1>5, <1>6, <1>7, <1>8, <1>9 DEF OwnStep, Step

\* A call about to be reserved has a key that no event was written under.
LEMMA FreshLemma ==
    ASSUME TypeOK, ExecutionOK, KeysBehind, NEW a \in Attempts, exec[a].pc = "reserve"
    PROVE  Key(a) \notin started /\ \A f \in finished : f.key # Key(a)
<1>1. Key(a).attempt = a /\ Key(a).node = exec[a].node /\ Key(a).kind = Kind(a)
      /\ Key(a).ordinal = exec[a].ordinals[Kind(a)]
  BY DEF Key
<1>2. exec[a].node \in Nat /\ exec[a].ordinals[Kind(a)] \in Nat
  BY KeyLemma, ScriptLemma DEF Calling, TypeOK, Execution
<1>3. ~Behind(Key(a))
  BY <1>1, <1>2 DEF Behind, Calling
<1> QED BY <1>3 DEF KeysBehind

\* Events are written of the call an execution is at, so that it passes them.
LEMMA KeysBehindLemma ==
    ASSUME TypeOK, ExecutionOK, KeysBehind, Next
    PROVE  KeysBehind'
<1> DEFINE Known == started \cup {f.key : f \in finished}
<1>0. Known \subseteq Keys
  BY DEF TypeOK
<1>1. ASSUME NEW a \in Attempts, OwnStep(a) \/ Claim(a), NEW key \in Known
      PROVE  Behind(key)'
  <2>0. Behind(key) /\ key \in Keys /\ key.attempt \in Attempts
    BY <1>0, <1>1 DEF KeysBehind, Keys
  <2>1. CASE key.attempt # a
    <3>1. exec'[key.attempt] = exec[key.attempt]
      BY <1>1, <2>0, <2>1, OthersLemma
    <3> QED BY <2>0, <3>1 DEF Behind, Kind
  <2>2. CASE key.attempt = a /\ OwnStep(a)
    BY <2>0, <2>2, BehindLemma
  <2>3. CASE key.attempt = a /\ Claim(a)
    <3>1. exec[a].pc # "idle" /\ a <= row.attempt
      BY <2>0, <2>3 DEF Behind, ExecutionOK
    <3> QED BY <2>3, <3>1 DEF Claim, TypeOK, Row, Attempts
  <2> QED BY <1>1, <2>1, <2>2, <2>3
<1>2. ASSUME NEW a \in Attempts, Reserve(a), NEW key \in started', key \notin started
      PROVE  Behind(key)'
  <2>1. exec[a].pc = "reserve" /\ exec[a].ordinals[Kind(a)] \in Nat
    BY <1>2, KeyLemma DEF Reserve, At, Calling
  <2>2. key = Key(a) /\ exec'[a].pc \in {"fail", "call"}
        /\ (exec'[a].pc = "call" => SameCall(a) /\ exec'[a].ordinals = exec[a].ordinals)
    BY <1>2, ReserveLemma
  <2>3. key.attempt = a /\ key.node = exec[a].node
        /\ key.kind = Kind(a) /\ key.ordinal = exec[a].ordinals[Kind(a)]
    BY <2>2 DEF Key
  <2> QED BY <2>1, <2>2, <2>3 DEF Behind, Calling, SameCall
<1>3. ASSUME NEW a \in Attempts, Finish(a), NEW f \in finished', f \notin finished
      PROVE  Behind(f.key)'
  <2>1. exec[a].ordinals[Kind(a)] \in Nat /\ exec[a].node \in Nat
    BY <1>3, KeyLemma, ScriptLemma DEF Finish, At, Calling, TypeOK, Execution
  <2>2. f.key = Key(a)
    BY <1>3 DEF Finish
  <2>3. f.key.attempt = a /\ f.key.node = exec[a].node
        /\ f.key.kind = Kind(a) /\ f.key.ordinal = exec[a].ordinals[Kind(a)]
    BY <2>2 DEF Key
  <2>4. \/ exec'[a].pc \in {"fail", "node"} /\ (exec'[a].pc = "node" => exec'[a].node = exec[a].node)
        \/ /\ exec'[a].pc = "control" /\ exec'[a].node = exec[a].node
           /\ exec'[a].ordinals = exec[a].ordinals
    BY <1>3, FinishLemma DEF Ended
  <2> QED BY <2>1, <2>3, <2>4 DEF Behind, Calling
<1>4. \A f \in finished : Behind(f.key) /\ f.key \in Known
  BY DEF KeysBehind
<1>5. CASE UNCHANGED <<exec, started, finished>>
  BY <1>5 DEF KeysBehind, Behind, Kind
<1>6. ASSUME NEW a \in Attempts, OwnStep(a) \/ Claim(a) PROVE KeysBehind'
  <2>1. ASSUME NEW key \in started' PROVE Behind(key)'
    <3>1. CASE key \in started
      BY <1>1, <1>6, <3>1
    <3>2. CASE key \notin started
      <4>1. Reserve(a)
        BY <1>6, <2>1, <3>2
           DEF OwnStep, Step, Load, Boundary, EndNode, Control, Answer, RecordUsage, Finish,
               Drained, MarkCancelled, MarkFinalizing, Finalize, HandleFailure, Fault,
               LoseLease, Claim
      <4> QED BY <1>2, <2>1, <3>2, <4>1
    <3> QED BY <3>1, <3>2
  <2>2. ASSUME NEW f \in finished' PROVE Behind(f.key)'
    <3>1. CASE f \in finished
      BY <1>1, <1>4, <1>6, <3>1
    <3>2. CASE f \notin finished
      <4>1. Finish(a)
        BY <1>6, <2>2, <3>2
           DEF OwnStep, Step, Load, Boundary, EndNode, Control, Answer, RecordUsage, Reserve,
               Drained, MarkCancelled, MarkFinalizing, Finalize, HandleFailure, Fault,
               LoseLease, Claim
      <4> QED BY <1>3, <2>2, <3>2, <4>1
    <3> QED BY <3>1, <3>2
  <2> QED BY <2>1, <2>2 DEF KeysBehind
<1> QED BY <1>5, <1>6 DEF Next, OwnStep, Cancel, ClaimSettles

\* The variables that only reservations and finish events write.
LEMMA WritersLemma ==
    ASSUME Next
    PROVE  /\ started' # started \/ ran' # ran \/ late' # late
                 => \E a \in Attempts : Reserve(a)
           /\ finished' # finished => \E a \in Attempts : Finish(a)
           /\ usage' # usage => \E a \in Attempts : Reserve(a) \/ RecordUsage(a)
<1>1. CASE Cancel \/ ClaimSettles \/ \E a \in Attempts : Claim(a)
  BY <1>1 DEF Cancel, ClaimSettles, Claim
<1>2. ASSUME NEW a \in Attempts, OwnStep(a), ~Reserve(a), ~RecordUsage(a), ~Finish(a)
      PROVE  UNCHANGED <<started, ran, late, finished, usage>>
  BY <1>2 DEF OwnStep, Step, Load, Boundary, EndNode, Control, Answer, Drained, MarkCancelled,
              MarkFinalizing, Finalize, HandleFailure, Fault, LoseLease
<1>3. ASSUME NEW a \in Attempts, Reserve(a) PROVE finished' = finished
  BY <1>3 DEF Reserve
<1>4. ASSUME NEW a \in Attempts, RecordUsage(a)
      PROVE  UNCHANGED <<started, ran, late, finished>>
  BY <1>4 DEF RecordUsage
<1>5. ASSUME NEW a \in Attempts, Finish(a) PROVE UNCHANGED <<started, ran, late, usage>>
  BY <1>5 DEF Finish
<1> QED BY <1>1, <1>2, <1>3, <1>4, <1>5 DEF Next, OwnStep

\* A call in progress has its start event, a refused one never gets it.
LEMMA StartedOnceLemma ==
    ASSUME TypeOK, ExecutionOK, KeysBehind, StartedOnce, Next
    PROVE  StartedOnce'
<1> DEFINE Once(b) == /\ exec[b].pc \in {"call", "tokens"} => Key(b) \in started
                      /\ exec[b].pc = "finish" =>
                            (exec[b].outcome = "refused" <=> Key(b) \notin started)
<1>1. ASSUME NEW a \in Attempts, OwnStep(a) \/ Claim(a) PROVE Once(a)'
  <2>0. Once(a)
    BY DEF StartedOnce
  <2>1. CASE Control(a)
    <3>1. Kind(a) \in Kinds /\ exec[a].ordinals[Kind(a)] \in Nat /\ exec[a].node \in Nat
          /\ exec[a].ordinals \in [Kinds -> Nat]
      BY <2>1, KeyLemma, ScriptLemma DEF Control, At, Calling, TypeOK, Execution
    <3>2. started' = started
      BY <2>1 DEF Control
    <3>3. CASE Ended(a)
      BY <3>3 DEF Ended
    <3>4. CASE /\ SameCall(a)
               /\ exec'[a].ordinals = [exec[a].ordinals EXCEPT ![Kind(a)] = @ + 1]
               /\ \/ exec'[a].pc = "reserve"
                  \/ exec'[a].pc = "finish" /\ exec'[a].outcome = "refused"
      <4>1. Key(a)' = [attempt |-> a, node |-> exec[a].node, kind |-> Kind(a),
                       ordinal |-> exec[a].ordinals[Kind(a)] + 1]
        BY <3>1, <3>4 DEF SameCall, Key, Kind
      <4>2. ASSUME NEW key \in started, key = Key(a)' PROVE FALSE
        <5>1. Behind(key) /\ key.attempt = a /\ key.node = exec[a].node
              /\ key.kind = Kind(a) /\ key.ordinal = exec[a].ordinals[Kind(a)] + 1
          BY <4>1, <4>2 DEF KeysBehind
        <5> QED BY <2>1, <3>1, <5>1 DEF Behind, Calling, Control, At
      <4>3. Key(a)' \notin started'
        BY <3>2, <4>2
      <4> QED BY <3>4, <4>3
    <3> QED BY <2>1, <3>3, <3>4, ControlLemma
  <2>2. CASE Reserve(a)
    <3>1. SameCall(a) /\ exec'[a].ordinals = exec[a].ordinals => Key(a)' = Key(a)
      BY DEF SameCall, Key, Kind
    <3> QED BY <2>2, <3>1, ReserveLemma
  <2>3. CASE Answer(a) \/ RecordUsage(a)
    <3>1. SameCall(a) /\ exec'[a].ordinals = exec[a].ordinals
      BY <2>3, AnswerLemma, RecordUsageLemma
    <3>2. Key(a)' = Key(a)
      BY <3>1 DEF SameCall, Key, Kind
    <3>3. started' = started
      BY <2>3 DEF Answer, RecordUsage
    <3> QED BY <2>0, <2>3, <3>2, <3>3, AnswerLemma, RecordUsageLemma
  <2>4. CASE Finish(a)
    BY <2>4, FinishLemma DEF Ended
  <2>5. CASE Load(a) \/ Boundary(a) \/ EndNode(a)
    BY <2>5, WhereLemma
  <2>6. CASE LoseLease(a)
    <3>1. exec[a] \in Execution /\ exec'[a] = [exec[a] EXCEPT !.lost = TRUE]
      BY <2>6, RestLemma DEF TypeOK
    <3>2. /\ exec'[a].pc = exec[a].pc /\ exec'[a].node = exec[a].node
          /\ exec'[a].i = exec[a].i /\ exec'[a].ordinals = exec[a].ordinals
          /\ exec'[a].outcome = exec[a].outcome
      BY <3>1 DEF Execution
    <3>3. Key(a)' = Key(a) /\ started' = started
      BY <2>6, <3>2 DEF LoseLease, Key, Kind
    <3> QED BY <2>0, <3>2, <3>3
  <2>7. CASE Drained(a) \/ MarkCancelled(a) \/ MarkFinalizing(a) \/ Finalize(a)
             \/ HandleFailure(a) \/ Fault(a)
    BY <2>7, RestLemma
  <2>8. CASE Claim(a)
    <3>1. exec'[a].pc = "load"
      BY <2>8, ClaimLemma DEF Becomes, TypeOK, Idle
    <3> QED BY <3>1
  <2> QED BY <1>1, <2>1, <2>2, <2>3, <2>4, <2>5, <2>6, <2>7, <2>8 DEF OwnStep, Step
<1>2. ASSUME NEW a \in Attempts, OwnStep(a) \/ Claim(a), NEW b \in Attempts, b # a
      PROVE  Once(b)'
  <2>1. exec'[b] = exec[b]
    BY <1>2, OthersLemma
  <2>2. Key(b)' = Key(b) /\ Key(b).attempt = b /\ Key(a).attempt = a
    BY <2>1 DEF Key, Kind
  <2>3. started' = started \/ (Reserve(a) /\ started' = started \cup {Key(a)})
    BY <1>2, ReserveLemma
       DEF OwnStep, Step, Load, Boundary, EndNode, Control, Answer, RecordUsage, Finish,
           Drained, MarkCancelled, MarkFinalizing, Finalize, HandleFailure, Fault,
           LoseLease, Claim
  <2>4. Key(b) \in started' <=> Key(b) \in started
    BY <1>2, <2>2, <2>3
  <2> QED BY <2>1, <2>2, <2>4 DEF StartedOnce
<1>3. CASE UNCHANGED <<exec, started>>
  BY <1>3 DEF StartedOnce, Key, Kind
<1> QED BY <1>1, <1>2, <1>3 DEF Next, OwnStep, Cancel, ClaimSettles, StartedOnce

\* The finish events tell the refusals from what was charged.
LEMMA RefusalsLemma ==
    ASSUME TypeOK, ExecutionOK, KeysBehind, StartedOnce, RefusalsAreFree, Next
    PROVE  RefusalsAreFree'
<1>1. ASSUME NEW a \in Attempts, Reserve(a) PROVE RefusalsAreFree'
  <2>1. \A f \in finished : f.key # Key(a)
    BY <1>1, FreshLemma DEF Reserve, At
  <2>2. finished' = finished /\ started' \in {started, started \cup {Key(a)}}
    BY <1>1 DEF Reserve
  <2> QED BY <2>1, <2>2 DEF RefusalsAreFree
<1>2. ASSUME NEW a \in Attempts, Finish(a) PROVE RefusalsAreFree'
  <2>1. exec[a].outcome = "refused" <=> Key(a) \notin started
    BY <1>2 DEF Finish, At, StartedOnce
  <2>2. Told(exec[a].outcome) = "refused" <=> exec[a].outcome = "refused"
    BY DEF Told
  <2> QED BY <1>2, <2>1, <2>2 DEF Finish, RefusalsAreFree
<1>3. CASE UNCHANGED <<started, finished>>
  BY <1>3 DEF RefusalsAreFree
<1> QED BY <1>1, <1>2, <1>3, WritersLemma

\* A reservation charges the one call it lets run, and writes its start event.
LEMMA BudgetLemma ==
    ASSUME TypeOK, ExecutionOK, KeysBehind, Counted, EveryChargeIsTold, BudgetHolds, Next
    PROVE  Counted' /\ EveryChargeIsTold' /\ BudgetHolds'
<1>0. usage \in Usage /\ Limit \in [Kinds -> Nat]
  BY RuntimeCallsAssumption DEF TypeOK
<1>1. \A S, x : IsFiniteSet(S) =>
         /\ IsFiniteSet(S \cup {x})
         /\ Cardinality(S) \in Nat
         /\ Cardinality(S \cup {x}) \in {Cardinality(S), Cardinality(S) + 1}
         /\ x \notin S => Cardinality(S \cup {x}) = Cardinality(S) + 1
  BY FS_AddElement, FS_CardinalityType
<1>2. \A k \in Kinds : IsFiniteSet(OfKind(started, k)) /\ IsFiniteSet(OfKind(ran, k))
  BY FS_Subset DEF Counted, OfKind
<1>3. ASSUME NEW a \in Attempts, Reserve(a)
      PROVE  Counted' /\ EveryChargeIsTold' /\ BudgetHolds'
  <2>0. exec[a].pc = "reserve" /\ Kind(a) \in Kinds /\ Key(a) \notin started
    BY <1>3, KeyLemma, FreshLemma DEF Reserve, At, Calling
  <2>1. CASE Full(Kind(a))
    <3>1. usage' = usage /\ started' = started /\ exec' = [exec EXCEPT ![a].pc = "finish",
                                                            ![a].outcome = "refused"]
      BY <1>3, <2>0, <2>1 DEF Reserve
    <3>2. exec'[a].pc = "finish"
      BY <3>1 DEF TypeOK, Execution
    <3>3. ran' = ran
      BY <1>3, <3>2 DEF Reserve
    <3> QED BY <3>1, <3>3 DEF Counted, EveryChargeIsTold, BudgetHolds
  <2>2. CASE ~Full(Kind(a))
    <3>1. usage' = Charged(Kind(a)) /\ started' = started \cup {Key(a)}
          /\ ran' \in {ran, ran \cup {Call(a)}}
      BY <1>3, <2>0, <2>2 DEF Reserve
    <3>2. Counted'
      BY <1>1, <3>1 DEF Counted
    <3>3. \A k \in Kinds : /\ usage[k] \in Nat
                           /\ usage'[k] = IF k = Kind(a) THEN usage[k] + 1 ELSE usage[k]
      BY <1>0, <2>0, <3>1 DEF Charged, Usage, Kinds
    <3>4. Key(a).kind = Kind(a) /\ Call(a).kind = Kind(a)
      BY DEF Key, Call
    <3>5. ASSUME NEW k \in Kinds
          PROVE  /\ usage'[k] = Cardinality(OfKind(started, k)')
                 /\ Cardinality(OfKind(ran, k)') <= usage'[k]
                 /\ usage'[k] <= Limit[k]
      <4>1. /\ usage[k] = Cardinality(OfKind(started, k))
            /\ Cardinality(OfKind(ran, k)) <= usage[k]
            /\ usage[k] <= Limit[k]
        BY DEF EveryChargeIsTold, BudgetHolds
      <4>2. CASE k = Kind(a)
        <5>1. OfKind(started, k)' = OfKind(started, k) \cup {Key(a)}
              /\ Key(a) \notin OfKind(started, k)
          BY <2>0, <3>1, <3>4, <4>2 DEF OfKind
        <5>2. OfKind(ran, k)' \in {OfKind(ran, k), OfKind(ran, k) \cup {Call(a)}}
          BY <3>1, <3>4, <4>2 DEF OfKind
        <5>3. usage[k] < Limit[k]
          BY <1>0, <2>2, <3>3, <4>2 DEF Full
        <5>4. Cardinality(OfKind(started, k)') = Cardinality(OfKind(started, k)) + 1
          BY <1>1, <1>2, <5>1
        <5>5. Cardinality(OfKind(ran, k)')
                 \in {Cardinality(OfKind(ran, k)), Cardinality(OfKind(ran, k)) + 1}
              /\ Cardinality(OfKind(ran, k)) \in Nat
          BY <1>1, <1>2, <5>2
        <5>6. Limit[k] \in Nat /\ usage[k] \in Nat /\ usage'[k] = usage[k] + 1
          BY <1>0, <3>3, <4>2
        <5> HIDE DEF OfKind
        <5> QED BY <4>1, <5>3, <5>4, <5>5, <5>6
      <4>3. CASE k # Kind(a)
        <5>1. OfKind(started, k)' = OfKind(started, k) /\ OfKind(ran, k)' = OfKind(ran, k)
          BY <3>1, <3>4, <4>3 DEF OfKind
        <5> QED BY <3>3, <4>1, <4>3, <5>1
      <4> QED BY <4>2, <4>3
    <3> QED BY <3>2, <3>5 DEF EveryChargeIsTold, BudgetHolds
  <2> QED BY <2>1, <2>2
<1>4. ASSUME NEW a \in Attempts, RecordUsage(a)
      PROVE  Counted' /\ EveryChargeIsTold' /\ BudgetHolds'
  <2>1. \A k \in Kinds : usage'[k] = usage[k]
    BY <1>0, <1>4 DEF RecordUsage, TokensAdded, Usage, Kinds
  <2>2. started' = started /\ ran' = ran
    BY <1>4 DEF RecordUsage
  <2> QED BY <2>1, <2>2 DEF Counted, EveryChargeIsTold, BudgetHolds, OfKind
<1>5. CASE UNCHANGED <<usage, started, ran>>
  BY <1>5 DEF Counted, EveryChargeIsTold, BudgetHolds, OfKind
<1> QED BY <1>3, <1>4, <1>5, WritersLemma

\* No step leads an execution back from where it has no call ahead of it.
LEMMA SunkLemma ==
    ASSUME TypeOK, ExecutionOK, NEW a \in Attempts, OwnStep(a) \/ Claim(a), Sunk(a)
    PROVE  /\ Sunk(a)'
           /\ exec[a].pc \in {"fail", "gone"} => exec'[a].pc \in {"fail", "gone"}
<1>1. exec[a].pc \in {"fail", "gone", "drained", "mark", "finalize", "cancel", "node",
                      "boundary"}
  BY DEF Sunk
<1>2. CASE Boundary(a) \/ EndNode(a)
  BY <1>2, WhereLemma DEF Sunk
<1>3. CASE LoseLease(a)
  <2>1. exec[a] \in Execution /\ exec'[a] = [exec[a] EXCEPT !.lost = TRUE]
    BY <1>3, RestLemma DEF TypeOK
  <2>2. exec'[a].pc = exec[a].pc /\ exec'[a].error = exec[a].error
    BY <2>1 DEF Execution
  <2> QED BY <2>2 DEF Sunk
<1>4. CASE Drained(a) \/ MarkCancelled(a) \/ MarkFinalizing(a) \/ Finalize(a)
           \/ HandleFailure(a) \/ Fault(a)
  BY <1>4, RestLemma DEF Sunk
<1>5. ~Claim(a)
  BY <1>1 DEF Claim, TypeOK, Row, ExecutionOK, Attempts
<1>6. ~(Load(a) \/ Control(a) \/ Reserve(a) \/ Answer(a) \/ RecordUsage(a) \/ Finish(a))
  BY <1>1 DEF Load, Control, Reserve, Answer, RecordUsage, Finish, At
<1> QED BY <1>2, <1>3, <1>4, <1>5, <1>6 DEF OwnStep, Step

\* A failed call is the last one, and after a failed model call no node follows.
LEMMA FailedIsLastLemma ==
    ASSUME TypeOK, ExecutionOK, FailedIsLast, Next
    PROVE  FailedIsLast'
<1> DEFINE Last(f) == f.error # "none" =>
              /\ Sunk(f.key.attempt)
              /\ f.key.kind = "model" => exec[f.key.attempt].pc \in {"fail", "gone"}
<1>0. \A f \in finished : Last(f) /\ f.key.attempt \in Attempts
  BY DEF FailedIsLast, TypeOK, Keys
<1>1. ASSUME NEW a \in Attempts, OwnStep(a) \/ Claim(a), NEW f \in finished PROVE Last(f)'
  <2>1. CASE f.key.attempt # a
    <3>1. exec'[f.key.attempt] = exec[f.key.attempt]
      BY <1>0, <1>1, <2>1, OthersLemma
    <3> QED BY <1>0, <3>1 DEF Sunk
  <2>2. CASE f.key.attempt = a
    BY <1>0, <1>1, <2>2, SunkLemma
  <2> QED BY <2>1, <2>2
<1>2. ASSUME NEW a \in Attempts, Finish(a), NEW f \in finished', f \notin finished
      PROVE  Last(f)'
  <2>1. f = [key |-> Key(a), error |-> Told(exec[a].outcome)]
    BY <1>2 DEF Finish
  <2>2. f.key.attempt = a /\ f.key.kind = Kind(a)
    BY <2>1 DEF Key
  <2>3. f.error # "none" => exec[a].outcome # "none"
    BY <2>1 DEF Told
  <2> QED BY <1>2, <2>2, <2>3, FinishLemma DEF Ended, Sunk
<1>3. CASE UNCHANGED <<exec, finished>>
  BY <1>3 DEF FailedIsLast, Sunk
<1>4. ASSUME NEW a \in Attempts, OwnStep(a) \/ Claim(a) PROVE FailedIsLast'
  <2>1. ASSUME NEW f \in finished', f \notin finished PROVE Last(f)'
    <3>1. Finish(a)
      BY <1>4, <2>1
         DEF OwnStep, Step, Load, Boundary, EndNode, Control, Answer, RecordUsage, Reserve,
             Drained, MarkCancelled, MarkFinalizing, Finalize, HandleFailure, Fault,
             LoseLease, Claim
    <3> QED BY <1>2, <2>1, <3>1
  <2> QED BY <1>1, <1>4, <2>1 DEF FailedIsLast
<1> QED BY <1>3, <1>4 DEF Next, OwnStep, Cancel, ClaimSettles

\* A late call is the last one: the check_control after it fails, and none follows.
LEMMA LateIsLastLemma ==
    ASSUME TypeOK, ExecutionOK, LateIsLast, Next
    PROVE  LateIsLast'
<1> DEFINE Late(a) == \/ Sunk(a)
                      \/ exec[a].pc = "call" /\ (exec[a].lost \/ row.cancel)
                      \/ exec[a].pc = "finish" /\ exec[a].outcome # "none"
<1>0. \A c \in late : Late(c.attempt) /\ c.attempt \in Attempts
  BY DEF LateIsLast, TypeOK, Calls
<1>1. row.cancel => row'.cancel
  BY RowLemma
<1>2. ASSUME NEW a \in Attempts, OwnStep(a) \/ Claim(a), Late(a) PROVE Late(a)'
  <2>1. CASE Sunk(a)
    BY <1>2, <2>1, SunkLemma
  <2>2. CASE exec[a].pc \in {"call", "finish"} /\ ~Sunk(a)
    <3>1. CASE Answer(a)
      BY <1>2, <2>2, <3>1, AnswerLemma
    <3>2. CASE Finish(a)
      BY <1>2, <2>2, <3>2, FinishLemma DEF Ended, Sunk
    <3>3. CASE LoseLease(a)
      <4>1. exec[a] \in Execution /\ exec'[a] = [exec[a] EXCEPT !.lost = TRUE]
        BY <3>3, RestLemma DEF TypeOK
      <4>2. exec'[a].pc = exec[a].pc /\ exec'[a].outcome = exec[a].outcome /\ exec'[a].lost
        BY <4>1 DEF Execution
      <4> QED BY <1>2, <2>2, <4>2
    <3>4. CASE Drained(a) \/ MarkCancelled(a) \/ MarkFinalizing(a) \/ Finalize(a)
               \/ HandleFailure(a) \/ Fault(a)
      BY <3>4, RestLemma DEF Sunk
    <3>5. ~Claim(a)
      BY <2>2 DEF Claim, TypeOK, Row, ExecutionOK, Attempts
    <3>6. ~(Load(a) \/ Boundary(a) \/ EndNode(a) \/ Control(a) \/ Reserve(a) \/ RecordUsage(a))
      BY <2>2 DEF Load, Boundary, EndNode, Control, Reserve, RecordUsage, At
    <3> QED BY <1>2, <3>1, <3>2, <3>3, <3>4, <3>5, <3>6 DEF OwnStep, Step
  <2> QED BY <1>2, <2>1, <2>2
<1>3. ASSUME NEW a \in Attempts, OwnStep(a) \/ Claim(a), NEW c \in late
      PROVE  Late(c.attempt)'
  <2>1. CASE c.attempt # a
    <3>1. exec'[c.attempt] = exec[c.attempt]
      BY <1>0, <1>3, <2>1, OthersLemma
    <3> QED BY <1>0, <1>1, <3>1 DEF Sunk
  <2>2. CASE c.attempt = a
    BY <1>0, <1>2, <1>3, <2>2
  <2> QED BY <2>1, <2>2
<1>4. ASSUME NEW a \in Attempts, Reserve(a), late' # late
      PROVE  /\ late' = late \cup {Call(a)} /\ Late(a)'
             /\ \A c \in late : c.attempt # a
  <2>1. exec[a].pc = "reserve" /\ ~Late(a)
    BY <1>4 DEF Reserve, At, Sunk
  <2>2. late' = late \cup {Call(a)} /\ exec'[a].pc = "call" /\ (exec[a].lost \/ row.cancel)
    BY <1>4 DEF Reserve
  <2>3. exec'[a].lost = exec[a].lost
    BY <1>4, <2>2, ReserveLemma DEF SameCall
  <2> QED BY <1>0, <1>1, <2>1, <2>2, <2>3
<1>5. ASSUME NEW a \in Attempts, OwnStep(a) \/ Claim(a) PROVE LateIsLast'
  <2>1. CASE late' = late
    BY <1>3, <1>5, <2>1 DEF LateIsLast
  <2>2. CASE late' # late
    <3>1. Reserve(a)
      BY <1>5, <2>2
         DEF OwnStep, Step, Load, Boundary, EndNode, Control, Answer, RecordUsage, Finish,
             Drained, MarkCancelled, MarkFinalizing, Finalize, HandleFailure, Fault,
             LoseLease, Claim
    <3>2. \A d \in late' : d.attempt = a => d = Call(a)
      BY <1>4, <2>2, <3>1
    <3>3. Call(a).attempt = a
      BY DEF Call
    <3>4. ASSUME NEW c \in late'
          PROVE  Late(c.attempt)' /\ \A d \in late' : d.attempt = c.attempt => d = c
      <4>1. CASE c \in late
        BY <1>3, <1>4, <1>5, <2>2, <3>1, <3>3, <4>1 DEF LateIsLast
      <4>2. CASE c \notin late
        <5>1. c = Call(a) /\ c.attempt = a
          BY <1>4, <2>2, <3>1, <3>3, <3>4, <4>2
        <5> QED BY <1>4, <2>2, <3>1, <3>2, <5>1
      <4> QED BY <4>1, <4>2
    <3> QED BY <3>4 DEF LateIsLast
  <2> QED BY <2>1, <2>2
<1>6. CASE Cancel \/ ClaimSettles
  <2>1. exec' = exec /\ late' = late
    BY <1>6 DEF Cancel, ClaimSettles
  <2> QED BY <1>1, <2>1 DEF LateIsLast, Sunk
<1> QED BY <1>5, <1>6 DEF Next, OwnStep

-----------------------------------------------------------------------------
(* The theorems *)

\* The invariant holds at first, and every step keeps it.
LEMMA InitIInv == Init => IInv
<1> SUFFICES ASSUME Init PROVE IInv
  OBVIOUS
<1>1. MaxAttempts \in Nat /\ 0 \in 0..MaxAttempts /\ 0 \in 0..Final
  BY RuntimeCallsAssumption, ScriptLemma
<1>2. row \in Row /\ checkpoint \in Checkpoint /\ usage \in Usage
  BY <1>1 DEF Init, Row, NoOwner, ActiveStatuses, Causes, Checkpoint, Usage, NoUsage
<1>3. TypeOK
  BY <1>2, ResetLemma DEF Init, TypeOK
<1>4. \A a \in Attempts : exec[a].pc = "idle"
  BY DEF Init, Idle
<1>5. ExecutionOK /\ StartedOnce
  BY <1>4 DEF ExecutionOK, StartedOnce, Calling
<1>6. KeysBehind /\ RefusalsAreFree /\ FailedIsLast /\ LateIsLast
  BY DEF Init, KeysBehind, RefusalsAreFree, FailedIsLast, LateIsLast
<1>7. \A k \in Kinds : OfKind(started, k) = {} /\ OfKind(ran, k) = {} /\ usage[k] = 0
  BY DEF Init, OfKind, NoUsage, Kinds
<1>8. Cardinality({}) = 0 /\ IsFiniteSet({})
  BY FS_EmptySet
<1>9. Counted /\ EveryChargeIsTold /\ BudgetHolds
  <2>1. \A k \in Kinds : Limit[k] \in Nat
    BY RuntimeCallsAssumption
  <2>2. started = {} /\ ran = {}
    BY DEF Init
  <2>3. Counted
    BY <1>8, <2>2 DEF Counted
  <2>4. \A k \in Kinds : Cardinality(OfKind(started, k)) = 0 /\ Cardinality(OfKind(ran, k)) = 0
    BY <1>7, <1>8
  <2> QED BY <1>7, <2>1, <2>3, <2>4 DEF EveryChargeIsTold, BudgetHolds
<1> QED BY <1>3, <1>5, <1>6, <1>9 DEF IInv

LEMMA NextIInv == IInv /\ [Next]_vars => IInv'
<1> SUFFICES ASSUME IInv, [Next]_vars PROVE IInv'
  OBVIOUS
<1>1. CASE Next
  <2>1. TypeOK'
    BY <1>1, RowLemma, ExecLemma, DataLemma DEF IInv, TypeOK
  <2>2. ExecutionOK' /\ KeysBehind' /\ StartedOnce' /\ RefusalsAreFree'
    BY <1>1, ExecutionOKLemma, KeysBehindLemma, StartedOnceLemma, RefusalsLemma DEF IInv
  <2>3. Counted' /\ EveryChargeIsTold' /\ BudgetHolds'
    BY <1>1, BudgetLemma DEF IInv
  <2>4. FailedIsLast' /\ LateIsLast'
    BY <1>1, FailedIsLastLemma, LateIsLastLemma DEF IInv
  <2> QED BY <2>1, <2>2, <2>3, <2>4 DEF IInv
<1>2. CASE UNCHANGED vars
  <2>1. /\ row' = row /\ usage' = usage /\ checkpoint' = checkpoint /\ started' = started
        /\ finished' = finished /\ exec' = exec /\ ran' = ran /\ late' = late
    BY <1>2 DEF vars
  <2>2. TypeOK' /\ ExecutionOK'
    BY <2>1 DEF IInv, TypeOK, ExecutionOK
  <2>3. KeysBehind' /\ StartedOnce' /\ RefusalsAreFree'
    BY <2>1 DEF IInv, KeysBehind, Behind, Kind, StartedOnce, Key, RefusalsAreFree
  <2>4. Counted' /\ EveryChargeIsTold' /\ BudgetHolds'
    BY <2>1 DEF IInv, Counted, EveryChargeIsTold, BudgetHolds, OfKind
  <2>5. FailedIsLast' /\ LateIsLast'
    BY <2>1 DEF IInv, FailedIsLast, LateIsLast, Sunk
  <2> QED BY <2>2, <2>3, <2>4, <2>5 DEF IInv
<1> QED BY <1>1, <1>2

\* What the parts of the invariant say of failed and of late calls.
LEMMA FailedLemma == IInv => FailureEndsTheWork
BY DEF IInv, FailedIsLast, FailureEndsTheWork, Sunk, Calling

LEMMA LateLemma == IInv => AtMostOneLateCall
<1> SUFFICES ASSUME IInv, NEW a \in Attempts
             PROVE  Cardinality({c \in late : c.attempt = a}) <= 1
  BY DEF AtMostOneLateCall
<1> DEFINE Own == {c \in late : c.attempt = a}
<1>1. \A c \in Own : Own = {c}
  BY DEF IInv, LateIsLast
<1>2. Own = {} \/ \E c : Own = {c}
  BY <1>1
<1> HIDE DEF Own
<1>3. Cardinality(Own) \in {0, 1}
  BY <1>2, FS_EmptySet, FS_Singleton
<1> QED BY <1>3 DEF Own

\* The types of rows, budgets, checkpoints, events and executions hold.
THEOREM TypeCorrect == Spec => []TypeOK
<1>1. IInv => TypeOK
  BY DEF IInv
<1> QED BY <1>1, InitIInv, NextIInv, PTL DEF Spec

\* reserve_runtime_call bounds the calls that run, over overlapping attempts.
THEOREM BudgetBoundsTheCalls == Spec => []BudgetHolds
<1>1. IInv => BudgetHolds
  BY DEF IInv
<1> QED BY <1>1, InitIInv, NextIInv, PTL DEF Spec

\* The stream has one start event for each charge of the budget.
THEOREM ChargesAreTold == Spec => []EveryChargeIsTold
<1>1. IInv => EveryChargeIsTold
  BY DEF IInv
<1> QED BY <1>1, InitIInv, NextIInv, PTL DEF Spec

\* What fails before the call is not charged, what fails later is.
THEOREM RefusedMeansFree == Spec => []RefusalsAreFree
<1>1. IInv => RefusalsAreFree
  BY DEF IInv
<1> QED BY <1>1, InitIInv, NextIInv, PTL DEF Spec

\* A failed call is the last of its attempt, a failed model call ends its graph.
THEOREM FailedCallsEndTheWork == Spec => []FailureEndsTheWork
<1> QED BY FailedLemma, InitIInv, NextIInv, PTL DEF Spec

\* An attempt runs at most one call after a cancellation or the loss of its lease.
THEOREM OneLateCall == Spec => []AtMostOneLateCall
<1> QED BY LateLemma, InitIInv, NextIInv, PTL DEF Spec

-----------------------------------------------------------------------------
(***************************************************************************)
(* The tokens a run is charged, for every script, budget and number of     *)
(* overlapping attempts (TokensKept).                                      *)
(*                                                                         *)
(* Tokens are counted between the call and its finish event, in a          *)
(* transaction of their own.  So the finish events that have succeeded,    *)
(* and those that are still to be written for tokens counted (Paid), are   *)
(* at most the tokens, and the tokens at most the charged calls that have  *)
(* left the call (Closed).                                                 *)
(***************************************************************************)

\* The execution is at a model call whose tokens were counted, or are to be.
PaidBy(a) == exec[a].pc = "finish" /\ exec[a].outcome = "none" /\ Kind(a) = "model"
InFlight(a) == exec[a].pc \in {"call", "tokens"} /\ Kind(a) = "model"

FinishOf(a) == [key |-> Key(a), error |-> "none"]
Paid == Succeeded \cup {FinishOf(a) : a \in {b \in Attempts : PaidBy(b)}}
Open == {Key(a) : a \in {b \in Attempts : InFlight(b)}}
Closed == OfKind(started, "model") \ Open

\* Only a model call has tokens to count.
TokensOfModels == \A a \in Attempts : exec[a].pc = "tokens" => Kind(a) = "model"

TokensInv == /\ TokensOfModels
             /\ IsFiniteSet(Paid)
             /\ Cardinality(Paid) <= usage.tokens
             /\ usage.tokens <= Cardinality(Closed)

\* A step of one attempt adds at most its own finish event to those paid, and
\* opens no call but one that has not been charged before.
LEMMA FrameTokens ==
    ASSUME NEW a \in Attempts, \A b \in Attempts \ {a} : exec'[b] = exec[b],
           \A f \in finished' : f.key.kind = "model" /\ f.error = "none" => f \in Paid,
           started \subseteq started',
           InFlight(a)' => Key(a)' \in Open \/ Key(a)' \notin started
    PROVE  /\ Paid' \subseteq Paid \cup {FinishOf(a)'}
           /\ PaidBy(a)' /\ FinishOf(a)' \in Paid => Paid' \subseteq Paid
           /\ ~PaidBy(a)' => Paid' \subseteq Paid
           /\ Closed \subseteq Closed'
<1>1. \A b \in Attempts \ {a} : /\ Key(b)' = Key(b) /\ Kind(b)' = Kind(b)
                                /\ PaidBy(b)' = PaidBy(b) /\ InFlight(b)' = InFlight(b)
                                /\ FinishOf(b)' = FinishOf(b)
  BY DEF Key, Kind, PaidBy, InFlight, FinishOf
<1>2. ASSUME NEW x \in Paid' PROVE x \in Paid \/ (PaidBy(a)' /\ x = FinishOf(a)')
  <2>1. CASE x \in Succeeded'
    BY <2>1 DEF Succeeded
  <2>2. CASE \E b \in Attempts : PaidBy(b)' /\ x = FinishOf(b)'
    BY <1>1, <2>2 DEF Paid
  <2> QED BY <2>1, <2>2 DEF Paid
<1>3. ASSUME NEW k \in Closed PROVE k \in Closed'
  <2>1. k \in OfKind(started', "model") /\ k \in started /\ k \notin Open
    BY <1>3 DEF Closed, OfKind
  <2>2. ASSUME NEW b \in Attempts, InFlight(b)', k = Key(b)' PROVE FALSE
    <3>1. CASE b = a
      BY <2>1, <2>2, <3>1
    <3>2. CASE b # a
      BY <1>1, <2>1, <2>2, <3>2 DEF Open
    <3> QED BY <3>1, <3>2
  <2> QED BY <2>1, <2>2 DEF Closed, Open, OfKind
<1> QED BY <1>2, <1>3

\* Either nothing is counted, or one call that was in flight is closed and its
\* tokens are counted.
Uncounted == /\ usage'.tokens = usage.tokens
             /\ Paid' \subseteq Paid /\ Closed \subseteq Closed'
CountedOnce == \E x, k : /\ usage'.tokens = usage.tokens + 1
                         /\ Paid' \subseteq Paid \cup {x}
                         /\ k \notin Closed /\ Closed \cup {k} \subseteq Closed'

\* Steps outside of calls.
LEMMA QuietTokens ==
    ASSUME TypeOK, ExecutionOK, TokensOfModels, NEW a \in Attempts,
           \/ Claim(a) \/ Load(a) \/ Boundary(a) \/ EndNode(a) \/ Control(a) \/ Drained(a)
           \/ MarkCancelled(a) \/ MarkFinalizing(a) \/ Finalize(a) \/ HandleFailure(a)
           \/ Fault(a) \/ LoseLease(a)
    PROVE  Uncounted /\ TokensOfModels'
<1>1. \A b \in Attempts \ {a} : exec'[b] = exec[b]
  BY OthersLemma DEF OwnStep, Step
<1>2. UNCHANGED <<usage, started, finished>>
  BY DEF Claim, Load, Boundary, EndNode, Control, Drained, MarkCancelled, MarkFinalizing,
         Finalize, HandleFailure, Fault, LoseLease
<1>3. \A f \in finished' : f.key.kind = "model" /\ f.error = "none" => f \in Paid
  BY <1>2 DEF Paid, Succeeded
<1>4. CASE LoseLease(a)
  <2>1. exec[a] \in Execution /\ exec'[a] = [exec[a] EXCEPT !.lost = TRUE]
    BY <1>4, RestLemma DEF TypeOK
  <2>2. /\ exec'[a].pc = exec[a].pc /\ exec'[a].node = exec[a].node
        /\ exec'[a].i = exec[a].i /\ exec'[a].ordinals = exec[a].ordinals
        /\ exec'[a].outcome = exec[a].outcome
    BY <2>1 DEF Execution
  <2>3. /\ Key(a)' = Key(a) /\ Kind(a)' = Kind(a) /\ FinishOf(a)' = FinishOf(a)
        /\ PaidBy(a)' = PaidBy(a) /\ InFlight(a)' = InFlight(a)
    BY <2>2 DEF Key, Kind, FinishOf, PaidBy, InFlight
  <2>4. /\ InFlight(a)' => Key(a)' \in Open
        /\ PaidBy(a)' => FinishOf(a)' \in Paid
    BY <2>3 DEF Open, Paid
  <2>5. TokensOfModels'
    BY <1>1, <2>2, <2>3 DEF TokensOfModels, Kind
  <2> QED BY <1>1, <1>2, <1>3, <2>4, <2>5, FrameTokens DEF Uncounted
<1>5. CASE ~LoseLease(a)
  <2>1. /\ exec'[a].pc \notin {"call", "tokens"}
        /\ exec'[a].pc = "finish" => exec'[a].outcome = "refused"
    <3>1. CASE Claim(a)
      <4>1. exec'[a] = [Idle EXCEPT !.pc = "load"]
        BY <3>1, ClaimLemma DEF Becomes, TypeOK
      <4> QED BY <4>1 DEF Idle
    <3>2. CASE Load(a) \/ Boundary(a) \/ EndNode(a)
      BY <3>2, WhereLemma
    <3>3. CASE Control(a)
      BY <3>3, ControlLemma DEF Ended
    <3>4. CASE Drained(a) \/ MarkCancelled(a) \/ MarkFinalizing(a) \/ Finalize(a)
               \/ HandleFailure(a) \/ Fault(a)
      BY <3>4, RestLemma
    <3> QED BY <1>5, <3>1, <3>2, <3>3, <3>4
  <2>2. ~InFlight(a)' /\ ~PaidBy(a)'
    BY <2>1 DEF InFlight, PaidBy
  <2>3. TokensOfModels'
    BY <1>1, <2>1 DEF TokensOfModels, Kind
  <2> QED BY <1>1, <1>2, <1>3, <2>2, <2>3, FrameTokens DEF Uncounted
<1> QED BY <1>4, <1>5

\* A call that is reserved is open and was not charged before; one that is
\* refused is not.
LEMMA ReserveTokens ==
    ASSUME TypeOK, ExecutionOK, KeysBehind, TokensOfModels, NEW a \in Attempts, Reserve(a)
    PROVE  Uncounted /\ TokensOfModels'
<1>1. \A b \in Attempts \ {a} : exec'[b] = exec[b]
  BY OthersLemma DEF OwnStep, Step
<1>2. Kind(a) \in Kinds /\ Key(a) \notin started
  BY KeyLemma, FreshLemma DEF Reserve, At, Calling
<1>3. usage'.tokens = usage.tokens /\ started \subseteq started' /\ finished' = finished
  BY <1>2 DEF Reserve, Charged, Kinds, TypeOK, Usage
<1>4. /\ exec'[a].pc # "tokens"
      /\ exec'[a].pc = "finish" => exec'[a].outcome = "refused"
      /\ exec'[a].pc = "call" => Key(a)' = Key(a)
  BY ReserveLemma DEF SameCall, Key, Kind
<1>5. /\ InFlight(a)' => Key(a)' \notin started
      /\ ~PaidBy(a)'
  BY <1>2, <1>4 DEF InFlight, PaidBy
<1>6. \A f \in finished' : f.key.kind = "model" /\ f.error = "none" => f \in Paid
  BY <1>3 DEF Paid, Succeeded
<1>7. TokensOfModels'
  BY <1>1, <1>4 DEF TokensOfModels, Kind
<1> QED BY <1>1, <1>3, <1>5, <1>6, <1>7, FrameTokens DEF Uncounted

\* An answered model call stays open until its tokens are counted.
LEMMA AnswerTokens ==
    ASSUME TypeOK, ExecutionOK, TokensOfModels, NEW a \in Attempts, Answer(a)
    PROVE  Uncounted /\ TokensOfModels'
<1>0. exec \in [Attempts -> Execution] /\ exec[a] \in Execution
  BY DEF TypeOK
<1>1. \A b \in Attempts \ {a} : exec'[b] = exec[b]
  BY OthersLemma DEF OwnStep, Step
<1>2. UNCHANGED <<usage, started, finished>>
  BY DEF Answer
<1>3. PICK o : exec' = [exec EXCEPT ![a].outcome = o,
                  ![a].pc = IF o = "none" /\ Kind(a) = "model" THEN "tokens" ELSE "finish"]
  BY DEF Answer
<1>4. exec'[a] = [exec[a] EXCEPT !.outcome = o,
                    !.pc = IF o = "none" /\ Kind(a) = "model" THEN "tokens" ELSE "finish"]
  BY <1>0, <1>3
<1>5. exec'[a].outcome = o /\ exec'[a].pc = IF o = "none" /\ Kind(a) = "model"
                                            THEN "tokens" ELSE "finish"
  BY <1>0, <1>4 DEF Execution
<1>6. Key(a)' = Key(a) /\ Kind(a)' = Kind(a) /\ exec[a].pc = "call"
  BY AnswerLemma DEF SameCall, Key, Kind
<1>7. ~PaidBy(a)' /\ (InFlight(a)' => Key(a)' \in Open)
  BY <1>5, <1>6 DEF PaidBy, InFlight, Open
<1>8. \A f \in finished' : f.key.kind = "model" /\ f.error = "none" => f \in Paid
  BY <1>2 DEF Paid, Succeeded
<1>9. TokensOfModels'
  BY <1>1, <1>5, <1>6 DEF TokensOfModels, Kind
<1> QED BY <1>1, <1>2, <1>7, <1>8, <1>9, FrameTokens DEF Uncounted

\* The tokens of a call are counted once, when it is closed; a failed write may
\* have counted them too.
LEMMA RecordTokens ==
    ASSUME TypeOK, ExecutionOK, StartedOnce, TokensOfModels, NEW a \in Attempts, RecordUsage(a)
    PROVE  (Uncounted \/ CountedOnce) /\ TokensOfModels'
<1>0. exec \in [Attempts -> Execution] /\ exec[a] \in Execution /\ usage \in Usage
  BY DEF TypeOK
<1>1. \A b \in Attempts \ {a} : exec'[b] = exec[b]
  BY OthersLemma DEF OwnStep, Step
<1>2. UNCHANGED <<started, finished>> /\ exec[a].pc = "tokens" /\ exec'[a].pc = "finish"
  BY RecordUsageLemma DEF RecordUsage
<1>3. InFlight(a) /\ Key(a) \in started /\ Key(a).kind = "model"
  BY <1>2 DEF TokensOfModels, StartedOnce, InFlight, Key
<1>4. Key(a) \notin Closed /\ Key(a) \in Closed'
  <2>1. \A b \in Attempts : Key(b)'.attempt = b /\ Key(a).attempt = a
    BY DEF Key
  <2>2. ~InFlight(a)'
    BY <1>2 DEF InFlight
  <2>3. Key(a) \notin Open'
    BY <2>1, <2>2 DEF Open
  <2> QED BY <1>2, <1>3, <2>3 DEF Closed, Open, OfKind
<1>5. \A f \in finished' : f.key.kind = "model" /\ f.error = "none" => f \in Paid
  BY <1>2 DEF Paid, Succeeded
<1>6. ~InFlight(a)'
  BY <1>2 DEF InFlight
<1>7. /\ Paid' \subseteq Paid \cup {FinishOf(a)'} /\ Closed \subseteq Closed'
      /\ ~PaidBy(a)' => Paid' \subseteq Paid
  BY <1>1, <1>2, <1>5, <1>6, FrameTokens
<1>8. TokensOfModels'
  BY <1>1, <1>2 DEF TokensOfModels, Kind
<1>9. CASE usage' = TokensAdded(usage)
  <2>1. usage'.tokens = usage.tokens + 1
    BY <1>0, <1>9 DEF TokensAdded, Usage
  <2> QED BY <1>4, <1>7, <1>8, <2>1 DEF CountedOnce
<1>10. CASE usage' = usage /\ exec' = [exec EXCEPT ![a].pc = "finish", ![a].outcome = "permanent"]
  <2>1. exec'[a].outcome = "permanent"
    BY <1>0, <1>10 DEF Execution
  <2>2. ~PaidBy(a)'
    BY <2>1 DEF PaidBy
  <2> QED BY <1>7, <1>8, <1>10, <2>2 DEF Uncounted
<1> QED BY <1>9, <1>10 DEF RecordUsage

\* The finish event of a succeeded model call is one that was paid for.
LEMMA FinishTokens ==
    ASSUME TypeOK, ExecutionOK, TokensOfModels, NEW a \in Attempts, Finish(a)
    PROVE  Uncounted /\ TokensOfModels'
<1>1. \A b \in Attempts \ {a} : exec'[b] = exec[b]
  BY OthersLemma DEF OwnStep, Step
<1>2. UNCHANGED <<usage, started>> /\ exec'[a].pc \in {"fail", "node", "control"}
  BY FinishLemma DEF Finish, Ended
<1>3. ~PaidBy(a)' /\ ~InFlight(a)'
  BY <1>2 DEF PaidBy, InFlight
<1>4. ASSUME NEW f \in finished', f.key.kind = "model", f.error = "none" PROVE f \in Paid
  <2>1. CASE f \in finished
    BY <1>4, <2>1 DEF Paid, Succeeded
  <2>2. CASE f \notin finished
    <3>1. f = [key |-> Key(a), error |-> Told(exec[a].outcome)] /\ exec[a].pc = "finish"
      BY <2>2 DEF Finish, At
    <3>2. Told(exec[a].outcome) = "none" /\ Key(a).kind = "model"
      BY <1>4, <3>1
    <3>3. exec[a].outcome = "none" /\ Kind(a) = "model"
      BY <3>2 DEF Told, Key
    <3> QED BY <3>1, <3>2, <3>3 DEF Paid, PaidBy, FinishOf
  <2> QED BY <2>1, <2>2
<1>5. TokensOfModels'
  BY <1>1, <1>2 DEF TokensOfModels, Kind
<1> QED BY <1>1, <1>2, <1>3, <1>4, <1>5, FrameTokens DEF Uncounted

-----------------------------------------------------------------------------
(* The theorem *)

\* What a step counts keeps the tokens between the paid and the closed calls.
LEMMA CountLemma ==
    ASSUME usage \in Usage, IsFiniteSet(started'), TokensInv, TokensOfModels',
           Uncounted \/ CountedOnce
    PROVE  TokensInv'
<1>1. IsFiniteSet(Closed')
  BY FS_Subset DEF Closed, OfKind
<1>2. IsFiniteSet(Paid) /\ Cardinality(Paid) \in Nat /\ usage.tokens \in Nat
      /\ Cardinality(Paid) <= usage.tokens /\ usage.tokens <= Cardinality(Closed)
  BY FS_CardinalityType DEF TokensInv, Usage
<1>3. CASE Uncounted
  <2>1. Paid' \subseteq Paid /\ Closed \subseteq Closed' /\ usage'.tokens = usage.tokens
    BY <1>3 DEF Uncounted
  <2> HIDE DEF Paid, Closed
  <2>2. IsFiniteSet(Paid') /\ Cardinality(Paid') <= Cardinality(Paid)
    BY <1>2, <2>1, FS_Subset
  <2>3. IsFiniteSet(Closed) /\ Cardinality(Closed) <= Cardinality(Closed')
    BY <1>1, <2>1, FS_Subset
  <2>4. Cardinality(Paid') \in Nat /\ Cardinality(Closed') \in Nat /\ Cardinality(Closed) \in Nat
    BY <1>1, <2>2, <2>3, FS_CardinalityType
  <2> QED BY <1>2, <2>1, <2>2, <2>3, <2>4 DEF TokensInv
<1>4. CASE CountedOnce
  <2>1. PICK x, k : /\ usage'.tokens = usage.tokens + 1
                    /\ Paid' \subseteq Paid \cup {x}
                    /\ k \notin Closed /\ Closed \cup {k} \subseteq Closed'
    BY <1>4 DEF CountedOnce
  <2> HIDE DEF Paid, Closed
  <2>2. IsFiniteSet(Paid \cup {x}) /\ Cardinality(Paid \cup {x}) <= Cardinality(Paid) + 1
        /\ Cardinality(Paid \cup {x}) \in Nat
    <3>1. CASE x \in Paid
      <4>1. Paid \cup {x} = Paid
        BY <3>1
      <4> QED BY <1>2, <4>1
    <3>2. CASE x \notin Paid
      <4>1. IsFiniteSet(Paid \cup {x}) /\ Cardinality(Paid \cup {x}) = Cardinality(Paid) + 1
        BY <1>2, <3>2, FS_AddElement
      <4> QED BY <1>2, <4>1
    <3> QED BY <3>1, <3>2
  <2>3. IsFiniteSet(Paid') /\ Cardinality(Paid') <= Cardinality(Paid \cup {x})
    BY <2>1, <2>2, FS_Subset
  <2>8. Cardinality(Paid') \in Nat
    BY <2>3, FS_CardinalityType
  <2>4. IsFiniteSet(Closed)
    BY <1>1, <2>1, FS_Subset
  <2>9. Cardinality(Closed) \in Nat
    BY <2>4, FS_CardinalityType
  <2>5. Cardinality(Closed \cup {k}) = Cardinality(Closed) + 1
    BY <2>1, <2>4, FS_AddElement
  <2>6. Cardinality(Closed \cup {k}) <= Cardinality(Closed')
    BY <1>1, <2>1, FS_Subset
  <2>7. Cardinality(Closed') \in Nat
    BY <1>1, FS_CardinalityType
  <2> QED BY <1>2, <2>1, <2>2, <2>3, <2>8, <2>9, <2>5, <2>6, <2>7 DEF TokensInv
<1> QED BY <1>3, <1>4

\* The tokens counted lie between the model calls that have succeeded and those that
\* were charged: a reservation and _record_usage, which rewrite one document, undo
\* nothing of each other, and a lost acknowledgement counts no call twice.
THEOREM NoTokensAreLost == Spec => []TokensKept
<1>1. Init => TokensInv
  <2> SUFFICES ASSUME Init PROVE TokensInv
    OBVIOUS
  <2>1. \A a \in Attempts : exec[a].pc = "idle"
    BY DEF Init, Idle
  <2>2. Paid = {} /\ Closed = {} /\ usage.tokens = 0
    BY <2>1 DEF Init, Paid, Succeeded, PaidBy, Closed, OfKind, NoUsage
  <2>3. TokensOfModels
    BY <2>1 DEF TokensOfModels
  <2> QED BY <2>2, <2>3, FS_EmptySet DEF TokensInv
<1>2. ASSUME IInv, TokensInv, [Next]_vars PROVE TokensInv'
  <2>1. IInv'
    BY <1>2, NextIInv
  <2>2. TypeOK /\ ExecutionOK /\ KeysBehind /\ StartedOnce /\ TokensOfModels /\ usage \in Usage
        /\ IsFiniteSet(started')
    BY <1>2, <2>1 DEF IInv, TokensInv, TypeOK, Counted
  <2>3. CASE \E a \in Attempts : Claim(a) \/ Step(a) \/ Fault(a) \/ LoseLease(a)
    <3>1. (Uncounted \/ CountedOnce) /\ TokensOfModels'
      BY <2>2, <2>3, QuietTokens, ReserveTokens, AnswerTokens, RecordTokens, FinishTokens
         DEF Step
    <3> QED BY <1>2, <2>2, <3>1, CountLemma
  <2>4. CASE Cancel \/ ClaimSettles \/ UNCHANGED vars
    <3>1. UNCHANGED <<usage, started, finished, exec>>
      BY <2>4 DEF Cancel, ClaimSettles, vars
    <3>2. /\ \A a \in Attempts : /\ Key(a)' = Key(a) /\ Kind(a)' = Kind(a)
                                 /\ PaidBy(a)' = PaidBy(a) /\ InFlight(a)' = InFlight(a)
                                 /\ FinishOf(a)' = FinishOf(a)
      BY <3>1 DEF Key, Kind, PaidBy, InFlight, FinishOf
    <3>3. Paid' = Paid /\ Closed' = Closed
      BY <3>1, <3>2 DEF Paid, Closed, Open, OfKind, Succeeded
    <3>4. TokensOfModels'
      BY <2>2, <3>1, <3>2 DEF TokensOfModels
    <3> QED BY <1>2, <3>1, <3>3, <3>4 DEF TokensInv
  <2> QED BY <1>2, <2>3, <2>4 DEF Next
<1>3. ASSUME IInv, TokensInv PROVE TokensKept
  <2>1. Succeeded \subseteq Paid /\ Closed \subseteq OfKind(started, "model")
    BY DEF Paid, Closed
  <2>2. IsFiniteSet(OfKind(started, "model"))
    BY <1>3, FS_Subset DEF IInv, Counted, OfKind
  <2>3. usage.model = Cardinality(OfKind(started, "model"))
    BY <1>3 DEF IInv, EveryChargeIsTold, Kinds
  <2>4. Cardinality(Succeeded) <= Cardinality(Paid) /\ Cardinality(Succeeded) \in Nat
        /\ Cardinality(Paid) \in Nat
    BY <1>3, <2>1, FS_Subset, FS_CardinalityType DEF TokensInv
  <2>5. Cardinality(Closed) <= usage.model /\ Cardinality(Closed) \in Nat
    BY <2>1, <2>2, <2>3, FS_Subset, FS_CardinalityType
  <2>6. usage.tokens \in Nat /\ usage.model \in Nat
    BY <1>3 DEF IInv, TypeOK, Usage
  <2> HIDE DEF Paid, Closed, Succeeded
  <2> QED BY <1>3, <2>4, <2>5, <2>6 DEF TokensInv, TokensKept
<1> QED BY <1>1, <1>2, <1>3, InitIInv, NextIInv, PTL DEF Spec
=============================================================================
