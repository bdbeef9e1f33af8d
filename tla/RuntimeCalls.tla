----------------------------- MODULE RuntimeCalls -----------------------------
(***************************************************************************)
(* The tool and model calls of one run over all its attempts: the control  *)
(* checks around a call, the reservation of budget with its start event,   *)
(* the finish event, and what the nodes of the graph do with a call that   *)
(* failed. Attempts overlap: one whose lease lapsed goes on until it       *)
(* notices, and none of the writes of a call is fenced on the lease.       *)
(*                                                                         *)
(* Sources: agent/runtime_services.py, agent/graph.py, agent/routes/*.py,  *)
(* worker.py and, of repositories/run_repository.py, the transactions on   *)
(* agent_runs.budget_usage_json and agent_run_events.                      *)
(*                                                                         *)
(* The queue around them is RunQueue with these abstractions: a worker has *)
(* one slot, so that the owner of the row is named by the attempt it       *)
(* executes; a lease may have lapsed whenever the next attempt claims the  *)
(* run. An attempt whose process died is one that takes no further step.   *)
(***************************************************************************)
EXTENDS Integers, Sequences, FiniteSets

CONSTANTS MaxAttempts,  \* agent_run_max_attempts
          Script,       \* Script[n]: the kinds of the calls node n makes, in order
          Catching,     \* nodes that turn a failed tool call into state["errors"]
          Limit         \* Limit[k]: max_model_calls, max_tool_calls

Kinds == {"model", "tool"}
Attempts == 1..MaxAttempts
Nodes == 1..Len(Script)

\* The last node is final_answer: it makes no call and catches nothing.
Final == Len(Script)

ASSUME RuntimeCallsAssumption ==
    /\ MaxAttempts \in Nat \ {0}
    /\ Script \in Seq(Seq(Kinds))
    /\ Len(Script) > 0
    /\ Script[Len(Script)] = <<>>
    /\ Catching \subseteq 1..(Len(Script) - 1)
    /\ Limit \in [Kinds -> Nat]

VARIABLES row,         \* the row of agent_runs
          usage,       \* its budget_usage_json
          checkpoint,  \* the newest checkpoint: nodes done, and state["errors"]
          started,     \* keys of the start events
          finished,    \* finish events: key and error
          exec,        \* exec[a]: the execution of attempt a
          ran,         \* history: the calls whose function was run
          late         \* history: those reserved after a cancellation or a lost lease

vars == <<row, usage, checkpoint, started, finished, exec, ran, late>>

-----------------------------------------------------------------------------
(* Rows, events and executions *)

ActiveStatuses == {"queued", "running", "retry_wait", "finalizing"}
TerminalStatuses == {"succeeded", "failed", "cancelled"}

\* transient: a timeout of the tool, a 429 or 5xx of the provider, a database error;
\* refused: denied or found invalid before it was run, or the budget is spent.
Retryable == {"lease_lost", "transient"}
Causes == Retryable \cup {"none", "run_cancelled", "run_timeout", "refused", "permanent"}

\* answer: the last of the state's errors, which the answer of a succeeded run
\* reports instead of a result.
Row == [status: ActiveStatuses \cup TerminalStatuses, attempt: 0..MaxAttempts,
        owner: 0..MaxAttempts, cancel: BOOLEAN, answer: Causes]
NoOwner == 0

Usage == [model: Nat, tool: Nat, tokens: Nat]
Checkpoint == [done: 0..Final, error: Causes]

\* A call as it happens, and its call_id as the events know it.
Calls == [attempt: Attempts, node: Nodes, i: Nat \ {0}, kind: Kinds]
Keys == [attempt: Attempts, node: Nodes, kind: Kinds, ordinal: Nat]

Pcs == {"idle", "load", "boundary", "control", "reserve", "call", "tokens", "finish",
        "node", "drained", "mark", "finalize", "cancel", "fail", "gone"}
Calling == {"control", "reserve", "call", "tokens", "finish"}

\* done, error: the state of the graph; i, ordinals, outcome: of the call being
\* made. What an execution has no more use for is reset.
Execution == [pc: Pcs, done: 0..Final, error: Causes, node: Nodes, i: Nat \ {0},
              ordinals: [Kinds -> Nat], outcome: Causes, lost: BOOLEAN]

NoUsage == [model |-> 0, tool |-> 0, tokens |-> 0]
Idle == [pc |-> "idle", done |-> 0, error |-> "none", node |-> 1, i |-> 1,
         ordinals |-> [k \in Kinds |-> 0], outcome |-> "none", lost |-> FALSE]

TypeOK == /\ row \in Row
          /\ usage \in Usage
          /\ checkpoint \in Checkpoint
          /\ started \subseteq Keys
          /\ finished \subseteq [key: Keys, error: {"none", "refused", "failed"}]
          /\ exec \in [Attempts -> Execution]
          /\ ran \subseteq Calls
          /\ late \subseteq Calls

-----------------------------------------------------------------------------
(* Helpers *)

At(a, pc) == exec[a].pc = pc
Busy(a) == exec[a].pc \notin {"idle", "gone"}
Terminal == row.status \in TerminalStatuses

\* The fence of the settling transactions: lease_owner = worker_id.
Owns(a) == row.owner = a

Goto(a, pc) == exec' = [exec EXCEPT ![a].pc = pc]
Gone == [Idle EXCEPT !.pc = "gone"]
Raised(cause) == [Idle EXCEPT !.pc = "fail", !.outcome = cause]
Leave(a) == exec' = [exec EXCEPT ![a] = Gone]
Raise(a, cause) == exec' = [exec EXCEPT ![a] = Raised(cause)]

\* A write of the database whose acknowledgement may be lost: the caller sees
\* an SQLAlchemyError, which no node catches.
Written(a, next) == \/ exec' = [exec EXCEPT ![a] = next]
                    \/ Raise(a, "transient")

\* The kind of the call that is being made.
Kind(a) == Script[exec[a].node][exec[a].i]
Call(a) == [attempt |-> a, node |-> exec[a].node, i |-> exec[a].i, kind |-> Kind(a)]

\* _call_id: the ordinal counts the calls of a kind within a node and attempt.
KeyOfAnyAttempt(a) == [attempt |-> 1, node |-> exec[a].node, kind |-> Kind(a),
                       ordinal |-> exec[a].ordinals[Kind(a)]]
Key(a) == [attempt |-> a, node |-> exec[a].node, kind |-> Kind(a),
           ordinal |-> exec[a].ordinals[Kind(a)]]

\* The except clauses of resolve_part, load_finished_batches and
\* build_report_json enclose the calls of tools, never those of a model.
CaughtAnyKind(a) == exec[a].node \in Catching
Caught(a) == exec[a].node \in Catching /\ Kind(a) = "tool"

\* A RuntimeServiceError in a node: either the node ends with an entry in
\* state["errors"], or the error leaves the graph.
Broken(e, cause, caught) ==
    IF caught THEN [e EXCEPT !.pc = "node", !.error = cause] ELSE Raised(cause)
Break(a, cause) == exec' = [exec EXCEPT ![a] = Broken(@, cause, Caught(a))]

Settled(status) == [row EXCEPT !.status = status, !.owner = NoOwner]

-----------------------------------------------------------------------------
(* The queue *)

Init == /\ row = [status |-> "queued", attempt |-> 0, owner |-> NoOwner,
                  cancel |-> FALSE, answer |-> "none"]
        /\ usage = NoUsage
        /\ checkpoint = [done |-> 0, error |-> "none"]
        /\ started = {}
        /\ finished = {}
        /\ exec = [a \in Attempts |-> Idle]
        /\ ran = {}
        /\ late = {}

Unclaimed == /\ ~Terminal
             /\ ~(row.cancel /\ row.status # "finalizing")

\* claim_next and _runtime_services: a fresh RuntimeServices for each attempt.
Claim(a) ==
    /\ Unclaimed /\ row.attempt < MaxAttempts
    /\ a = row.attempt + 1
    /\ row' = [row EXCEPT !.attempt = a, !.owner = a,
                          !.status = IF @ = "finalizing" THEN @ ELSE "running"]
    /\ exec' = [exec EXCEPT ![a] = [Idle EXCEPT !.pc = "load"]]
    /\ UNCHANGED <<usage, checkpoint, started, finished, ran, late>>

\* claim_next on a run that was cancelled or has no attempt left.
ClaimSettles ==
    /\ ~Terminal
    /\ \/ /\ row.cancel /\ row.status # "finalizing"
          /\ row' = Settled("cancelled")
       \/ /\ Unclaimed /\ row.attempt >= MaxAttempts
          /\ row' = Settled("failed")
    /\ UNCHANGED <<usage, checkpoint, started, finished, exec, ran, late>>

Cancel ==
    /\ row.status \in {"queued", "retry_wait", "running"}
    /\ row' = IF row.status = "running" THEN [row EXCEPT !.cancel = TRUE]
              ELSE [Settled("cancelled") EXCEPT !.cancel = TRUE]
    /\ UNCHANGED <<usage, checkpoint, started, finished, exec, ran, late>>

\* The heartbeat finds the lease gone, or fails to renew it once.
LoseLease(a) == /\ Busy(a) /\ ~At(a, "fail") /\ ~exec[a].lost
                /\ exec' = [exec EXCEPT ![a].lost = TRUE]
                /\ UNCHANGED <<row, usage, checkpoint, started, finished, ran, late>>

-----------------------------------------------------------------------------
(* The graph *)

Load(a) == /\ At(a, "load")
           /\ exec' = [exec EXCEPT
                 ![a].done = checkpoint.done, ![a].error = checkpoint.error,
                 ![a].pc = IF row.status = "finalizing" THEN "drained" ELSE "boundary"]
           /\ UNCHANGED <<row, usage, checkpoint, started, finished, ran, late>>

\* The edges of the graph: an error leads to final_answer.
NextNode(a) == IF exec[a].error = "none" THEN exec[a].done + 1 ELSE Final
Entered(e, n) == [e EXCEPT !.node = n, !.i = 1, !.ordinals = [k \in Kinds |-> 0],
                           !.pc = IF Script[n] = <<>> THEN "node" ELSE "control"]

\* Between two nodes: the lease, the cancellation, the run's time budget.
Boundary(a) ==
    /\ At(a, "boundary")
    /\ \/ exec[a].lost /\ Raise(a, "lease_lost")
       \/ ~exec[a].lost /\ row.cancel /\ Goto(a, "cancel")
       \/ ~exec[a].lost /\ ~row.cancel /\ Raise(a, "run_timeout")
       \/ /\ ~exec[a].lost /\ ~row.cancel /\ exec[a].error # "run_timeout"
          /\ IF exec[a].done = Final THEN Goto(a, "drained")
             ELSE exec' = [exec EXCEPT ![a] = Entered(@, NextNode(a))]
    /\ UNCHANGED <<row, usage, checkpoint, started, finished, ran, late>>

\* A node ends: a catching one may also have found the data incomplete. The
\* checkpoint is written whoever holds the lease.
EndNode(a) ==
    /\ At(a, "node")
    /\ \E e \in {exec[a].error} \cup
                (IF exec[a].node \in Catching THEN {"permanent"} ELSE {}) :
          /\ exec[a].error # "none" => e = exec[a].error
          /\ checkpoint' = [done |-> exec[a].node, error |-> e]
          /\ exec' = [exec EXCEPT ![a] = [Idle EXCEPT
                !.pc = "boundary", !.done = exec[a].node, !.error = e,
                !.lost = exec[a].lost]]
    /\ UNCHANGED <<row, usage, started, finished, ran, late>>

-----------------------------------------------------------------------------
(* invoke_tool and invoke_model *)

\* check_control: a call begins, and what it returned counts, only after one.
CheckLeaseAndTime(a) == IF exec[a].lost THEN {"lease_lost"} ELSE {"none", "run_timeout"}
CheckControl(a) == IF exec[a].lost THEN {"lease_lost"}
                   ELSE IF row.cancel THEN {"run_cancelled"} ELSE {"none", "run_timeout"}

\* check_control, then the next call_id and the preflight.
Control(a) ==
    /\ At(a, "control")
    /\ \/ \E c \in CheckControl(a) \ {"none"} : Break(a, c)
       \/ /\ "none" \in CheckControl(a)
          /\ \E next \in {[pc |-> "reserve", outcome |-> "none"],
                          [pc |-> "finish", outcome |-> "refused"]} :
                exec' = [exec EXCEPT ![a].ordinals[Kind(a)] = @ + 1,
                                     ![a].pc = next.pc, ![a].outcome = next.outcome]
    /\ UNCHANGED <<row, usage, checkpoint, started, finished, ran, late>>

ChargedAsTool(k) == [usage EXCEPT !["tool"] = @ + 1]
Charged(k) == [usage EXCEPT ![k] = @ + 1]
FullOffByOne(k) == usage[k] > Limit[k]
Full(k) == usage[k] >= Limit[k]

\* reserve_runtime_call: usage and start event in one transaction on the locked
\* row. A key that is there already is not charged again; call ids never repeat,
\* so that this guard finds none (RuntimeCallsProofs: FreshLemma).
Reserve(a) == LET k == Kind(a)
                  begun == [exec[a] EXCEPT !.pc = "call"] IN
    /\ At(a, "reserve")
    /\ \/ /\ Key(a) \in started
          /\ exec' = [exec EXCEPT ![a] = begun]
          /\ UNCHANGED <<usage, started>>
       \/ /\ Key(a) \notin started /\ Full(k)
          /\ exec' = [exec EXCEPT ![a].pc = "finish", ![a].outcome = "refused"]
          /\ UNCHANGED <<usage, started>>
       \/ /\ Key(a) \notin started /\ ~Full(k)
          /\ usage' = Charged(k)
          /\ started' = started \cup {Key(a)}
          /\ Written(a, begun)
    /\ ran' = IF exec'[a].pc = "call" THEN ran \cup {Call(a)} ELSE ran
    /\ late' = IF exec'[a].pc = "call" /\ (exec[a].lost \/ row.cancel)
               THEN late \cup {Call(a)} ELSE late
    /\ UNCHANGED <<row, checkpoint, finished>>

\* The function returns or fails, or its time is up while it goes on in its thread.
Answers(a) == {"transient", "permanent", "run_timeout"} \cup CheckControl(a)
Answer(a) ==
    /\ At(a, "call")
    /\ \E o \in Answers(a) :
          exec' = [exec EXCEPT ![a].outcome = o,
                     ![a].pc = IF o = "none" /\ Kind(a) = "model" THEN "tokens"
                                                                  ELSE "finish"]
    /\ UNCHANGED <<row, usage, checkpoint, started, finished, ran, late>>

\* _record_usage, inside the try of invoke_model: a database error there is
\* caught as any Exception, and the call fails for good.
TokensOverwritten(doc) == [doc EXCEPT !.tokens = 1]
TokensAdded(doc) == [doc EXCEPT !.tokens = @ + 1]
RecordUsage(a) ==
    /\ At(a, "tokens")
    /\ \/ usage' = TokensAdded(usage) /\ Goto(a, "finish")
       \/ /\ usage' \in {usage, TokensAdded(usage)}
          /\ exec' = [exec EXCEPT ![a].pc = "finish", ![a].outcome = "permanent"]
    /\ UNCHANGED <<row, checkpoint, started, finished, ran, late>>

\* What the node does with the outcome: require_call_value.
Continued(a) ==
    IF exec[a].outcome # "none" THEN Broken(exec[a], exec[a].outcome, Caught(a))
    ELSE IF exec[a].i < Len(Script[exec[a].node])
    THEN [exec[a] EXCEPT !.pc = "control", !.i = @ + 1]
    ELSE [exec[a] EXCEPT !.pc = "node"]

\* _finish: the finish event of a call_id is written once. The model tells a call
\* that was refused from one that failed later, whatever code the event gives.
ToldByCause(outcome) == outcome
Told(outcome) == IF outcome \in {"none", "refused"} THEN outcome ELSE "failed"
Finish(a) ==
    /\ At(a, "finish")
    /\ finished' = IF \E f \in finished : f.key = Key(a) THEN finished
                   ELSE finished \cup {[key |-> Key(a), error |-> Told(exec[a].outcome)]}
    /\ Written(a, Continued(a))
    /\ UNCHANGED <<row, usage, checkpoint, started, ran, late>>

\* A transient fault of the database or of the checkpointer; those during a call
\* or its accounting are among the answers of the call.
Fault(a) == /\ Busy(a) /\ exec[a].pc \notin {"call", "tokens", "fail"}
            /\ Raise(a, "transient")
            /\ UNCHANGED <<row, usage, checkpoint, started, finished, ran, late>>

-----------------------------------------------------------------------------
(* The transactions that end an attempt *)

Drained(a) ==
    /\ At(a, "drained")
    /\ \/ exec[a].lost /\ Raise(a, "lease_lost")
       \/ ~exec[a].lost /\ row.cancel /\ Goto(a, "cancel")
       \/ ~exec[a].lost /\ ~row.cancel /\ Goto(a, "mark")
    /\ UNCHANGED <<row, usage, checkpoint, started, finished, ran, late>>

MarkCancelled(a) ==
    /\ At(a, "cancel")
    /\ IF ~Owns(a) THEN Leave(a) /\ UNCHANGED row
       ELSE IF row.status = "finalizing" THEN Raise(a, "permanent") /\ UNCHANGED row
       ELSE /\ row' = Settled("cancelled")
            /\ Written(a, Gone)
    /\ UNCHANGED <<usage, checkpoint, started, finished, ran, late>>

MarkFinalizing(a) ==
    /\ At(a, "mark")
    /\ IF ~Owns(a) THEN Raise(a, "transient") /\ UNCHANGED row
       ELSE /\ row' = [row EXCEPT !.status = "finalizing"]
            /\ Written(a, [exec[a] EXCEPT !.pc = "finalize"])
    /\ UNCHANGED <<usage, checkpoint, started, finished, ran, late>>

Finalize(a) ==
    /\ At(a, "finalize")
    /\ IF ~Owns(a) THEN Raise(a, "transient") /\ UNCHANGED row
       ELSE /\ row' = [Settled("succeeded") EXCEPT !.answer = exec[a].error]
            /\ Written(a, Gone)
    /\ UNCHANGED <<usage, checkpoint, started, finished, ran, late>>

HandleFailure(a) == LET retry == exec[a].outcome \in Retryable
                                 /\ row.attempt < MaxAttempts IN
    /\ At(a, "fail")
    /\ Leave(a)
    /\ IF ~Owns(a) THEN UNCHANGED row
       ELSE IF ~retry THEN row' = Settled("failed")
       ELSE row' = [row EXCEPT !.owner = NoOwner,
                               !.status = IF @ = "running" THEN "retry_wait" ELSE @]
    /\ UNCHANGED <<usage, checkpoint, started, finished, ran, late>>

-----------------------------------------------------------------------------
(* The specification *)

Step(a) == \/ Load(a) \/ Boundary(a) \/ EndNode(a) \/ Drained(a)
           \/ Control(a) \/ Reserve(a) \/ Answer(a) \/ RecordUsage(a) \/ Finish(a)
           \/ MarkCancelled(a) \/ MarkFinalizing(a) \/ Finalize(a) \/ HandleFailure(a)

Next == \/ Cancel \/ ClaimSettles
        \/ \E a \in Attempts : \/ Claim(a) \/ Step(a) \/ Fault(a)
                               \/ LoseLease(a)

Spec == Init /\ [][Next]_vars

-----------------------------------------------------------------------------
(* Properties *)

OfKind(calls, k) == {c \in calls : c.kind = k}

\* The budget bounds the calls that are run, over all attempts of a run and
\* whichever of them overlap: none is run without a charge of its own.
BudgetHolds == \A k \in Kinds :
    /\ Cardinality(OfKind(ran, k)) <= usage[k]
    /\ usage[k] <= Limit[k]

\* Charge and start event are one: the stream tells of each charged call once,
\* and of no call that was not charged.
EveryChargeIsTold == \A k \in Kinds : usage[k] = Cardinality(OfKind(started, k))

\* Two transactions rewrite the same usage document: no tokens are lost to an
\* overlapping reservation, and none are counted without a charged model call.
Succeeded == {f \in finished : f.key.kind = "model" /\ f.error = "none"}
TokensKept == /\ Cardinality(Succeeded) <= usage.tokens
              /\ usage.tokens <= usage.model

\* architecture/runtime.md: a call that fails before it is run consumes no budget,
\* and one that fails later did: a start event, and so a charge, is missing from
\* the refused calls and from no other call with a finish event.
RefusalsAreFree == \A f \in finished :
    f.error = "refused" <=> f.key \notin started

\* architecture/runtime.md: after a failed model call no later node is executed,
\* and after any failed call its attempt makes no other.
FailureEndsTheWork == \A f \in finished : f.error # "none" =>
    /\ exec[f.key.attempt].pc \notin Calling
    /\ f.key.kind = "model" => exec[f.key.attempt].pc \in {"fail", "gone"}

\* Cancellation and a lost lease take effect at the boundaries of calls: of the
\* calls an attempt has yet to make, at most the one it is about to make is run.
AtMostOneLateCall == \A a \in Attempts :
    Cardinality({c \in late : c.attempt = a}) <= 1

\* tool-provider.md says transient failures of the infrastructure are retried:
\* no run is answered with the report of one.
TransientFailureIsNotTheAnswer ==
    row.status = "succeeded" => row.answer \notin Retryable
=============================================================================
