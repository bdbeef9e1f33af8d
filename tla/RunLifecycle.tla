---------------------------- MODULE RunLifecycle ----------------------------
(***************************************************************************)
(* What the durable run queue promises about every run, whatever workers,  *)
(* leases, retries and crashes do underneath: a run moves only along the   *)
(* edges of ALLOWED_RUN_TRANSITIONS (repositories/run_repository.py), and  *)
(* the user-visible turn of the conversation is written once, in the very  *)
(* step that settles the run, and only by the two outcomes that have one.  *)
(***************************************************************************)

CONSTANT Runs

VARIABLES status,  \* status[r]: agent_runs.status, "absent" before the insert
          turn     \* turn[r]: what the run's turn row holds, "none" without one

vars == <<status, turn>>

ActiveStatuses == {"queued", "running", "retry_wait", "finalizing"}
TerminalStatuses == {"succeeded", "failed", "cancelled"}
Statuses == {"absent"} \cup ActiveStatuses \cup TerminalStatuses

AllowedTransitions ==
    [absent     |-> {"queued"},
     queued     |-> {"running", "cancelled", "failed"},
     running    |-> {"finalizing", "retry_wait", "failed", "cancelled"},
     retry_wait |-> {"running", "cancelled", "failed"},
     finalizing |-> {"succeeded", "failed"},
     succeeded  |-> {},
     failed     |-> {},
     cancelled  |-> {}]

\* The turn a run has once it reached status s.
TurnAfter(s) == CASE s = "succeeded" -> "result"
                  [] s = "cancelled" -> "cancelled"
                  [] OTHER -> "none"

Init == /\ status = [r \in Runs |-> "absent"]
        /\ turn = [r \in Runs |-> "none"]

Move(r, s) == /\ s \in AllowedTransitions[status[r]]
              /\ status' = [status EXCEPT ![r] = s]
              /\ turn' = [turn EXCEPT ![r] = TurnAfter(s)]

Next == \E r \in Runs, s \in Statuses : Move(r, s)

Spec == Init /\ [][Next]_vars
=============================================================================
