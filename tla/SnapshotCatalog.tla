--------------------------- MODULE SnapshotCatalog ---------------------------
(***************************************************************************)
(* What the import pipeline promises to the readers of cost data: a job    *)
(* moves only along ALLOWED_JOB_TRANSITIONS (repositories/                 *)
(* import_job_repository.py), so that nothing is published without an      *)
(* approval, and every tenant has one current snapshot, replaced in the    *)
(* very step that publishes the next one and never brought back.           *)
(***************************************************************************)

CONSTANTS Jobs, Tenants, TenantOf, NoJob

VARIABLES status,   \* status[j]: data_import_jobs.status, "absent" before the insert
          current,  \* current[c]: the job whose snapshot tenant c's queries read
          retired   \* the jobs whose snapshot was current once

vars == <<status, current, retired>>

TerminalStatuses ==
    {"validation_failed", "rejected", "published", "publish_failed", "cancelled"}
Statuses == {"absent", "submitted", "validating", "approval_pending", "approved",
             "publishing"} \cup TerminalStatuses

AllowedTransitions ==
    [absent            |-> {"submitted"},
     submitted         |-> {"validating", "cancelled"},
     validating        |-> {"validation_failed", "approval_pending", "cancelled"},
     approval_pending  |-> {"approved", "rejected", "cancelled"},
     approved          |-> {"publishing"},
     publishing        |-> {"published", "publish_failed"},
     validation_failed |-> {},
     rejected          |-> {},
     published         |-> {},
     publish_failed    |-> {},
     cancelled         |-> {}]

Init == /\ status = [j \in Jobs |-> "absent"]
        /\ current = [c \in Tenants |-> NoJob]
        /\ retired = {}

Move(j, s) == /\ s \in AllowedTransitions[status[j]]
              /\ status' = [status EXCEPT ![j] = s]
              /\ IF s = "published"
                 THEN /\ current' = [current EXCEPT ![TenantOf[j]] = j]
                      /\ retired' = retired \cup ({current[TenantOf[j]]} \ {NoJob})
                 ELSE UNCHANGED <<current, retired>>

Next == \E j \in Jobs, s \in Statuses : Move(j, s)

Spec == Init /\ [][Next]_vars
=============================================================================
