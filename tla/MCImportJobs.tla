----------------------------- MODULE MCImportJobs -----------------------------
(* Small instances of the import jobs for TLC. *)
EXTENDS ImportJobs, TLC

CONSTANTS j1, j2, c1, k1, k2, p1, p2, bad, s1, s2

OneTenant == [j \in Jobs |-> c1]

\* agent_worker_concurrency = 1, the default: worker and slot have one name.
OneSlotEach == [t \in Slots |-> t]

\* agent_worker_concurrency = 2: both slots in one worker.
TwoSlots == [t \in Slots |-> s1]

Symmetry == Permutations({j1, j2}) \cup Permutations({k1, k2})
            \cup Permutations({p1, p2}) \cup Permutations({s1, s2})
=============================================================================
