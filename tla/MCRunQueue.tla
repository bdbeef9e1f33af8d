------------------------------ MODULE MCRunQueue ------------------------------
(* Small instances of the run queue for TLC. *)
EXTENDS RunQueue, TLC

CONSTANTS r1, r2, c1, w1, w2, s1, s2

OneConversation == [r \in Runs |-> c1]

\* agent_worker_concurrency = 1, the default: every worker has one slot.
OneSlotEach == s1 :> w1 @@ s2 :> w2

\* A worker with two slots beside one with a single slot.
TwoSlots == s1 :> w1 @@ s2 :> w1
=============================================================================
