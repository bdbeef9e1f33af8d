---------------------------- MODULE MCRuntimeCalls ----------------------------
(* Small instances of the calls of a run for TLC. *)
EXTENDS RuntimeCalls, TLC

\* The cost route for a comparison of two periods: load_finished_batches,
\* build_report_json and final_answer.
CostRoute == <<<<"tool", "tool">>, <<"model", "tool">>, <<>>>>

\* Enough for one attempt, too little for two that share no checkpoint.
Tight == "model" :> 2 @@ "tool" :> 3
=============================================================================
