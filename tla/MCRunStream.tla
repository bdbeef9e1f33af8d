----------------------------- MODULE MCRunStream -----------------------------
(* Two transactions that append at the same time, five event ids with that of  *)
(* the submission, one call of cancel() at a time, and two faults.             *)
EXTENDS RunStream, TLC

CONSTANTS w1, w2, k1

MCWriters == {w1, w2}
MCClicks == {k1}
=============================================================================
