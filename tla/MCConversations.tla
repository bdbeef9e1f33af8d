--------------------------- MODULE MCConversations ---------------------------
(* Two conversations, two message ids, three runs and pages of one message, so *)
(* that a page ends between the two messages of a turn.                        *)
EXTENDS Conversations, TLC

CONSTANTS c1, c2, m1, m2

MCConvs == {c1, c2}
MCMessages == {m1, m2}
Symmetric == Permutations(MCConvs) \cup Permutations(MCMessages)
=============================================================================
