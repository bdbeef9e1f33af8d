----------------------------- MODULE MCCostRollup -----------------------------
(* A small set of payloads for TLC. *)
EXTENDS CostRollup, TLC

\* A purchased lot, a half-finished one and two finished batches.
RawLots == [qualified: {2, 3, 4}, defective: {0, 1}, amount: {1, 3}]
HalfLots == [qualified: {1, 2}, defective: {0}, amount: {0, 1}]
BadLots == {[qualified |-> 0, defective |-> 0, amount |-> 1],
            [qualified |-> 2, defective |-> -1, amount |-> 1],
            [qualified |-> 2, defective |-> 0, amount |-> -1]}
FinishedLot == [qualified |-> 1, defective |-> 0, amount |-> 1]

Lots(raws, halves) ==
    {"raw" :> raw @@ "half" :> half @@ "left" :> FinishedLot @@ "right" :> FinishedLot :
        raw \in raws, half \in halves}

\* What flows forward; then the ways to be refused: a lot made from a later one,
\* from itself, into a purchase, from an event that does not exist, or nothing.
Flow(source, target, consumed) ==
    {[source |-> source, target |-> target, consumed |-> c] : c \in consumed}
Flows == UNION {Flow("raw", "half", 1..2), Flow("raw", "left", 1..2),
                Flow("raw", "right", 1..2), Flow("half", "left", 1..2),
                Flow("half", "right", {1}),
                Flow("left", "half", {1}), Flow("half", "raw", {1}), Flow("right", "right", {1}),
                Flow("none", "left", {1}), Flow("raw", "left", {0})}

Graphs == [lots: Lots(RawLots \cup BadLots, HalfLots),
           inputs: UNION {[1..n -> Flows] : n \in 1..3}]

\* Four shares of one lot, of which three are rounded up.
Fans == [lots: Lots([qualified: {10}, defective: {0}, amount: {2, 3}], HalfLots),
         inputs: [1..4 -> Flow("raw", "left", {1, 3})]]

SmallPayloads == Graphs \cup Fans
=============================================================================
