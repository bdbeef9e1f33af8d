------------------------------ MODULE CostRollup ------------------------------
(***************************************************************************)
(* What happens to the content of an import: its validation, and at the    *)
(* publication the roll-up of cost along the graph of events, once for     *)
(* every finished batch, over the part of the graph that leads to it.      *)
(*                                                                         *)
(* Sources: services/cost_data_import_service.py, domain/cost.py,          *)
(* services/cost_source_builder.py, services/cost_calculation_service.py.  *)
(* ImportJobs has the jobs around it and sees of a content only whether it *)
(* is valid.                                                               *)
(*                                                                         *)
(* Amounts are cents and quantities ten-thousandths, both integers. All    *)
(* cost codes are rolled up alike and apart: the model has one. A ratio is *)
(* exact here and has 28 digits in the code. Checks that a row fails or    *)
(* passes on its own (text, units, dates, duplicates) are left out unless  *)
(* the roll-up relies on them.                                             *)
(***************************************************************************)
EXTENDS Integers, FiniteSets, Functions

CONSTANTS Events,     \* ids of the cost events of a payload
          NoEvent,    \* an id that no event has
          Inputs,     \* ids of the input edges, ordered as the code sorts them
          Purchases,  \* events of type purchase, the others are of type process
          Finished,   \* events whose part is a finished_good
          Payloads    \* the payloads that may be submitted

Lot == [qualified: Int, defective: Int, amount: Int]
Edge == [source: Events \cup {NoEvent}, target: Events \cup {NoEvent}, consumed: Int]

\* Some of the keys have a value.
Partial(f, keys, values) == DOMAIN f \subseteq keys /\ f \in [DOMAIN f -> values]
IsPayload(p) == p.lots \in [Events -> Lot] /\ Partial(p.inputs, Inputs, Edge)

ASSUME CostRollupAssumption ==
    /\ IsFiniteSet(Events) /\ NoEvent \notin Events
    /\ Inputs \subseteq Nat /\ IsFiniteSet(Inputs)
    /\ Purchases \subseteq Events /\ Finished \subseteq Events
    /\ \A p \in Payloads : IsPayload(p)

VARIABLES payload,    \* the four record sets
          phase,      \* of the import job
          todo,       \* finished batches whose projection is still to be written
          rollup,     \* roll_up_cost_graph in progress, on the subgraph of one of them
          projection  \* by finished batch, the result of its roll-up

vars == <<payload, phase, todo, rollup, projection>>

Empty == [x \in {} |-> 0]
NoRollup == [root |-> NoEvent, events |-> {}, edges |-> {},
             accumulated |-> Empty, allocated |-> Empty]

Phases == {"validating", "validation_failed", "approved", "publishing", "published",
           "publish_failed"}
IsResult(r) == /\ r.events \subseteq Events /\ r.edges \subseteq Inputs
               /\ Partial(r.accumulated, r.events, Int) /\ Partial(r.allocated, r.edges, Int)

TypeOK == /\ IsPayload(payload)
          /\ phase \in Phases
          /\ todo \subseteq Finished
          /\ rollup.root \in Events \cup {NoEvent} /\ IsResult(rollup)
          /\ DOMAIN projection \subseteq Finished
          /\ \A r \in DOMAIN projection : projection[r].root = r /\ IsResult(projection[r])

-----------------------------------------------------------------------------
(* The graph of a payload *)

Edges == DOMAIN payload.inputs
Source(i) == payload.inputs[i].source
Target(i) == payload.inputs[i].target
Consumed(i) == payload.inputs[i].consumed
Qualified(e) == payload.lots[e].qualified
Completed(e) == Qualified(e) + payload.lots[e].defective

OutOf(e, edges) == {i \in edges : Source(i) = e}
Into(e, edges) == {i \in edges : Target(i) = e}
Used(e, edges) == SumFunction([i \in OutOf(e, edges) |-> Consumed(i)])

\* TopologicalSorter raises a CycleError: some events each need another of them.
Cyclic(events) == \E E \in SUBSET events :
    E # {} /\ \A e \in E : \E i \in Into(e, Edges) : Source(i) \in E

-----------------------------------------------------------------------------
(* _validate_records *)

LotErrors(e) == \/ Qualified(e) < 0 \/ payload.lots[e].defective < 0
                \/ Completed(e) <= 0 \/ payload.lots[e].amount < 0
EdgeErrors(i) == \/ {Source(i), Target(i)} \cap {NoEvent} # {}
                 \/ Target(i) = Source(i) \/ Target(i) \in Purchases
                 \/ Consumed(i) <= 0
OverConsumedCompleted(e) == Used(e, Edges) > Completed(e)
OverConsumed(e) == Used(e, Edges) > Qualified(e)

Accepted == /\ \A e \in Events : ~LotErrors(e) /\ ~OverConsumed(e)
            /\ \A i \in Edges : ~EdgeErrors(i)
            /\ ~Cyclic(Events)

-----------------------------------------------------------------------------
(* _allocate_amounts *)

Smaller(m, n) == IF m < n THEN m ELSE n
Greater(m, n) == IF m < n THEN n ELSE m

\* quantize_money(total * ratio) for the ratio consumed / qualified: half up.
ShareCutOff(total, consumed, qualified) == (total * consumed) \div qualified
Share(total, consumed, qualified) ==
    (2 * total * consumed + qualified) \div (2 * qualified)

\* The shares of the edges c of one source. If they consume all that is
\* qualified, the last edge receives the cents that are missing; cents in excess
\* are taken from the shares that were rounded up most, each to the last cent.
AllocateMissingOnly(total, qualified, c) ==
    LET share == [i \in DOMAIN c |-> Share(total, c[i], qualified)]
        missing == total - SumFunction(share)
        Last(i) == \A j \in DOMAIN c : j <= i
    IN  IF SumFunction(c) # qualified \/ missing < 0 THEN share
        ELSE [i \in DOMAIN c |-> IF Last(i) THEN share[i] + missing ELSE share[i]]
Allocate(total, qualified, c) ==
    LET share == [i \in DOMAIN c |-> Share(total, c[i], qualified)]
        missing == total - SumFunction(share)
        up == [i \in DOMAIN c |-> share[i] * qualified - total * c[i]]
        Last(i) == \A j \in DOMAIN c : j <= i
        Earlier(i) == {j \in DOMAIN c : up[j] > up[i] \/ (up[j] = up[i] /\ j < i)}
        Cut(i) == Smaller(share[i],
                          Greater(0, (-missing) - SumFunctionOnSet(share, Earlier(i))))
    IN  IF SumFunction(c) # qualified THEN share
        ELSE IF missing > 0
        THEN [i \in DOMAIN c |-> IF Last(i) THEN share[i] + missing ELSE share[i]]
        ELSE [i \in DOMAIN c |-> share[i] - Cut(i)]

-----------------------------------------------------------------------------
(* build_finished_batch_sources *)

\* A finished batch that something else consumes has no projection of its own.
RootsOfAnyPart == {e \in Events \ Purchases : OutOf(e, Edges) = {}}
Roots == {e \in Finished \ Purchases : OutOf(e, Edges) = {}}

Ids == Events \cup {NoEvent}
Closed(E) == \A i \in Edges : Target(i) \in E => Source(i) \in E

\* What a finished batch was made of, and the edges between.
Needed(root) == {e \in Ids : \A E \in SUBSET Ids : root \in E /\ Closed(E) => e \in E}
Within(events) == {i \in Edges : {Source(i), Target(i)} \subseteq events}

-----------------------------------------------------------------------------
(* The life of a payload *)

Init == /\ payload \in Payloads
        /\ phase = "validating"
        /\ todo = {}
        /\ rollup = NoRollup
        /\ projection = Empty

\* validate_payload; the approval is a user's.
Validate == /\ phase = "validating"
            /\ phase' = IF Accepted THEN "approved" ELSE "validation_failed"
            /\ UNCHANGED <<payload, todo, rollup, projection>>

\* publish_validated_snapshot: one transaction, up to Commit or Fail.
Publish == /\ phase = "approved"
           /\ phase' = "publishing"
           /\ todo' = Roots
           /\ UNCHANGED <<payload, rollup, projection>>

\* An exception rolls everything back.
Fail == /\ phase' = "publish_failed"
        /\ todo' = {} /\ rollup' = NoRollup /\ projection' = Empty
        /\ UNCHANGED payload

\* roll_up_cost_graph begins: the events are known and can be sorted.
Begin(root) == LET events == Needed(root) IN
    /\ phase = "publishing" /\ rollup = NoRollup /\ root \in todo
    /\ IF NoEvent \in events \/ Cyclic(events) THEN Fail
       ELSE /\ rollup' = [NoRollup EXCEPT !.root = root, !.events = events,
                                           !.edges = Within(events)]
            /\ UNCHANGED <<payload, phase, todo, projection>>

\* An event in the order of the sorter: any whose sources are done. The order is
\* not fixed by the payload, the sorter keeps predecessors in sets.
Ready(e) == \A i \in Into(e, rollup.edges) : Source(i) \in DOMAIN rollup.accumulated

\* The edges whose allocations the event inherits.
InheritedBySource(e) == {i \in Into(e, rollup.edges) :
    \A j \in Into(e, rollup.edges) : Source(j) = Source(i) => j <= i}
Inherited(e) == Into(e, rollup.edges)

RollUp(e) == LET cost == payload.lots[e].amount
                            + SumFunctionOnSet(rollup.allocated, Inherited(e))
                 out == OutOf(e, rollup.edges)
                 shares == Allocate(cost, Qualified(e), [i \in out |-> Consumed(i)])
    IN
    /\ rollup.root \in Events
    /\ e \in rollup.events \ DOMAIN rollup.accumulated
    /\ Ready(e)
    /\ IF \/ out # {} /\ Qualified(e) <= 0
          \/ Used(e, out) > Qualified(e)
       THEN Fail
       ELSE /\ rollup' = [rollup EXCEPT
                  !.accumulated = [d \in DOMAIN @ \cup {e} |-> IF d = e THEN cost ELSE @[d]],
                  !.allocated = [i \in DOMAIN @ \cup out |->
                                    IF i \in out THEN shares[i] ELSE @[i]]]
            /\ UNCHANGED <<payload, phase, todo, projection>>

\* calculate_finished_batch_cost: the contract FinishedBatchCostDetail bounds
\* what the trace of a batch may show.
Presentable == /\ \A e \in DOMAIN rollup.accumulated :
                     /\ Qualified(e) >= 0 /\ payload.lots[e].defective >= 0
                     /\ Completed(e) > 0
                     /\ payload.lots[e].amount >= 0 /\ rollup.accumulated[e] >= 0
               /\ \A i \in DOMAIN rollup.allocated :
                     Consumed(i) > 0 /\ rollup.allocated[i] >= 0

Project == /\ rollup.root \in Events
           /\ DOMAIN rollup.accumulated = rollup.events
           /\ IF ~Presentable THEN Fail
              ELSE /\ projection' = [r \in DOMAIN projection \cup {rollup.root} |->
                                       IF r = rollup.root THEN rollup ELSE projection[r]]
                   /\ todo' = todo \ {rollup.root}
                   /\ rollup' = NoRollup
                   /\ UNCHANGED <<payload, phase>>

Commit == /\ phase = "publishing" /\ todo = {} /\ rollup = NoRollup
          /\ phase' = "published"
          /\ UNCHANGED <<payload, todo, rollup, projection>>

\* The worker is through with the payload: no deadlock.
Over == phase \in {"validation_failed", "published", "publish_failed"} /\ UNCHANGED vars

Next == \/ Validate \/ Publish \/ Project \/ Commit \/ Over
        \/ \E e \in Events : Begin(e) \/ RollUp(e)

Spec == Init /\ [][Next]_vars

-----------------------------------------------------------------------------
(* Properties *)

\* Validation guarantees what the publication relies on: no payload it accepted
\* makes the roll-up, or the contract of its result, raise an error.
AcceptedNeverFails == phase # "publish_failed"

\* Whatever order the sorter chose, the results solve the equations of
\* data/cost-accounting-format.md: no event was rolled up from a source whose
\* cost changed afterwards, or twice from a source that two paths share.
Solved(r) == \A e \in projection[r].events : LET out == OutOf(e, projection[r].edges) IN
    /\ projection[r].accumulated[e] = payload.lots[e].amount
          + SumFunctionOnSet(projection[r].allocated, Into(e, projection[r].edges))
    /\ \A i \in out :
          2 * projection[r].accumulated[e] * Consumed(i)
             - 2 * projection[r].allocated[i] * Qualified(e)
          \in (-Qualified(e) * Cardinality(out))..(Qualified(e) * Cardinality(out))
ResultSolvesTheEquations == \A r \in DOMAIN projection : Solved(r)

\* Shares are never negative, and those of a fully consumed event add up to its
\* cost to the cent.
Exhausted(e, edges) == OutOf(e, edges) # {} /\ Used(e, edges) = Qualified(e)
FullConsumptionConserves == \A r \in DOMAIN projection : \A e \in projection[r].events :
    /\ \A i \in OutOf(e, projection[r].edges) : projection[r].allocated[i] >= 0
    /\ Exhausted(e, projection[r].edges) =>
          SumFunctionOnSet(projection[r].allocated, OutOf(e, projection[r].edges))
             = projection[r].accumulated[e]

\* A batch that used up all it was made of, defective pieces included, carries
\* the whole cost of it, each cent once.
WholeCostArrives == \A r \in DOMAIN projection :
    (\A e \in projection[r].events \ {r} : Exhausted(e, projection[r].edges)) =>
       projection[r].accumulated[r]
          = SumFunctionOnSet([e \in Events |-> payload.lots[e].amount], projection[r].events)

\* data/cost-accounting-format.md: if the qualified quantity of an event is
\* consumed in full, what is allocated to its edges is its cost. The edges are
\* those of the snapshot, each shown in the traces of the batches it leads to.
TracesOf(i) == {r \in DOMAIN projection : i \in projection[r].edges}
SnapshotConserves == \A e \in Events : LET out == OutOf(e, Edges) IN
    Exhausted(e, Edges) /\ (\A i \in out : TracesOf(i) # {}) =>
       \E trace \in [out -> DOMAIN projection] :
          /\ \A i \in out : trace[i] \in TracesOf(i)
          /\ \E r \in DOMAIN projection : e \in projection[r].events /\
                SumFunction([i \in out |-> projection[trace[i]].allocated[i]])
                   = projection[r].accumulated[e]
=============================================================================
