------------------------------ MODULE CostViews ------------------------------
(***************************************************************************)
(* The figures made from the accumulated costs of a finished batch: its    *)
(* three views, their aggregation over the batches of a part and a period, *)
(* the totals of the overview, and the comparison of two periods.          *)
(*                                                                         *)
(* Amounts are cents, quantities ten-thousandths; a batch is a record with *)
(* its amounts by cost group (post-manufacturing costs by cost code) and   *)
(* its quantities.  A unit cost is rounded half up to the cent.            *)
(* Sources: services/cost_calculation_service.py, services/report_service. *)
(***************************************************************************)
EXTENDS Integers, FiniteSets, Functions

MaterialGroups == {"direct_material"}
LaborGroups == {"direct_labor", "indirect_labor"}
OverheadGroups == {"direct_energy", "main_equipment_depreciation", "manufacturing_overhead"}
ManufacturingGroups == MaterialGroups \cup LaborGroups \cup OverheadGroups
Variable1Groups == {"direct_material", "direct_labor", "direct_energy"}
Fixed1Groups == ManufacturingGroups \ Variable1Groups
VariablePost == {"after_sales_compensation", "transportation"}
FixedPost == {"storage_fee"}
PostCodes == VariablePost \cup FixedPost
Groups == ManufacturingGroups \cup PostCodes

\* The sum of the amounts f over S.
Total(f, S) == SumFunctionOnSet(f, S)

\* n / d, d > 0, to the nearest integer, a half away from zero (n >= 0).
HalfUp(n, d) == (2 * n + d) \div (2 * d)

\* Unit costs are cents per whole unit.
Metric(amount, completed) ==
    [amount |-> amount,
     unit_cost |-> IF completed > 0 THEN HalfUp(amount * 10000, completed) ELSE 0]

\* Percent with two decimals.
Percent(part, whole) == IF whole = 0 THEN 0 ELSE HalfUp(part * 10000, whole)

\* The view of variable and fixed costs, before (1) and with (2) the costs that
\* arise after manufacturing: variable ones (v) and fixed ones (f).
\* Mutant: the storage fee is left out of the fixed costs.
VariableFixedWithoutStorage(variable1, fixed1, v, f, completed) ==
    [variable_cost_1 |-> Metric(variable1, completed),
     fixed_cost_1 |-> Metric(fixed1, completed),
     variable_cost_2 |-> Metric(variable1 + v, completed),
     fixed_cost_2 |-> Metric(fixed1, completed),
     total_cost_2 |-> Metric(variable1 + v + fixed1, completed)]
VariableFixed(variable1, fixed1, v, f, completed) ==
    [variable_cost_1 |-> Metric(variable1, completed),
     fixed_cost_1 |-> Metric(fixed1, completed),
     variable_cost_2 |-> Metric(variable1 + v, completed),
     fixed_cost_2 |-> Metric(fixed1 + f, completed),
     total_cost_2 |-> Metric(variable1 + v + fixed1 + f, completed)]

\* The three views of one set of amounts by group.
Views(amounts, completed) ==
    LET sum(S)        == Total(amounts, S)
        manufacturing == sum(ManufacturingGroups)
        v             == sum(VariablePost)
        f             == sum(FixedPost)
    IN  [groups |-> [g \in ManufacturingGroups |->
                        [metric |-> Metric(amounts[g], completed),
                         share |-> Percent(amounts[g], manufacturing)]],
         manufacturing |-> Metric(manufacturing, completed),
         material |-> Metric(sum(MaterialGroups), completed),
         labor |-> Metric(sum(LaborGroups), completed),
         overhead |-> Metric(sum(OverheadGroups), completed),
         variable_fixed |->
             VariableFixed(sum(Variable1Groups), sum(Fixed1Groups), v, f, completed),
         post |-> v + f]

\* The projection of a batch: its figures, computed once when it is published.
Projected(b) == [b EXCEPT !.views = Views(b.amounts, b.completed)]

\* aggregate_part_period_costs: amounts of a part's batches are added up and the
\* unit costs derived from the total of the completed quantities.
Aggregate(batches) ==
    LET completed == Total([b \in batches |-> b.completed], batches)
        qualified == Total([b \in batches |-> b.qualified], batches)
        amounts   == [g \in Groups |->
            Total([b \in batches |-> IF g \in ManufacturingGroups
                                     THEN b.views.groups[g].metric.amount ELSE b.amounts[g]],
                  batches)]
    IN  [batch_count |-> Cardinality(batches), completed |-> completed,
         quality_rate |-> Percent(qualified, completed), views |-> Views(amounts, completed)]

\* overview_projection: sums of the columns of the projections.
OverviewTotals(batches) ==
    [batch_count |-> Cardinality(batches),
     manufacturing |-> Total([b \in batches |-> b.views.manufacturing.amount], batches),
     post |-> Total([b \in batches |-> b.views.post], batches),
     total |-> Total([b \in batches |-> b.views.variable_fixed.total_cost_2.amount], batches)]

\* _build_period_comparison: the changes of the headline figures and the groups.
Comparison(base, current) ==
    LET delta(of(_)) == of(current) - of(base)
    IN  [total |-> delta(LAMBDA a : a.views.variable_fixed.total_cost_2.unit_cost),
         manufacturing |-> delta(LAMBDA a : a.views.manufacturing.unit_cost),
         completed |-> delta(LAMBDA a : a.completed),
         quality_rate |-> delta(LAMBDA a : a.quality_rate),
         groups |-> [g \in ManufacturingGroups |->
                        delta(LAMBDA a : a.views.groups[g].metric.unit_cost)]]
=============================================================================
