---------------------------- MODULE DialogueProofs ----------------------------
(***************************************************************************)
(* The promises of a turn, for every set of questions, replies, texts and  *)
(* parts, every sequence of catalogues and any number of turns.            *)
(*                                                                         *)
(* What a turn asks about is settled once, at the gate.  Until then it has *)
(* read nothing; from then on its reads are of the part and the periods    *)
(* that passed the gate (GateOK), and a turn that answers has read all of  *)
(* them (CompleteOK).  The model cannot reach a period, because each of    *)
(* the merged slots takes from its reply only where the question itself    *)
(* decides (PeriodLemma, BaseLemma).                                       *)
(***************************************************************************)
EXTENDS Dialogue, FiniteSetTheorems, TLAPS

-----------------------------------------------------------------------------
(* The inductive invariant *)

Early == {"select_route", "understand_question", "merge_context_slots",
          "clarification_gate"}
Loading == {"load_target", "load_base"}
Reporting == {"calculate_cost", "build_report_json"}

\* Only data routes go past select_route, and only those the user is allowed.
RouteOK ==
    /\ pc \in Early \cup Loading \cup Reporting
                \cup {"idle", "request_clarification", "final_answer"}
    /\ pc \notin {"idle", "select_route", "final_answer"} => route \in DataRoutes
    /\ route \in DataRoutes => route \in grant

RangeOK(range) == range # None => range[1] \in Int /\ range[2] \in Int

\* A context has all its fields, and the clarification it owes is its last turn's.
ContextOK ==
    /\ ctx = [text |-> ctx.text, period |-> ctx.period, comparison |-> ctx.comparison,
              style |-> ctx.style, range |-> ctx.range, route |-> ctx.route,
              pending |-> ctx.pending]
    /\ RangeOK(ctx.range)
    /\ QuestionStaysOpen

SlotsOK ==
    /\ RangeOK(slots.range)
    /\ slots.style # "period_comparison" => slots.comparison = None

\* What the gate has let through.
Settled ==
    /\ missing = {} /\ route \in DataRoutes
    /\ part \in Matches[slots.text].exact \cup Matches[slots.text].partial
    /\ slots.range # None => slots.range[1] <= slots.range[2]
    /\ slots.style = "period_comparison" => slots.comparison # slots.period

GateOK ==
    /\ pc \in Early \cup {"request_clarification", "load_target"} => reads = {}
    /\ pc = "request_clarification" => missing # {}
    /\ pc \in Loading \cup Reporting => Settled
    /\ pc = "load_base" =>
          slots.style = "period_comparison" /\ reads \subseteq {<<part, slots.period>>}
    /\ reads # {} => Settled
    /\ reads \subseteq {part} \X {slots.period, slots.comparison}
    /\ reads \subseteq Parts \X Int

\* An answer has been computed from all it is about.
Computed == pc \in Reporting \/ (pc = "final_answer" /\ route \in DataRoutes /\ ~failed)
CompleteOK ==
    Computed => reads = {part} \X ({slots.period, slots.comparison} \ {None})

IInv ==
    /\ cat \in Catalogs /\ (pc # "idle" => q \in Questions)
    /\ RouteOK /\ ContextOK /\ SlotsOK /\ GateOK /\ CompleteOK
    /\ ModelDecidesNoPeriod

-----------------------------------------------------------------------------
(* What the merged slots take from the model's reply *)

\* A target period is read off the question or inherited: where the parsed period is
\* used, the question writes months and no days, and then it is the latest of them.
LEMMA PeriodLemma ==
  ASSUME NEW x, NEW r, NEW s, NEW c
  PROVE  MergedPeriod(x, r, c) = MergedPeriod(x, s, c)
<1>1. CASE Relative(x, c.period) # None \/ MergedRange(x, c) # None \/ Written(x) = {}
  BY <1>1 DEF MergedPeriod
<1>2. CASE Relative(x, c.period) = None /\ MergedRange(x, c) = None /\ Written(x) # {}
  <2>1. DateRange(x) = None
    BY <1>2 DEF MergedRange
  <2>2. Parsed(x, r).period = Latest(x) /\ Parsed(x, s).period = Latest(x)
    BY <1>2, <2>1 DEF Parsed
  <2> QED BY <1>2, <2>2 DEF MergedPeriod
<1> QED BY <1>1, <1>2

\* So is the base of a comparison the question asks for: the parsed one is used only
\* if the question writes two months, and then it is the second latest of them.
LEMMA BaseLemma ==
  ASSUME NEW x, NEW r, NEW s, NEW c, Asked(x) = "period_comparison"
  PROVE  MergedComparison(x, r, c) = MergedComparison(x, s, c)
<1>1. MergedPeriod(x, r, c) = MergedPeriod(x, s, c)
  BY PeriodLemma
<1>2. Cardinality(Written(x)) >= 2 =>
        Parsed(x, r).comparison = Parsed(x, s).comparison
  BY DEF Parsed
<1> QED BY <1>1, <1>2 DEF MergedComparison

\* A range is written as numbers, or inherited.
LEMMA RangeLemma ==
  ASSUME NEW x \in Questions, NEW c, RangeOK(c.range)
  PROVE  RangeOK(MergedRange(x, c))
<1>1. RangeOK(DateRange(x))
  <2>1. x.dates \in Seq(Int)
    BY QuestionAssumption
  <2>2. CASE x.dates = <<>>
    BY <2>2 DEF DateRange, RangeOK
  <2>3. CASE x.dates # <<>>
    <3>1. PICK d, n : d = x.dates /\ n = Len(d)
      OBVIOUS
    <3>2. d[1] \in Int /\ d[n] \in Int
      BY <2>1, <2>3, <3>1
    <3>3. DateRange(x) = <<d[1], d[n]>>
      BY <2>3, <3>1 DEF DateRange
    <3> QED BY <3>2, <3>3 DEF RangeOK
  <2> QED BY <2>2, <2>3
<1> QED BY <1>1 DEF MergedRange, RangeOK

-----------------------------------------------------------------------------
(* Every step *)

LEMMA InitInv == Init => IInv
<1> SUFFICES ASSUME Init PROVE IInv
  OBVIOUS
<1>1. ContextOK
  <2>1. PICK c : c = EmptyContext
    OBVIOUS
  <2>2. /\ c.text = None /\ c.period = None /\ c.comparison = None
        /\ c.style = "presentation" /\ c.range = None /\ c.route = None
        /\ c.pending = FALSE
    BY <2>1 DEF EmptyContext
  <2>3. c = [text |-> c.text, period |-> c.period, comparison |-> c.comparison,
             style |-> c.style, range |-> c.range, route |-> c.route,
             pending |-> c.pending]
    BY <2>1 DEF EmptyContext
  <2>4. QuestionStaysOpen
    <3>1. last # "needs_clarification"
      BY NoneAssumption DEF Init, Outcomes
    <3>2. ctx.pending = FALSE
      BY <2>1, <2>2, Zenon DEF Init
    <3> QED BY <3>1, <3>2 DEF QuestionStaysOpen
  <2> QED BY <2>1, <2>2, <2>3, <2>4 DEF Init, ContextOK, RangeOK
<1>2. SlotsOK
  BY DEF Init, SlotsOK, NoSlots, RangeOK
<1>3. RouteOK
  BY DEF Init, RouteOK, DataRoutes
<1>4. GateOK /\ CompleteOK
  BY DEF Init, GateOK, CompleteOK, Computed, Early, Loading, Reporting
<1>5. ModelDecidesNoPeriod
  BY DEF Init, ModelDecidesNoPeriod, Merged
<1> QED BY <1>1, <1>2, <1>3, <1>4, <1>5 DEF Init, IInv

\* What only depends on the context or on the slots, when these stay.
LEMMA ContextKept ==
  ASSUME ContextOK, UNCHANGED <<ctx, last>>
  PROVE  ContextOK'
BY DEF ContextOK, QuestionStaysOpen, RangeOK

LEMMA SlotsKept ==
  ASSUME SlotsOK, UNCHANGED slots
  PROVE  SlotsOK'
BY DEF SlotsOK, RangeOK

LEMMA PeriodsKept ==
  ASSUME ModelDecidesNoPeriod, UNCHANGED <<ctx, q, slots>>, Merged' => Merged
  PROVE  ModelDecidesNoPeriod'
<1>1. ASSUME NEW r \in Replies, Merged
      PROVE  /\ slots'.period = MergedPeriod(q', r, ctx')
             /\ Asked(q') = "period_comparison" =>
                   slots'.comparison = MergedComparison(q', r, ctx')
  BY <1>1 DEF ModelDecidesNoPeriod
<1> QED BY <1>1 DEF ModelDecidesNoPeriod

LEMMA SettledKept ==
  ASSUME Settled, UNCHANGED <<missing, route, part, slots>>
  PROVE  Settled'
BY DEF Settled

\* A step within a turn that leaves its slots alone and reads nothing.
LEMMA GateKept ==
  ASSUME GateOK, UNCHANGED <<missing, route, part, slots, reads>>,
         pc' \in Early \cup {"request_clarification", "load_target"} => reads = {},
         pc' = "request_clarification" => missing # {},
         pc' \in Loading \cup Reporting => Settled,
         pc' # "load_base"
  PROVE  GateOK'
BY DEF GateOK, Settled

LEMMA SubmitStep == ASSUME IInv, Submit PROVE IInv'
<1>1. ContextOK'
  BY ContextKept DEF IInv, Submit
<1>2. SlotsOK'
  BY DEF Submit, SlotsOK, NoSlots, RangeOK
<1>3. RouteOK' /\ GateOK' /\ CompleteOK' /\ ModelDecidesNoPeriod'
  BY DEF Submit, RouteOK, GateOK, CompleteOK, Computed, ModelDecidesNoPeriod, Merged,
         Early, Loading, Reporting, DataRoutes
<1> QED BY <1>1, <1>2, <1>3 DEF IInv, Submit

LEMMA SelectStep == ASSUME IInv, SelectRoute PROVE IInv'
<1>1. ContextOK' /\ SlotsOK'
  BY ContextKept, SlotsKept DEF IInv, SelectRoute
<1>2. RouteOK'
  BY DEF IInv, SelectRoute, RouteOK, Allowed, DataRoutes, Early
<1>3. reads = {} /\ reads' = {} /\ pc' \in {"understand_question", "final_answer"}
  BY DEF IInv, SelectRoute, GateOK, Early
<1>4. GateOK'
  BY <1>3 DEF GateOK, Early, Loading, Reporting
<1>5. CompleteOK'
  BY DEF SelectRoute, CompleteOK, Computed, Reporting
<1>6. ModelDecidesNoPeriod'
  BY <1>3 DEF ModelDecidesNoPeriod, Merged
<1> QED BY <1>1, <1>2, <1>4, <1>5, <1>6 DEF IInv, SelectRoute

LEMMA UnderstandStep == ASSUME IInv, UnderstandQuestion PROVE IInv'
<1>1. ContextOK' /\ SlotsOK'
  BY ContextKept, SlotsKept DEF IInv, UnderstandQuestion
<1>2. RouteOK'
  BY DEF IInv, UnderstandQuestion, RouteOK, Early
<1>3. GateOK'
  BY GateKept DEF IInv, UnderstandQuestion, GateOK, Early, Loading, Reporting
<1>4. CompleteOK' /\ ModelDecidesNoPeriod'
  BY DEF UnderstandQuestion, CompleteOK, Computed, Reporting, ModelDecidesNoPeriod, Merged
<1> QED BY <1>1, <1>2, <1>3, <1>4 DEF IInv, UnderstandQuestion

LEMMA MergeStep == ASSUME IInv, MergeContextSlots PROVE IInv'
<1>1. ContextOK'
  BY ContextKept DEF IInv, MergeContextSlots
<1>2. PICK s : s = slots'
  OBVIOUS
<1>3. /\ s.text = MergedText(q, reply, ctx) /\ s.period = MergedPeriod(q, reply, ctx)
      /\ s.comparison = MergedComparison(q, reply, ctx)
      /\ s.style = MergedStyle(q, ctx) /\ s.range = MergedRange(q, ctx)
  BY <1>2 DEF MergeContextSlots
<1>4. SlotsOK'
  <2>1. RangeOK(MergedRange(q, ctx))
    <3>1. q \in Questions /\ RangeOK(ctx.range)
      BY DEF IInv, MergeContextSlots, ContextOK
    <3>2. PICK x \in Questions, c \in {ctx} : x = q /\ c = ctx
      BY <3>1
    <3>3. RangeOK(MergedRange(x, c))
      BY <3>1, <3>2, RangeLemma
    <3> QED BY <3>2, <3>3
  <2>2. s.style # "period_comparison" => s.comparison = None
    BY <1>3 DEF MergedComparison
  <2> QED BY <1>2, <1>3, <2>1, <2>2 DEF SlotsOK, RangeOK
<1>5. RouteOK'
  BY DEF IInv, MergeContextSlots, RouteOK, Early
<1>6. GateOK'
  <2>1. reads = {} /\ reads' = {} /\ pc' = "clarification_gate"
    BY DEF IInv, MergeContextSlots, GateOK, Early
  <2> QED BY <2>1 DEF GateOK, Early, Loading, Reporting
<1>7. CompleteOK'
  BY DEF MergeContextSlots, CompleteOK, Computed, Reporting
<1>8. ModelDecidesNoPeriod'
  <2> SUFFICES ASSUME NEW r \in Replies
               PROVE  /\ slots'.period = MergedPeriod(q', r, ctx')
                      /\ Asked(q') = "period_comparison" =>
                            slots'.comparison = MergedComparison(q', r, ctx')
    BY DEF ModelDecidesNoPeriod
  <2>1. PICK x, a, c : x = q /\ a = reply /\ c = ctx
    OBVIOUS
  <2>2. q' = x /\ ctx' = c
    BY <2>1 DEF MergeContextSlots
  <2>3. MergedPeriod(x, a, c) = MergedPeriod(x, r, c)
    BY PeriodLemma
  <2>4. Asked(x) = "period_comparison" =>
           MergedComparison(x, a, c) = MergedComparison(x, r, c)
    BY BaseLemma
  <2> QED BY <1>2, <1>3, <2>1, <2>2, <2>3, <2>4
<1> QED BY <1>1, <1>4, <1>5, <1>6, <1>7, <1>8 DEF IInv, MergeContextSlots

\* Slots without a problem name one part and make sense together.
LEMMA NoProblem ==
  ASSUME Problems(slots) = {}, SlotsOK
  PROVE  /\ Candidates(slots.text) # {}
         /\ Candidates(slots.text)
               \subseteq Matches[slots.text].exact \cup Matches[slots.text].partial
         /\ slots.range # None => slots.range[1] <= slots.range[2]
         /\ slots.style = "period_comparison" => slots.comparison # slots.period
<1>1. /\ slots.text # None
      /\ ~(slots.text # None /\ Cardinality(Candidates(slots.text)) # 1)
      /\ ~(slots.range # None /\ slots.range[1] > slots.range[2])
      /\ ~(slots.style = "period_comparison" /\ slots.comparison = slots.period)
  BY DEF Problems
<1>2. Candidates(slots.text) # {}
  BY <1>1, FS_EmptySet
<1>3. slots.range # None => slots.range[1] <= slots.range[2]
  BY <1>1 DEF SlotsOK, RangeOK
<1>4. Candidates(slots.text)
         \subseteq Matches[slots.text].exact \cup Matches[slots.text].partial
  BY DEF Candidates
<1> QED BY <1>1, <1>2, <1>3, <1>4

LEMMA GateStep == ASSUME IInv, ClarificationGate PROVE IInv'
<1>1. ContextOK' /\ SlotsOK'
  BY ContextKept, SlotsKept DEF IInv, ClarificationGate
<1>2. RouteOK'
  BY DEF IInv, ClarificationGate, RouteOK, Early, Loading
<1>3. CompleteOK'
  BY DEF ClarificationGate, CompleteOK, Computed, Reporting
<1>4. ModelDecidesNoPeriod'
  BY PeriodsKept DEF IInv, ClarificationGate, Merged
<1>5. reads = {} /\ reads' = {} /\ route \in DataRoutes
  BY DEF IInv, ClarificationGate, GateOK, RouteOK, Early
<1>6. GateOK'
  <2>1. CASE missing' = {}
    <3>1. /\ pc' = "load_target" /\ Problems(slots) = {}
          /\ part' = CHOOSE p \in Candidates(slots.text) : TRUE
      BY <2>1 DEF ClarificationGate
    <3>2. part' \in Matches[slots.text].exact \cup Matches[slots.text].partial
      <4>1. PICK C : C = Candidates(slots.text)
        OBVIOUS
      <4>2. C # {} /\ C \subseteq Matches[slots.text].exact \cup Matches[slots.text].partial
        BY <3>1, <4>1, NoProblem DEF IInv
      <4>3. part' = CHOOSE p \in C : TRUE
        BY <3>1, <4>1
      <4>4. part' \in C
        BY <4>2, <4>3
      <4> QED BY <4>2, <4>4
    <3>3. Settled'
      BY <1>5, <2>1, <3>1, <3>2, NoProblem DEF IInv, Settled, ClarificationGate
    <3> QED BY <1>5, <3>1, <3>3 DEF GateOK, Early, Loading, Reporting
  <2>2. CASE missing' # {}
    <3>1. pc' = "request_clarification"
      BY <2>2 DEF ClarificationGate
    <3> QED BY <1>5, <2>2, <3>1 DEF GateOK, Early, Loading, Reporting
  <2> QED BY <2>1, <2>2
<1> QED BY <1>1, <1>2, <1>3, <1>4, <1>6 DEF IInv, ClarificationGate

\* The catalogue has batches of parts and months only.
LEMMA ReadsLemma ==
  ASSUME IInv, NEW x
  PROVE  {x} \cap cat.batches \subseteq Parts \X Int
BY CatalogAssumption DEF IInv

LEMMA TargetStep == ASSUME IInv, LoadTarget PROVE IInv'
<1>1. ContextOK' /\ SlotsOK'
  BY ContextKept, SlotsKept DEF IInv, LoadTarget, loadVars
<1>2. pc = "load_target" /\ pc' \in {"load_base", "calculate_cost", "final_answer"}
  BY DEF LoadTarget, Loaded
<1>3. RouteOK'
  BY <1>2 DEF IInv, LoadTarget, loadVars, RouteOK, Loading, Reporting
<1>4. ModelDecidesNoPeriod'
  BY <1>2, PeriodsKept DEF IInv, LoadTarget, loadVars, Merged
<1>5. Settled /\ Settled' /\ reads = {}
  <2>1. Settled /\ reads = {}
    BY <1>2 DEF IInv, GateOK, Loading
  <2> QED BY <2>1, SettledKept DEF LoadTarget, loadVars
<1>6. /\ reads' \subseteq {<<part, slots.period>>} /\ reads' \subseteq Parts \X Int
      /\ part' = part /\ slots' = slots
  BY <1>5, ReadsLemma DEF LoadTarget, loadVars
<1>7. GateOK'
  <2>1. pc' = "load_base" => slots.style = "period_comparison"
    BY DEF LoadTarget, Loaded
  <2>2. reads' \subseteq {part} \X {slots.period, slots.comparison}
    BY <1>6
  <2> QED BY <1>2, <1>5, <1>6, <2>1, <2>2 DEF GateOK, Early, Loading, Reporting
<1>8. CompleteOK'
  <2> SUFFICES ASSUME Computed'
               PROVE  reads' = {part} \X ({slots.period, slots.comparison} \ {None})
    BY <1>6 DEF CompleteOK
  <2>1. slots.style # "period_comparison" /\ {part} \X {slots.period} \subseteq reads'
    BY <1>2, <1>5 DEF LoadTarget, Loaded, loadVars, Computed, Reporting, Settled
  <2>2. reads' = {<<part, slots.period>>}
    BY <1>6, <2>1
  <2>3. slots.period \in Int /\ slots.period # None
    BY <1>6, <2>2, NoneAssumption
  <2>4. slots.comparison = None
    BY <2>1 DEF IInv, SlotsOK
  <2> QED BY <2>2, <2>3, <2>4
<1> QED BY <1>1, <1>2, <1>3, <1>4, <1>7, <1>8 DEF IInv, LoadTarget, loadVars

LEMMA BaseStep == ASSUME IInv, LoadBase PROVE IInv'
<1>1. ContextOK' /\ SlotsOK'
  BY ContextKept, SlotsKept DEF IInv, LoadBase, loadVars
<1>2. pc = "load_base" /\ pc' \in {"calculate_cost", "final_answer"}
  BY DEF LoadBase, Loaded
<1>3. RouteOK'
  BY <1>2 DEF IInv, LoadBase, loadVars, RouteOK, Loading, Reporting
<1>4. ModelDecidesNoPeriod'
  BY <1>2, PeriodsKept DEF IInv, LoadBase, loadVars, Merged
<1>5. /\ Settled /\ Settled' /\ reads \subseteq {<<part, slots.period>>}
      /\ reads \subseteq Parts \X Int
  <2>1. Settled /\ reads \subseteq {<<part, slots.period>>} /\ reads \subseteq Parts \X Int
    BY <1>2 DEF IInv, GateOK, Loading
  <2> QED BY <2>1, SettledKept DEF LoadBase, loadVars
<1>6. /\ reads' \subseteq {<<part, slots.period>>, <<part, slots.comparison>>}
      /\ reads' \subseteq Parts \X Int /\ part' = part /\ slots' = slots
  BY <1>5, ReadsLemma DEF LoadBase, loadVars
<1>7. GateOK'
  <2>1. reads' \subseteq {part} \X {slots.period, slots.comparison}
    BY <1>6
  <2> QED BY <1>2, <1>5, <1>6, <2>1 DEF GateOK, Early, Loading, Reporting
<1>8. CompleteOK'
  <2> SUFFICES ASSUME Computed'
               PROVE  reads' = {part} \X ({slots.period, slots.comparison} \ {None})
    BY <1>6 DEF CompleteOK
  <2>1. {part} \X {slots.period, slots.comparison} \subseteq reads'
    BY <1>2, <1>5 DEF LoadBase, Loaded, loadVars, Computed, Reporting, Settled
  <2>2. <<part, slots.period>> \in reads' /\ <<part, slots.comparison>> \in reads'
    BY <2>1
  <2>3. slots.period # None /\ slots.comparison # None
    BY <1>6, <2>2, NoneAssumption
  <2> QED BY <1>6, <2>1, <2>3
<1> QED BY <1>1, <1>2, <1>3, <1>4, <1>7, <1>8 DEF IInv, LoadBase, loadVars

\* Steps that change no slot and read nothing.
LEMMA QuietStep ==
  ASSUME IInv, LoadFails \/ CalculateCost \/ BuildReportJson \/ Lose \/ Publish
                 \/ UNCHANGED vars
  PROVE  IInv'
<1>1. /\ UNCHANGED <<ctx, last, q, grant, route, slots, part, missing, reads>>
      /\ cat' \in Catalogs
  BY DEF LoadFails, loadVars, CalculateCost, BuildReportJson, Lose, Publish, turnVars,
         vars, IInv
<1>2. \/ pc' = pc /\ failed' = failed
      \/ pc' = "idle"
      \/ pc \in Loading /\ pc' = "final_answer" /\ failed' = TRUE
      \/ pc = "calculate_cost" /\ pc' = "build_report_json"
      \/ pc = "build_report_json" /\ pc' = "final_answer"
  BY DEF LoadFails, loadVars, CalculateCost, BuildReportJson, Lose, Publish, turnVars,
         vars, Loading
<1>3. ContextOK' /\ SlotsOK'
  BY <1>1, ContextKept, SlotsKept DEF IInv
<1>4. RouteOK'
  BY <1>1, <1>2 DEF IInv, RouteOK, Early, Loading, Reporting
<1>5. ModelDecidesNoPeriod'
  BY <1>1, <1>2, PeriodsKept DEF IInv, Merged
<1>6. GateOK'
  <2>1. Settled => Settled'
    BY <1>1, SettledKept
  <2> QED BY <1>1, <1>2, <2>1 DEF IInv, GateOK, Early, Loading, Reporting
<1>7. CompleteOK'
  BY <1>1, <1>2 DEF IInv, CompleteOK, Computed, Loading, Reporting
<1>8. pc' # "idle" => q' \in Questions
  BY <1>1, <1>2 DEF IInv, Loading
<1> QED BY <1>1, <1>3, <1>4, <1>5, <1>6, <1>7, <1>8 DEF IInv

\* What persisting an answer or an end without one leaves of the context.
LEMMA FinalContext ==
  ASSUME IInv, FinalAnswer
  PROVE  /\ ctx'.route = route /\ ctx'.pending = FALSE
         /\ ctx' = [text |-> ctx'.text, period |-> ctx'.period,
                    comparison |-> ctx'.comparison, style |-> ctx'.style,
                    range |-> ctx'.range, route |-> ctx'.route, pending |-> ctx'.pending]
         /\ Answered => /\ ctx'.text = part /\ ctx'.period = slots.period
                        /\ ctx'.comparison = slots.comparison
                        /\ ctx'.style = slots.style /\ ctx'.range = slots.range
         /\ ~Answered => /\ ctx'.text = ctx.text /\ ctx'.period = ctx.period
                         /\ ctx'.comparison = ctx.comparison
                         /\ ctx'.style = ctx.style /\ ctx'.range = ctx.range
<1>1. PICK c, k, o : /\ c = ctx /\ k = [c EXCEPT !.route = route, !.pending = FALSE]
                     /\ o = [k EXCEPT !.text = part, !.period = slots.period,
                                !.comparison = slots.comparison, !.style = slots.style,
                                !.range = slots.range]
  OBVIOUS
<1>2. c = [text |-> c.text, period |-> c.period, comparison |-> c.comparison,
           style |-> c.style, range |-> c.range, route |-> c.route,
           pending |-> c.pending]
  BY <1>1 DEF IInv, ContextOK
<1>3. k = [text |-> k.text, period |-> k.period, comparison |-> k.comparison,
           style |-> k.style, range |-> k.range, route |-> k.route,
           pending |-> k.pending]
  BY <1>1, <1>2
<1>4. /\ k.text = c.text /\ k.period = c.period /\ k.comparison = c.comparison
      /\ k.style = c.style /\ k.range = c.range /\ k.route = route /\ k.pending = FALSE
  BY <1>1, <1>2
<1>5. o = [text |-> o.text, period |-> o.period, comparison |-> o.comparison,
           style |-> o.style, range |-> o.range, route |-> o.route,
           pending |-> o.pending]
  BY <1>1, <1>3
<1>6. /\ o.text = part /\ o.period = slots.period /\ o.comparison = slots.comparison
      /\ o.style = slots.style /\ o.range = slots.range
      /\ o.route = k.route /\ o.pending = k.pending
  BY <1>1, <1>3
<1>7. CASE Answered
  <2>1. ctx' = o
    BY <1>1, <1>7 DEF FinalAnswer, Kept
  <2> QED BY <1>4, <1>5, <1>6, <1>7, <2>1
<1>8. CASE ~Answered
  <2>1. ctx' = k
    BY <1>1, <1>8 DEF FinalAnswer, Kept
  <2> QED BY <1>1, <1>3, <1>4, <1>8, <2>1
<1> QED BY <1>7, <1>8

LEMMA FinalStep == ASSUME IInv, FinalAnswer PROVE IInv'
<1>1. /\ UNCHANGED <<cat, q, grant, route, slots, part, missing, reads, failed>>
      /\ pc = "final_answer" /\ pc' = "idle"
  BY DEF FinalAnswer, turnVars
<1>2. SlotsOK'
  BY <1>1, SlotsKept DEF IInv
<1>3. ContextOK'
  <2>1. RangeOK(ctx'.range)
    BY FinalContext DEF IInv, SlotsOK, ContextOK, RangeOK
  <2>2. last' # "needs_clarification"
    BY DEF FinalAnswer, Outcome
  <2>3. QuestionStaysOpen'
    <3>1. ctx'.pending = FALSE
      BY FinalContext
    <3> QED BY <2>2, <3>1 DEF QuestionStaysOpen
  <2> QED BY <2>1, <2>3, FinalContext DEF ContextOK, RangeOK
<1>4. RouteOK' /\ CompleteOK' /\ ModelDecidesNoPeriod'
  BY <1>1 DEF IInv, RouteOK, CompleteOK, Computed, Reporting, ModelDecidesNoPeriod, Merged
<1>5. GateOK'
  BY <1>1, GateKept DEF IInv, GateOK, Early, Loading, Reporting
<1> QED BY <1>1, <1>2, <1>3, <1>4, <1>5 DEF IInv

LEMMA ClarifyStep == ASSUME IInv, RequestClarification PROVE IInv'
<1>1. /\ UNCHANGED <<cat, q, grant, route, slots, part, missing, reads, failed>>
      /\ pc = "request_clarification" /\ pc' = "idle"
  BY DEF RequestClarification, turnVars
<1>2. SlotsOK'
  BY <1>1, SlotsKept DEF IInv
<1>3. ContextOK'
  <2>1. PICK c : c = ctx'
    OBVIOUS
  <2>2. c = [text |-> slots.text, period |-> slots.period,
             comparison |-> slots.comparison, style |-> slots.style,
             range |-> slots.range, route |-> route, pending |-> TRUE]
    BY <2>1 DEF RequestClarification
  <2>3. /\ c.range = slots.range /\ c.route = route /\ c.pending = TRUE
        /\ c = [text |-> c.text, period |-> c.period, comparison |-> c.comparison,
                style |-> c.style, range |-> c.range, route |-> c.route,
                pending |-> c.pending]
    BY <2>2
  <2>4. route \in DataRoutes /\ RangeOK(slots.range)
    BY <1>1 DEF IInv, RouteOK, SlotsOK
  <2>5. QuestionStaysOpen'
    <3>1. ctx'.pending = TRUE /\ ctx'.route \in DataRoutes
      BY <2>1, <2>3, <2>4
    <3>2. last' = "needs_clarification"
      BY DEF RequestClarification
    <3> QED BY <3>1, <3>2 DEF QuestionStaysOpen, DataRoutes
  <2> QED BY <2>1, <2>3, <2>4, <2>5 DEF ContextOK, RangeOK
<1>4. RouteOK' /\ CompleteOK' /\ ModelDecidesNoPeriod'
  BY <1>1 DEF IInv, RouteOK, CompleteOK, Computed, Reporting, ModelDecidesNoPeriod, Merged
<1>5. GateOK'
  BY <1>1, GateKept DEF IInv, GateOK, Early, Loading, Reporting
<1> QED BY <1>1, <1>2, <1>3, <1>4, <1>5 DEF IInv

LEMMA NextInv == IInv /\ [Next]_vars => IInv'
<1> SUFFICES ASSUME IInv, [Next]_vars PROVE IInv'
  OBVIOUS
<1>1. CASE Submit \/ SelectRoute \/ UnderstandQuestion \/ MergeContextSlots
  BY <1>1, SubmitStep, SelectStep, UnderstandStep, MergeStep
<1>2. CASE ClarificationGate \/ RequestClarification
  BY <1>2, GateStep, ClarifyStep
<1>3. CASE LoadTarget \/ LoadBase \/ FinalAnswer
  BY <1>3, TargetStep, BaseStep, FinalStep
<1>4. CASE LoadFails \/ CalculateCost \/ BuildReportJson \/ Lose \/ Publish \/ UNCHANGED vars
  BY <1>4, QuietStep
<1> QED BY <1>1, <1>2, <1>3, <1>4 DEF Next

LEMMA Invariant == Spec => []IInv
<1> QED BY InitInv, NextInv, PTL DEF Spec

-----------------------------------------------------------------------------
(* What follows from it *)

\* A turn asks before it reads: with a condition missing, two equal periods or several
\* parts no cost fact is read, and whatever is read belongs to the one part and the
\* periods that passed the gate.
THEOREM AskedBeforeRead == Spec => []AskBeforeData
<1>1. IInv => AskBeforeData
  BY DEF IInv, AskBeforeData, GateOK, Settled, RouteOK
<1> QED BY <1>1, Invariant, PTL

\* No reply of the language model decides a period of the answer.
THEOREM NoPeriodOfTheModel == Spec => []ModelDecidesNoPeriod
<1>1. IInv => ModelDecidesNoPeriod
  BY DEF IInv
<1> QED BY <1>1, Invariant, PTL

\* A question that was asked back stays open until a turn that is persisted answers it.
THEOREM OpenQuestionIsKept == Spec => []QuestionStaysOpen
<1>1. IInv => QuestionStaysOpen
  BY DEF IInv, ContextOK
<1> QED BY <1>1, Invariant, PTL

\* The context moves only with a question that is asked back, for which nothing was
\* read, or with an answer, and then to exactly what the answer was computed from.
THEOREM ContextFollowsAnswers == Spec => OnlyAnswersMoveTheContext
<1> DEFINE Moves ==
      \/ SlotsOf(ctx') = SlotsOf(ctx)
      \/ pc = "request_clarification" /\ missing # {} /\ reads = {}
      \/ /\ pc = "final_answer" /\ last' = "completed"
         /\ reads = {ctx'.text} \X ({ctx'.period, ctx'.comparison} \ {None})
<1>1. IInv /\ [Next]_vars => [Moves]_vars
  <2> SUFFICES ASSUME IInv, [Next]_vars PROVE Moves
    OBVIOUS
  <2>1. CASE RequestClarification
    BY <2>1 DEF RequestClarification, IInv, GateOK
  <2>2. CASE FinalAnswer
    <3>1. CASE ~Answered
      BY <3>1, <2>2, FinalContext DEF SlotsOf
    <3>2. CASE Answered
      <4>1. pc = "final_answer" /\ route \in DataRoutes /\ Outcome = "completed"
        BY <2>2, <3>2 DEF FinalAnswer, Answered
      <4>2. ~failed
        BY <4>1 DEF Outcome, DataRoutes
      <4>3. reads = {part} \X ({slots.period, slots.comparison} \ {None})
        BY <4>1, <4>2 DEF IInv, CompleteOK, Computed
      <4>4. last' = "completed"
        BY <2>2, <4>1 DEF FinalAnswer
      <4>5. ctx'.text = part /\ ctx'.period = slots.period
            /\ ctx'.comparison = slots.comparison
        BY <2>2, <3>2, FinalContext
      <4> QED BY <4>1, <4>3, <4>4, <4>5
    <3> QED BY <3>1, <3>2
  <2>3. CASE UNCHANGED ctx
    BY <2>3 DEF SlotsOf
  <2>4. Next /\ ~RequestClarification /\ ~FinalAnswer => UNCHANGED ctx
    BY DEF Next, Submit, SelectRoute, UnderstandQuestion, MergeContextSlots,
           ClarificationGate, LoadTarget, LoadBase, LoadFails, loadVars, CalculateCost,
           BuildReportJson, Lose, Publish
  <2> QED BY <2>1, <2>2, <2>3, <2>4 DEF vars
<1> QED BY <1>1, Invariant, PTL DEF Spec, OnlyAnswersMoveTheContext
=============================================================================
