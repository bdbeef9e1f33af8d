------------------------------ MODULE Dialogue ------------------------------
(***************************************************************************)
(* One conversation with the cost agent: a turn is one pass of the graph   *)
(* of agent/graph.py over a question, and the conversation context is what *)
(* the next turn inherits.                                                 *)
(*                                                                         *)
(* A question is not a string but what the code extracts from one: its     *)
(* first keyword class, the part it names, the months it writes and how it *)
(* writes them, a relative month, a report style, and the days it writes.  *)
(* Months are numbered year * 12 + (month - 1), days month * 31 + (day - 1). *)
(* Sources: agent/nodes.py, agent/routes/cost_nodes.py, agent/graph.py,    *)
(* services/llm_service.py (extraction), domain/conversation.py.           *)
(***************************************************************************)
EXTENDS Integers, Sequences, FiniteSets, FiniteSetsExt

CONSTANTS
    None,       \* no value: "" and None of the code
    Parts,      \* parts of every type
    Texts,      \* the texts a part can be called by
    Matches,    \* [Texts -> record]: the parts whose id or number a text is
                \* (exact), and those it is a substring of (partial)
    Questions,  \* the questions users send
    Replies,    \* the slots the language model may return
    Catalogs,   \* the published snapshot at a time: its parts, with or without
                \* batches, and its batches as <<part, month>>
    Grants,     \* the sets of routes a user may be allowed
    MaxTurns    \* bound: turns of the conversation

Routes == {"system_help", "cost_calculation", "report_generation"}
DataRoutes == {"cost_calculation", "report_generation"}
Outcomes == {"blocked", "completed", "failed", "needs_clarification"}

ASSUME TextAssumption ==
    /\ Parts \subseteq Texts
    /\ Matches \in [Texts -> [exact : SUBSET Parts, partial : SUBSET Parts]]
    /\ \A p \in Parts : Matches[p].exact = {p}
ASSUME GrantAssumption == Grants \subseteq SUBSET Routes
ASSUME NoneAssumption == None \notin Int \cup Outcomes
\* The days of a question and the months of batches are numbers.
ASSUME QuestionAssumption == \A x \in Questions : x.dates \in Seq(Int)
ASSUME CatalogAssumption == \A c \in Catalogs : c.batches \subseteq Parts \X Int
ASSUME MaxTurnsAssumption == MaxTurns \in Nat

VARIABLES
    ctx,      \* the stored conversation context
    cat,      \* the published catalogue, changed by publications at any time
    pc,       \* the node of the turn that runs next; "idle" between turns
    turns,    \* turns submitted
    q,        \* the question of the turn
    grant,    \* the routes its user is allowed
    route,    \* effective_route
    reply,    \* what the language model returned for the question
    slots,    \* resolved slots: text, period, comparison, style, range
    part,     \* the part the gate resolved
    missing,  \* why the gate asks: missing_slots and invalid_slots
    reads,    \* the batches the turn has read, as <<part, month>>
    failed,   \* errors is not empty
    last      \* outcome of the last turn that was persisted

vars == <<ctx, cat, pc, turns, q, grant, route, reply, slots, part, missing,
          reads, failed, last>>
turnVars == <<q, grant, route, reply, slots, part, missing, reads, failed>>

-----------------------------------------------------------------------------
(* What is read off a question.                                            *)

MonthOfYear(m) == (m % 12) + 1
Year(m) == m \div 12
MonthOf(day) == day \div 31

\* Months written with their year ("full", zero-padded, dashed) or taking it
\* from an earlier one ("short": the second of "2026年5月和6月").
Written(x) ==
    {x.months[i].month : i \in {j \in DOMAIN x.months : x.months[j].form # "bare"}}

\* From the first day a question writes to the last one, in the order of writing.
DateRange(x) == IF x.dates = <<>> THEN None ELSE <<x.dates[1], x.dates[Len(x.dates)]>>

Latest(x) == IF Written(x) = {} THEN None ELSE Max(Written(x))
Asked(x) == IF x.style \in {"compare", "yoy"} THEN "period_comparison" ELSE "presentation"

\* What `(?<!年)(1[0-2]|0?[1-9])月` finds in a mention: a month without a year,
\* but also the last digit of a year's 11th or 12th month or of a padded one.
Residue(mention) ==
    CASE mention.form = "bare"   -> mention.month
      [] mention.form = "short"  -> MonthOfYear(mention.month)
      [] mention.form = "padded" -> IF MonthOfYear(mention.month) < 10
                                    THEN MonthOfYear(mention.month)
                                    ELSE (MonthOfYear(mention.month) % 10)
      [] mention.form = "full"   -> IF MonthOfYear(mention.month) > 10
                                    THEN MonthOfYear(mention.month) - 10 ELSE 0
      [] OTHER                   -> 0

Relative(x, base) ==
    LET found == {i \in DOMAIN x.months : Residue(x.months[i]) # 0}
    IN  CASE base = None      -> None
          [] base # None /\ x.rel = "last" -> base - 1
          [] base # None /\ x.rel = "next" -> base + 1
          [] base # None /\ x.rel = "same" -> base
          [] OTHER -> IF found = {} THEN None
                      ELSE Year(base) * 12 + Residue(x.months[Min(found)]) - 1

\* parse_cost_question_with_llm: the part is the model's reading of the question,
\* its periods are a last resort; range and style are never asked of it.
Parsed(x, r) ==
    [text   |-> r.text,
     period |-> IF DateRange(x) # None THEN MonthOf(DateRange(x)[2])
                ELSE IF Written(x) # {} THEN Latest(x) ELSE r.period,
     comparison |-> IF Asked(x) = "period_comparison" /\ Cardinality(Written(x)) >= 2
                    THEN Max(Written(x) \ {Latest(x)}) ELSE r.comparison,
     style  |-> Asked(x),
     range  |-> DateRange(x)]

ExplicitPart(x, r) == x.named \/ (r.text # None /\ r.text = x.text)

-----------------------------------------------------------------------------
(* merge_context_slots: what this turn asks about, given what it inherits.  *)

MergedText(x, r, c) ==
    IF ExplicitPart(x, r) /\ Parsed(x, r).text # None THEN Parsed(x, r).text ELSE c.text

MergedRange(x, c) ==
    IF Relative(x, c.period) # None THEN None
    ELSE IF DateRange(x) # None THEN DateRange(x)
    ELSE IF Written(x) # {} THEN None ELSE c.range

\* Mutant: the parsed period is used although the question writes none.
MergedPeriodOfModel(x, r, c) ==
    IF Relative(x, c.period) # None THEN Relative(x, c.period)
    ELSE IF MergedRange(x, c) # None THEN MonthOf(MergedRange(x, c)[2])
    ELSE IF Parsed(x, r).period # None THEN Parsed(x, r).period ELSE c.period

MergedPeriod(x, r, c) ==
    IF Relative(x, c.period) # None THEN Relative(x, c.period)
    ELSE IF MergedRange(x, c) # None THEN MonthOf(MergedRange(x, c)[2])
    ELSE IF Written(x) # {} THEN Parsed(x, r).period ELSE c.period

MergedStyle(x, c) == IF x.style = "none" THEN c.style ELSE Asked(x)

\* The first that is there: the explicit base, the inherited one, the default.
MergedComparison(x, r, c) ==
    LET explicit == IF Cardinality(Written(x)) >= 2 THEN Parsed(x, r).comparison ELSE None
        period   == MergedPeriod(x, r, c)
    IN  IF MergedStyle(x, c) # "period_comparison" THEN None
        ELSE IF explicit # None THEN explicit
        ELSE IF c.comparison # None THEN c.comparison
        ELSE IF period = None THEN None
        ELSE period - (IF x.style = "yoy" THEN 12 ELSE 1)

\* Parts of the published snapshot that the text names: exactly, or else partly.
\* Every part counts, also raw materials and parts without a batch.
Candidates(text) ==
    LET exact == Matches[text].exact \cap cat.parts
    IN  IF exact # {} THEN exact ELSE Matches[text].partial \cap cat.parts

\* Mutant: the order of a date range is not looked at.
ProblemsOfSlots(s) ==
    {p \in {"part"} : s.text = None}
        \cup {p \in {"ambiguous"} : s.text # None /\ Cardinality(Candidates(s.text)) # 1}
        \cup {p \in {"period"} : s.period = None /\ s.range = None}
        \cup {p \in {"comparison"} : s.style = "period_comparison"
                                       /\ s.comparison = s.period}

\* missing_slots and invalid_slots of the clarification gate.
Problems(s) ==
    {p \in {"part"} : s.text = None}
        \cup {p \in {"ambiguous"} : s.text # None /\ Cardinality(Candidates(s.text)) # 1}
        \cup {p \in {"period"} : s.period = None /\ s.range = None}
        \cup {p \in {"date_range"} : s.range # None /\ s.range[1] > s.range[2]}
        \cup {p \in {"comparison"} : s.style = "period_comparison"
                                       /\ s.comparison = s.period}

EmptyContext ==
    [text |-> None, period |-> None, comparison |-> None, style |-> "presentation",
     range |-> None, route |-> None, pending |-> FALSE]

NoSlots == [text |-> None, period |-> None, comparison |-> None,
            style |-> "presentation", range |-> None]

-----------------------------------------------------------------------------
NoQuestion == CHOOSE x \in Questions : TRUE

Init ==
    /\ ctx = EmptyContext
    /\ cat \in Catalogs
    /\ pc = "idle" /\ turns = 0
    /\ q = NoQuestion /\ grant = {} /\ route = "blocked"
    /\ reply = CHOOSE r \in Replies : TRUE
    /\ slots = NoSlots /\ part = None /\ missing = {} /\ reads = {}
    /\ failed = FALSE /\ last = None

\* A turn starts from a fresh graph state; only the context is inherited.  The
\* nodes before select_route (normalize_request, load_conversation_context and
\* policy_gate) copy the request's context and capabilities into it.
Submit ==
    /\ pc = "idle" /\ turns < MaxTurns
    /\ turns' = turns + 1
    /\ q' \in Questions /\ grant' \in Grants
    /\ route' = "blocked" /\ slots' = NoSlots /\ part' = None /\ missing' = {}
    /\ reads' = {} /\ failed' = FALSE
    /\ pc' = "select_route"
    /\ UNCHANGED <<ctx, cat, reply, last>>

\* The route the keywords give; "" when the model is to be asked.
KeywordRoute ==
    IF ctx.pending
    THEN IF ctx.route \in DataRoutes THEN ctx.route ELSE "cost_calculation"
    ELSE IF q.kind = "report" THEN "report_generation"
    ELSE IF q.kind = "cost" THEN "cost_calculation"
    ELSE IF ctx.text # None
            /\ (q.kind = "follow" \/ \E i \in DOMAIN q.months : q.months[i].form # "dash")
         THEN "cost_calculation"
    ELSE IF q.kind = "vague" THEN "" ELSE "system_help"

Allowed(chosen) == IF chosen \in grant THEN chosen ELSE "blocked"

\* classify_route_with_llm: one of the candidates, which are all routes whatever
\* the user is allowed; another answer is an error that loses the turn.
ClassifiedRoutes == Routes

SelectRoute ==
    /\ pc = "select_route"
    /\ \E chosen \in IF KeywordRoute = "" THEN ClassifiedRoutes ELSE {KeywordRoute} :
           route' = Allowed(chosen)
    /\ pc' = IF route' \in DataRoutes THEN "understand_question" ELSE "final_answer"
    /\ UNCHANGED <<ctx, cat, turns, q, grant, reply, slots, part, missing, reads,
                   failed, last>>

UnderstandQuestion ==
    /\ pc = "understand_question"
    /\ reply' \in Replies
    /\ pc' = "merge_context_slots"
    /\ UNCHANGED <<ctx, cat, turns, q, grant, route, slots, part, missing, reads,
                   failed, last>>

MergeContextSlots ==
    /\ pc = "merge_context_slots"
    /\ slots' = [text |-> MergedText(q, reply, ctx),
                 period |-> MergedPeriod(q, reply, ctx),
                 comparison |-> MergedComparison(q, reply, ctx),
                 style |-> MergedStyle(q, ctx), range |-> MergedRange(q, ctx)]
    /\ pc' = "clarification_gate"
    /\ UNCHANGED <<ctx, cat, turns, q, grant, route, reply, part, missing, reads,
                   failed, last>>

\* The part found here is the one the rest of the turn works on.
ClarificationGate ==
    /\ pc = "clarification_gate"
    /\ missing' = Problems(slots)
    /\ IF missing' = {}
       THEN /\ part' = CHOOSE p \in Candidates(slots.text) : TRUE
            /\ pc' = "load_target"
       ELSE pc' = "request_clarification" /\ UNCHANGED part
    /\ UNCHANGED <<ctx, cat, turns, q, grant, route, reply, slots, reads, failed, last>>

loadVars == <<ctx, cat, turns, q, grant, route, reply, slots, part, missing, last>>

\* The calculation needs batches of every month that was asked for; a month
\* without any ends the turn with a message.
Loaded(months) ==
    LET complete == {part} \X months \subseteq reads'
    IN  /\ failed' = ~complete
        /\ pc' = IF complete THEN "calculate_cost" ELSE "final_answer"

\* resolve_part keeps the part the gate found.  A comparison reads its base
\* period with a second call, a transaction later.
LoadTarget ==
    /\ pc = "load_target"
    /\ reads' = reads \cup ({<<part, slots.period>>} \cap cat.batches)
    /\ IF slots.style = "period_comparison"
       THEN pc' = "load_base" /\ UNCHANGED failed
       ELSE Loaded({slots.period})
    /\ UNCHANGED loadVars

LoadBase ==
    /\ pc = "load_base"
    /\ reads' = reads \cup ({<<part, slots.comparison>>} \cap cat.batches)
    /\ Loaded({slots.period, slots.comparison})
    /\ UNCHANGED loadVars

\* A tool call that fails ends the turn with a message too.
LoadFails ==
    /\ pc \in {"load_target", "load_base"}
    /\ failed' = TRUE /\ pc' = "final_answer"
    /\ UNCHANGED <<loadVars, reads>>

CalculateCost ==
    /\ pc = "calculate_cost"
    /\ pc' = "build_report_json"
    /\ UNCHANGED <<ctx, cat, turns, turnVars, last>>

\* The report contract may refuse what was calculated.
BuildReportJson ==
    /\ pc = "build_report_json"
    /\ failed' \in BOOLEAN
    /\ pc' = "final_answer"
    /\ UNCHANGED <<ctx, cat, turns, q, grant, route, reply, slots, part, missing,
                   reads, last>>

Outcome ==
    IF route = "blocked" THEN "blocked"
    ELSE IF route = "system_help" THEN "completed"
    ELSE IF failed THEN "failed" ELSE "completed"

\* Mutant: an answer that failed also moves the context.
AnsweredOnRoute == route \in DataRoutes /\ part # None
Answered == Outcome = "completed" /\ route \in DataRoutes

\* Mutant: the pending question survives the turn that answers it.
KeptPending == [ctx EXCEPT !.route = route]
Kept == [ctx EXCEPT !.route = route, !.pending = FALSE]

\* Ends the turn and is persisted with it.  The part number of the answer is
\* itself a text that names the part.
FinalAnswer ==
    /\ pc = "final_answer"
    /\ ctx' = IF Answered
              THEN [Kept EXCEPT !.text = part, !.period = slots.period,
                        !.comparison = slots.comparison, !.style = slots.style,
                        !.range = slots.range]
              ELSE Kept
    /\ last' = Outcome
    /\ pc' = "idle"
    /\ UNCHANGED <<cat, turns, turnVars>>

RequestClarification ==
    /\ pc = "request_clarification"
    /\ ctx' = [text |-> slots.text, period |-> slots.period,
               comparison |-> slots.comparison, style |-> slots.style,
               range |-> slots.range, route |-> route, pending |-> TRUE]
    /\ last' = "needs_clarification"
    /\ pc' = "idle"
    /\ UNCHANGED <<cat, turns, turnVars>>

\* A model failure, a failing lookup in the gate, a cancellation or a lost lease
\* leaves the graph by an exception: nothing of the turn is written.
Lose ==
    /\ pc # "idle"
    /\ pc' = "idle"
    /\ UNCHANGED <<ctx, cat, turns, turnVars, last>>

\* Another user publishes a snapshot.
Publish ==
    /\ cat' \in Catalogs \ {cat}
    /\ UNCHANGED <<ctx, pc, turns, turnVars, last>>

Next ==
    \/ Submit \/ SelectRoute \/ UnderstandQuestion \/ MergeContextSlots
    \/ ClarificationGate \/ LoadTarget \/ LoadBase \/ LoadFails \/ CalculateCost
    \/ BuildReportJson \/ FinalAnswer \/ RequestClarification \/ Lose \/ Publish

Spec == Init /\ [][Next]_vars

-----------------------------------------------------------------------------
(* Properties.                                                             *)

Merged == pc \in {"clarification_gate", "request_clarification", "load_target",
                  "load_base", "calculate_cost", "build_report_json"}

\* docs/api/agent-contract.md:42: with a condition missing, two equal periods or
\* several parts the turn only asks back and no cost fact is read.  Whatever was
\* read belongs to the one part and the periods the turn settled on.
AskBeforeData ==
    reads # {} =>
        /\ missing = {} /\ pc # "request_clarification" /\ route \in grant
        /\ part \in Matches[slots.text].exact \cup Matches[slots.text].partial
        /\ slots.range # None => slots.range[1] <= slots.range[2]
        /\ slots.style = "period_comparison" => slots.comparison # slots.period
        /\ reads \subseteq {part} \X {slots.period, slots.comparison}

\* The model's reply never decides the target period, the range or the style of
\* a turn, nor the base period of a comparison the question asks for: any other
\* reply would have given the same.
ModelDecidesNoPeriod ==
    Merged => \A r \in Replies :
        /\ slots.period = MergedPeriod(q, r, ctx)
        /\ Asked(q) = "period_comparison" => slots.comparison = MergedComparison(q, r, ctx)

\* A clarification is pending exactly while the last persisted turn ended with
\* one, however many turns were lost since, and it belongs to a data route.
QuestionStaysOpen ==
    /\ ctx.pending <=> last = "needs_clarification"
    /\ ctx.pending => ctx.route \in DataRoutes

SlotsOf(c) == <<c.text, c.period, c.comparison, c.style, c.range>>

\* What the next turn inherits changes only with a clarification that is asked
\* or with an answer, and then to the part and periods the answer's batches were
\* read for; a blocked, failed, lost or help turn leaves it alone.
OnlyAnswersMoveTheContext ==
    [][ \/ SlotsOf(ctx') = SlotsOf(ctx)
        \/ pc = "request_clarification" /\ missing # {} /\ reads = {}
        \/ /\ pc = "final_answer" /\ last' = "completed"
           /\ reads = {ctx'.text} \X ({ctx'.period, ctx'.comparison} \ {None}) ]_vars

\* nodes.py:432 tells the user that explicit input always wins
\* (「显式输入始终优先」), and agent-contract.md:42 that of two written months
\* the later is the target.
ExplicitInputWins ==
    Merged /\ q.rel = "none" /\ Written(q) # {} =>
        slots.period = IF q.dates = <<>> THEN Latest(q) ELSE MonthOf(DateRange(q)[2])
=============================================================================
