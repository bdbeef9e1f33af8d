----------------------------- MODULE MCDialogue -----------------------------
(* Three turns about two parts; the catalogue has May, June and November 2026. *)
EXTENDS Dialogue

CONSTANTS p1, p2, family

MCParts == {p1, p2}
MCTexts == {p1, p2, family}
MCMatches == [t \in MCTexts |->
    IF t = family THEN [exact |-> {}, partial |-> {p1, p2}]
    ELSE [exact |-> {t}, partial |-> {t}]]

Month(y, m) == y * 12 + m - 1
Day(y, m, d) == Month(y, m) * 31 + d - 1
May == Month(2026, 5)
Jun == Month(2026, 6)
Nov == Month(2026, 11)

As(form, m) == [month |-> m, form |-> form]
Ask == [kind |-> "plain", text |-> None, named |-> FALSE, months |-> <<>>,
        rel |-> "none", style |-> "none", dates |-> <<>>]

MCQuestions == {
    [Ask EXCEPT !.kind = "cost", !.text = p1, !.months = <<As("full", Jun)>>],
    [Ask EXCEPT !.months = <<As("full", Nov)>>],
    [Ask EXCEPT !.kind = "cost", !.text = p2, !.named = TRUE],
    [Ask EXCEPT !.kind = "cost", !.text = family, !.months = <<As("bare", 5)>>],
    [Ask EXCEPT !.kind = "follow", !.rel = "last"],
    [Ask EXCEPT !.kind = "report", !.style = "compare", !.text = p1,
                !.months = <<As("full", May), As("short", Jun)>>],
    [Ask EXCEPT !.kind = "report", !.style = "show"],
    [Ask EXCEPT !.kind = "cost", !.style = "compare"],
    [Ask EXCEPT !.kind = "cost", !.months = <<As("dash", May)>>,
                !.dates = <<Day(2026, 5, 9), Day(2026, 5, 2)>>],
    [Ask EXCEPT !.kind = "cost", !.months = <<As("full", May), As("short", Jun)>>,
                !.dates = <<Day(2026, 5, 2), Day(2026, 6, 9)>>],
    [Ask EXCEPT !.kind = "vague"]}

MCReplies == [text : {None, p1, p2, family}, period : {None, Jun}, comparison : {None, May}]

MCCatalogs == {[parts |-> {p1, p2}, batches |-> {p1} \X {May, Jun, Nov} \cup {<<p2, Jun>>}],
               [parts |-> {p1}, batches |-> {p1} \X {May, Jun}]}

MCGrants == {Routes, {"system_help", "cost_calculation"}}
=============================================================================
