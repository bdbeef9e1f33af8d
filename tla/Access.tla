------------------------------- MODULE Access -------------------------------
(***************************************************************************)
(* Who may read which cost data, in one tenant: roles and data scopes,     *)
(* the principal every request is authorised as, the read paths a          *)
(* principal has to the published snapshot (HTTP queries and the tools of  *)
(* an agent run) with the figures they answer with, and the governance     *)
(* calls that change roles and scopes.                                     *)
(*                                                                         *)
(* Every repository call is a transaction of its own, so a request is      *)
(* authorised, checked, written and audited in steps others interleave     *)
(* with.  Sources: auth/context.py, domain/authorization.py,               *)
(* services/iam_service.py, repositories/postgres_iam_repository.py,       *)
(* repositories/postgres_cost_repository.py,                               *)
(* services/cost_data_query_service.py, agent/harness.py, agent/tools.py.  *)
(***************************************************************************)
EXTENDS Integers, Sequences, FiniteSets, CostViews

CONSTANTS
    NoRow,       \* no such row
    Users,       \* principals that have a token of the tenant
    Claims,      \* [Users -> SUBSET RoleId]: the roles their tokens carry
    Members,     \* [Users -> SUBSET RoleId \cup {NoRow}]: roles before the first change
    RoleSets,    \* the role lists an administrator may assign
    Scopes,      \* data scopes an administrator may assign
    Catalogs,    \* published snapshots: [current, parts, rows], or NoRow; a row is a
                 \* finished batch with its figures (CostViews)
    Servers,     \* values of the server's capability setting
    PageSize,    \* rows of a page of the batch list
    MaxChanges   \* bound: governance changes

RoleId == {"viewer", "data_operator", "data_approver", "tenant_admin"}
Capabilities == {"system_help", "cost_calculation", "report_generation"}

ROLE_CAPABILITIES == [r \in RoleId |-> Capabilities]
ROLE_PERMISSIONS ==
    LET read    == {"cost_data.read"}
        operate == read \cup {"data_management.read", "data_import.submit"}
        approve == read \cup {"data_management.read", "data_import.approve", "audit.read"}
    IN  [viewer |-> read, data_operator |-> operate, data_approver |-> approve,
         tenant_admin |-> operate \cup approve \cup {"iam.manage", "data_scope.manage"}]

ASSUME RoleAssumption ==
    /\ Claims \in [Users -> SUBSET RoleId]
    /\ Members \in [Users -> (SUBSET RoleId) \cup {NoRow}]
    /\ RoleSets \subseteq SUBSET RoleId /\ {} \notin RoleSets /\ NoRow \notin RoleSets
ASSUME ServerAssumption == Servers \subseteq SUBSET Capabilities /\ Servers # {}
ASSUME BoundAssumption == PageSize \in Nat \ {0} /\ MaxChanges \in Nat
\* The validator of a scope: its first period is not after its last.
ASSUME ScopeAssumption ==
    /\ NoRow \notin Scopes
    /\ \A s \in Scopes : s.first # NoRow /\ s.last # NoRow => s.first <= s.last
\* A snapshot's rows: finitely many, of its parts, one per batch, with the figures
\* projected from their amounts.  No amount is negative, and what was finished is not
\* nothing (cost_data_import_service.py:321, 509).
ASSUME CatalogAssumption ==
    \A c \in Catalogs \ {NoRow} :
        /\ IsFiniteSet(c.rows)
        /\ \A r \in c.rows : /\ r.part \in c.parts
                              /\ \A key \in {"batch", "period", "done", "cost"} : r[key] \in Int
        /\ \A r \in c.rows : /\ r.amounts \in [Groups -> Nat] /\ r.completed \in Nat \ {0}
                              /\ r.views = Views(r.amounts, r.completed)
        /\ \A r, s \in c.rows : r.batch = s.batch => r = s

VARIABLES
    roles,    \* iam_principal_roles: [Users -> roles or NoRow]
    scopes,   \* iam_data_scopes: [Users -> scope or NoRow]
    cat,      \* the published snapshot, or NoRow
    server,   \* capabilities the setting of this deployment allows
    call,     \* [Users -> the request of that user being served]; its "change" is the
              \* number of changes when its scope was read, then the one it made
    run,      \* one agent run, or NoRow: its frozen principal and what it read last
    changes,  \* history: governance changes in the order of their commits
    audit     \* governance_audit_events: the change each event reports

vars == <<roles, scopes, cat, server, call, run, changes, audit>>

\* No list of parts and no bound: not restricted.
Unrestricted == [parts |-> {}, first |-> NoRow, last |-> NoRow]
NoCall == [at |-> "idle", roles |-> {}, scope |-> Unrestricted, target |-> NoRow,
           change |-> 0]

-----------------------------------------------------------------------------
(* What a principal may do and read.                                       *)

Permissions(held) == UNION {ROLE_PERMISSIONS[r] : r \in held}

\* Requested, granted by a role and allowed by the server; a report needs costs.
Effective(requested, held) ==
    LET e == requested \cap (UNION {ROLE_CAPABILITIES[r] : r \in held}) \cap server
    IN  IF "cost_calculation" \in e THEN e ELSE e \ {"report_generation"}

Context(held, scope) ==
    [caps |-> Effective({"cost_calculation"}, held), scope |-> scope]

PartAllowed(ctx, part) == ctx.scope.parts = {} \/ part \in ctx.scope.parts

\* Mutant: the last period of a scope is excluded.
PeriodBeforeLast(ctx, period) ==
    /\ ctx.scope.first # NoRow => period >= ctx.scope.first
    /\ ctx.scope.last # NoRow => period < ctx.scope.last
PeriodAllowed(ctx, period) ==
    /\ ctx.scope.first # NoRow => period >= ctx.scope.first
    /\ ctx.scope.last # NoRow => period <= ctx.scope.last

CostScope(ctx, part, period) ==
    "cost_calculation" \in ctx.caps /\ PartAllowed(ctx, part) /\ PeriodAllowed(ctx, period)

\* Rows of the published snapshot.  A snapshot costed by other rules than this
\* build's makes every query but list_parts fail.
Rows == IF cat = NoRow THEN {} ELSE IF cat.current THEN cat.rows ELSE {}

ListParts(ctx) ==
    IF "cost_calculation" \notin ctx.caps \/ cat = NoRow THEN {}
    ELSE {p \in cat.parts : PartAllowed(ctx, p)}

\* Each query as the set of batches it answers with; {} when it is refused.
Overview(ctx, period) ==
    IF "cost_calculation" \notin ctx.caps \/ ~PeriodAllowed(ctx, period) THEN {}
    ELSE {r \in Rows : r.period = period /\ PartAllowed(ctx, r.part)}

\* Ascending by the sort key, then by batch; a descending list mirrors it.
Precedes(r, s, key) ==
    \/ r[key] < s[key]
    \/ r[key] = s[key] /\ r.batch < s.batch

Page(ctx, period, key, page) ==
    LET rows    == Overview(ctx, period)
        rank(r) == Cardinality({s \in rows : Precedes(s, r, key)})
    IN  {r \in rows : rank(r) >= (page - 1) * PageSize /\ rank(r) < page * PageSize}

\* The batch is looked up within the parts; its period is checked afterwards.
Detail(ctx, batch) ==
    IF "cost_calculation" \notin ctx.caps THEN {}
    ELSE {r \in Rows : /\ r.batch = batch
                       /\ PartAllowed(ctx, r.part) /\ PeriodAllowed(ctx, r.period)}

PartPeriod(ctx, part, period) ==
    IF ~CostScope(ctx, part, period) THEN {}
    ELSE {r \in Rows : r.part = part /\ r.period = period}

\* The registered tools that cost data passes through: all need the capability,
\* and all but the report builder read the published cost data.
ToolSpecs ==
    [tool \in {"resolve_part_candidates", "load_finished_batches", "build_report"} |->
        [needs |-> {"cost_calculation"},
         scope |-> IF tool = "build_report" THEN "none" ELSE "published_cost_data"]]

\* The scope is checked as far as the arguments name a part and a period.
ArgumentsInScope(ctx, part, period) ==
    /\ part # NoRow => PartAllowed(ctx, part)
    /\ part # NoRow /\ period # NoRow => PeriodAllowed(ctx, period)

ToolAllowed(ctx, tool, part, period) ==
    /\ ToolSpecs[tool].needs \subseteq ctx.caps
    /\ ToolSpecs[tool].scope = "published_cost_data" => ArgumentsInScope(ctx, part, period)

\* What a run gets to see: the batches of a part it has found, when the report
\* about them may be built too.
ToolRows(ctx, part, period) ==
    IF /\ ToolAllowed(ctx, "resolve_part_candidates", NoRow, NoRow)
       /\ part \in ListParts(ctx)
       /\ ToolAllowed(ctx, "load_finished_batches", part, period)
       /\ ToolAllowed(ctx, "build_report", NoRow, NoRow)
    THEN PartPeriod(ctx, part, period) ELSE {}

-----------------------------------------------------------------------------
Init ==
    /\ roles = Members
    /\ scopes = [u \in Users |-> NoRow]
    /\ cat \in Catalogs
    /\ server \in Servers
    /\ call = [u \in Users |-> NoCall]
    /\ run = NoRow
    /\ changes = <<>> /\ audit = <<>>

\* No row: not restricted.
ScopeOf(u) == IF scopes[u] = NoRow THEN Unrestricted ELSE scopes[u]

\* The token's roles count only as far as the membership has them.
Authenticate(u) ==
    /\ call[u].at = "idle"
    /\ roles[u] # NoRow
    /\ Claims[u] \cap roles[u] # {}
    /\ call' = [call EXCEPT ![u].at = "member", ![u].roles = Claims[u] \cap roles[u]]
    /\ UNCHANGED <<roles, scopes, cat, server, run, changes, audit>>

ReadScope(u) ==
    /\ call[u].at = "member"
    /\ call' = [call EXCEPT ![u].at = "ready",
                    ![u].scope = ScopeOf(u),
                    ![u].change = Len(changes)]
    /\ UNCHANGED <<roles, scopes, cat, server, run, changes, audit>>

\* A query answers and ends the request; so does one that is refused.
Answer(u) ==
    /\ call[u].at = "ready"
    /\ call' = [call EXCEPT ![u] = NoCall]
    /\ UNCHANGED <<roles, scopes, cat, server, run, changes, audit>>

Changed(u, kind, target, value) ==
    /\ Len(changes) < MaxChanges
    /\ changes' = Append(changes, [by |-> u, kind |-> kind, target |-> target,
                                   value |-> value])
    /\ call' = [call EXCEPT ![u].at = "written", ![u].change = Len(changes) + 1]

\* Writes the target's row, or inserts it: this is how a principal joins.
SetRoles(u, target, held) ==
    /\ call[u].at = "ready" /\ "iam.manage" \in Permissions(call[u].roles)
    /\ roles' = [roles EXCEPT ![target] = held]
    /\ Changed(u, "roles", target, held)
    /\ UNCHANGED <<scopes, cat, server, run, audit>>

FindTarget(u, target) ==
    /\ call[u].at = "ready" /\ "data_scope.manage" \in Permissions(call[u].roles)
    /\ roles[target] # NoRow
    /\ call' = [call EXCEPT ![u].at = "found", ![u].target = target]
    /\ UNCHANGED <<roles, scopes, cat, server, run, changes, audit>>

SetScope(u, scope) ==
    /\ call[u].at = "found"
    /\ scopes' = [scopes EXCEPT ![call[u].target] = scope]
    /\ Changed(u, "scope", call[u].target, scope)
    /\ UNCHANGED <<roles, cat, server, run, audit>>

\* Mutant: the event reports the latest change, not the call's own.
AppendAuditOfLatest(u) ==
    /\ call[u].at = "written"
    /\ audit' = Append(audit, [change |-> Len(changes), what |-> changes[Len(changes)]])
    /\ call' = [call EXCEPT ![u] = NoCall]
    /\ UNCHANGED <<roles, scopes, cat, server, run, changes>>

AppendAudit(u) ==
    /\ call[u].at = "written"
    /\ audit' = Append(audit, [change |-> call[u].change, what |-> changes[call[u].change]])
    /\ call' = [call EXCEPT ![u] = NoCall]
    /\ UNCHANGED <<roles, scopes, cat, server, run, changes>>

\* The process ends, or a transaction fails: what was committed stays.
Abort(u) ==
    /\ call[u].at # "idle"
    /\ call' = [call EXCEPT ![u] = NoCall]
    /\ UNCHANGED <<roles, scopes, cat, server, run, changes, audit>>

\* The request's principal is stored with the run and never read again from IAM.
SubmitRun(u) ==
    /\ call[u].at = "ready" /\ run = NoRow
    /\ run' = [owner |-> u, roles |-> call[u].roles, scope |-> call[u].scope,
               reads |-> {}, since |-> call[u].change]
    /\ call' = [call EXCEPT ![u] = NoCall]
    /\ UNCHANGED <<roles, scopes, cat, server, changes, audit>>

\* Mutant: the scope stored now instead of the one frozen with the run.
RunContextNow == Context(run.roles, ScopeOf(run.owner))

\* Derived again by every tool call: the principal is the run's, the server's
\* setting that of the process.
RunContext == Context(run.roles, run.scope)

RunReads(part, period) ==
    /\ run # NoRow
    /\ ToolRows(RunContext, part, period) # {}
    /\ run' = [run EXCEPT !.reads =
                  {[part |-> r.part, period |-> r.period] :
                       r \in ToolRows(RunContext, part, period)}]
    /\ UNCHANGED <<roles, scopes, cat, server, call, changes, audit>>

EndRun ==
    /\ run # NoRow
    /\ run' = NoRow
    /\ UNCHANGED <<roles, scopes, cat, server, call, changes, audit>>

\* A snapshot is published.
Publish ==
    /\ cat' \in Catalogs \ {cat}
    /\ UNCHANGED <<roles, scopes, server, call, run, changes, audit>>

PartsOf == UNION {c.parts : c \in Catalogs \ {NoRow}}
Periods == UNION {{r.period : r \in c.rows} : c \in Catalogs \ {NoRow}}
BatchIds == UNION {{r.batch : r \in c.rows} : c \in Catalogs \ {NoRow}}

Next ==
    \/ \E u \in Users :
           \/ Authenticate(u) \/ ReadScope(u) \/ Answer(u) \/ SubmitRun(u)
           \/ AppendAudit(u) \/ Abort(u)
           \/ \E target \in Users :
                  \/ \E held \in RoleSets : SetRoles(u, target, held)
                  \/ FindTarget(u, target)
           \/ \E scope \in Scopes : SetScope(u, scope)
    \/ \E part \in PartsOf, period \in Periods : RunReads(part, period)
    \/ EndRun \/ Publish

Spec == Init /\ [][Next]_vars

-----------------------------------------------------------------------------
(* Properties.                                                             *)

Call == [at : {"idle", "member", "ready", "found", "written"}, roles : SUBSET RoleId,
         scope : Scopes \cup {Unrestricted}, target : Users \cup {NoRow}, change : Nat]

\* Every variable that is no history has its type; the history of changes is bounded.
TypeOK ==
    /\ roles \in [Users -> (SUBSET RoleId) \cup {NoRow}]
    /\ scopes \in [Users -> Scopes \cup {NoRow}]
    /\ cat \in Catalogs /\ server \in Servers
    /\ call \in [Users -> Call]
    /\ Len(changes) <= MaxChanges

\* The rows in a scope, if the server allows costs at all.
Granted(s) ==
    IF "cost_calculation" \in server
    THEN {r \in Rows : /\ s.parts = {} \/ r.part \in s.parts
                       /\ s.first = NoRow \/ s.first <= r.period
                       /\ s.last = NoRow \/ r.period <= s.last}
    ELSE {}

QueriesGive(ctx, granted) ==
    /\ UNION {Overview(ctx, p) : p \in Periods} = granted
    /\ UNION {Detail(ctx, b) : b \in BatchIds} = granted
    /\ UNION {PartPeriod(ctx, x, p) : x \in PartsOf, p \in Periods} = granted
    /\ UNION {ToolRows(ctx, x, p) : x \in PartsOf, p \in Periods} = granted

PagesSplit(ctx, p, key, pages) ==
    /\ UNION {Page(ctx, p, key, n) : n \in pages} = Overview(ctx, p)
    /\ \A n \in pages : Cardinality(Page(ctx, p, key, n)) <= PageSize
    /\ \A n, m \in pages : n # m => Page(ctx, p, key, n) \cap Page(ctx, p, key, m) = {}

\* The read paths agree (postgres_cost_repository.py, cost_data_query_service.py,
\* harness.py): whoever a request is authorised as, the overview of every
\* period, the pages of the list in any order, the details that are found, the
\* aggregates by part and the agent's tools give the same batches, and these are
\* exactly the ones in the scope; pages do not overlap, miss nothing and hold no
\* more than PageSize rows each, although rows may tie in the sort key.
PathsAgree ==
    \A u \in Users : call[u].at = "ready" =>
        LET ctx == Context(call[u].roles, call[u].scope)
        IN  /\ QueriesGive(ctx, Granted(call[u].scope))
            /\ \A p \in Periods, key \in {"done", "cost"} :
                  PagesSplit(ctx, p, key, 1..Cardinality(Rows))

\* The figures of the read paths agree: what the overview of a period adds up
\* over its batches is what the reports of its parts add up to; each report's
\* views split one total; a report's unit cost lies between those of its batches
\* (it is weighted by quantity), and in a comparison the changes of the groups
\* add up to the change of the total but for the rounding of each.
Figures(ctx, p) ==
    LET over == OverviewTotals(Overview(ctx, p))
        sold == {x \in PartsOf : PartPeriod(ctx, x, p) # {}}
        report == [x \in sold |-> Aggregate(PartPeriod(ctx, x, p))]
        total(of(_)) == Total([x \in sold |-> of(report[x])], sold)
    IN  /\ over.manufacturing = total(LAMBDA a : a.views.manufacturing.amount)
        /\ over.post = total(LAMBDA a : a.views.post)
        /\ over.total = over.manufacturing + over.post
        /\ over.total = total(LAMBDA a : a.views.variable_fixed.total_cost_2.amount)
        /\ over.batch_count = total(LAMBDA a : a.batch_count)
        /\ \A x \in sold :
              LET v == report[x].views
                  units == {b.views.manufacturing.unit_cost : b \in PartPeriod(ctx, x, p)}
              IN  /\ v.material.amount + v.labor.amount + v.overhead.amount = v.manufacturing.amount
                  /\ v.variable_fixed.variable_cost_1.amount + v.variable_fixed.fixed_cost_1.amount
                        = v.manufacturing.amount
                  /\ \E u, w \in units :
                        u <= v.manufacturing.unit_cost /\ v.manufacturing.unit_cost <= w

ComparisonAddsUp(ctx, x, p, base) ==
    PartPeriod(ctx, x, p) # {} /\ PartPeriod(ctx, x, base) # {} =>
        LET c == Comparison(Aggregate(PartPeriod(ctx, x, base)),
                            Aggregate(PartPeriod(ctx, x, p)))
            rest == Total(c.groups, ManufacturingGroups) - c.manufacturing
            most == Cardinality(ManufacturingGroups) + 1
        IN  -most <= rest /\ rest <= most

FiguresAgree ==
    \A u \in Users : call[u].at = "ready" =>
        LET ctx == Context(call[u].roles, call[u].scope)
        IN  \A p \in Periods :
               /\ Figures(ctx, p)
               /\ \A x \in PartsOf, base \in {b \in Periods : b < p} :
                     ComparisonAddsUp(ctx, x, p, base)

\* The scope of a principal after the first n changes: that of its last change.
SetsScope(i, u) == changes[i].kind = "scope" /\ changes[i].target = u
HasScope(u, n, scope) ==
    \/ scope = Unrestricted /\ \A i \in 1..n : ~SetsScope(i, u)
    \/ \E i \in 1..n : /\ SetsScope(i, u) /\ changes[i].value = scope
                      /\ \A j \in i + 1..n : ~SetsScope(j, u)

\* domain/authorization.py:113 (the scope is fixed with the principal): all a run
\* reads is, whenever it reads, covered by the one scope its owner had when the
\* submission was authorised, however roles, scopes and snapshots change meanwhile.
RunReadsOneScope ==
    run # NoRow =>
        \E s \in Scopes \cup {Unrestricted} :
            /\ HasScope(run.owner, run.since, s)
            /\ \A r \in run.reads :
                   CostScope([caps |-> {"cost_calculation"}, scope |-> s], r.part, r.period)

\* Each audit event reports the one change it was written for, no change is
\* reported twice, and of two calls that overlap none reports the other's.
AuditTellsWhatHappened ==
    /\ \A i \in DOMAIN audit : audit[i].what = changes[audit[i].change]
    /\ \A i, j \in DOMAIN audit : i # j => audit[i].change # audit[j].change
    /\ \A u \in Users : call[u].at = "written" =>
           /\ changes[call[u].change].by = u
           /\ \A i \in DOMAIN audit : audit[i].change # call[u].change
=============================================================================
