# CostGraph: formal models

TLA+ models of the CostGraph backend (`src/backend/app`), checked with TLC on
small instances and, for their safety core, proved with TLAPS for every value of
the constants. Paths below are relative to `src/backend/app` unless they start
with `docs/` or `src/frontend/`; `RR` stands for `repositories/run_repository.py`, `IJ` for
`repositories/postgres_import_job_repository.py`.

CostGraph answers questions about product costs. Users talk to an agent (a
LangGraph graph) whose runs are executed by worker processes out of a durable
queue in PostgreSQL; the cost data it reads is imported by governed jobs, which
the same workers validate and publish out of a second queue. Most of what makes the
program hard lies in these two queues: their rows are shared by the API process
and by several workers, which crash, lose their lease, retry, and learn about
their own commits late or never. Around them stand the conversation a run belongs to,
the dialogue it continues, the rights it runs with, and the stream its page follows.

## Contents

| module | what it is |
| --- | --- |
| `RunLifecycle` | abstract: what the queue promises about a run: status along the allowed edges, turn written once |
| `RunQueue` | the durable run queue: rows, turns, events, checkpoints, slots, workers |
| `RunQueueProofs` | TLAPS: types, leases, outcome, finality, refinement, fencing, cancellation, one active run, the event log tells the status |
| `SnapshotCatalog` | abstract: what the import pipeline promises to the readers of cost data |
| `ImportJobs` | import jobs: submission, decision, validation, publication, audit, slots, workers |
| `ImportJobsProofs` | TLAPS: types, leases, publication and event, one snapshot, refinement |
| `RuntimeCalls` | the tool and model calls of a run over all its attempts: control checks, budget, start and finish events, failed calls |
| `RuntimeCallsProofs` | TLAPS: types, budget bound, charges and events, refused calls, failed calls, late calls, tokens against calls |
| `Conversations` | runs, turns, messages and artifacts of a user's conversations, and a client that pages through them |
| `ConversationsProofs` | TLAPS: types, one writer of a context, turns and reports, repeated submissions, complete pages |
| `Dialogue` | the graph of the agent over a sequence of turns: routes, slots, clarifications, what a turn inherits |
| `DialogueProofs` | TLAPS: asked before read, no period of the model, open questions, what moves the context |
| `RunStream` | the event stream of a run: appending transactions, SSE reader, the web client that follows it |
| `RunStreamProofs` | TLAPS: types, nothing missed, streams close with the outcome, the page tells what the run told it |
| `Access` | roles, data scopes and capabilities, the read paths of cost data, governance changes and their audit |
| `AccessProofs` | TLAPS: types, members, audit events, the scope a run reads with, the read paths and their figures agree |
| `CostRollup` | the content of an import: validation, and the roll-up of cost that a publication makes for every finished batch |
| `CostRollupProofs` | TLAPS: sums over finite sets, types, accepted content never fails, equations, conservation |
| `CostViews` | operators: the views of a batch, their aggregation, the overview, the comparison of two periods |
| `MCRunQueue`, `MCImportJobs`, `MCRuntimeCalls`, `MCConversations`, `MCDialogue`, `MCRunStream`, `MCAccess`, `MCCostRollup` | constants of the small instances; one `.cfg` for each run |

`RunQueue` implements `RunLifecycle` and `ImportJobs` implements `SnapshotCatalog`. `Access` uses
`CostViews` for the figures its read paths answer with. The other modules meet at named
abstractions: a run of `RunQueue` is one row of `Conversations`, its calls are those of `RuntimeCalls`, its
events those of `RunStream`, its graph that of `Dialogue`; the snapshot a publication of
`ImportJobs` puts in place is the catalogue of `Dialogue` and `Access`, and its content that of `CostRollup`.

## Inventory

### Modelled

**Agent run queue** (RR, `worker.py`, `agent/runtime_services.py`).
State: `agent_runs` (status, `lease_owner`, `lease_expires_at`, `available_at`,
`attempt_count`, `cancel_requested_at`, error, `checkpoint_expires_at`), `turns`,
`agent_run_events` (a sequence without gaps, unique event key), LangGraph's
checkpoint table, and in each worker a thread pool, a heartbeat thread per
execution and the poll loop. Operations: `create_run`, `cancel` (API);
`claim_next`, `renew_lease`, `mark_cancelled`, `mark_finalizing`, `finalize`,
`handle_failure`, `append_event`, `cleanup_expired_checkpoints` (worker).
Interaction: the API and the workers meet in the rows only; a worker drives the
graph, whose nodes write checkpoints and call `check_control`, which reads the
row and the heartbeat's flag. Hard: a slot that lost its lease goes on until its
next check; the fence compares `lease_owner` but not the attempt nor the lease's
time; commits are acknowledged late or never; a cancellation can arrive
between any two transactions; checkpoints carry no fence at all. Correct when:
row, turn and event stream tell one outcome, a settled run stays settled, a
cancelled run is not started again, every run settles.

**Import jobs and publication** (IJ, `services/import_job_service.py`,
`services/cost_data_import_service.py`, `worker.py`). State: `data_import_jobs`,
`data_load_batches` (one published batch per tenant, one batch per snapshot, both
by unique index), `governance_audit_events`, the import slots of each worker.
Operations: `create_job`, `decide`, `cancel` (API, audited afterwards);
`claim_next_job`, `complete_validation`, `publish_transaction` around
`publish_validated_snapshot`, `fail_job`, `append_audit_event` (worker). Hard:
two publications of a tenant race under READ COMMITTED, a publication outlives its
lease while it holds its row's lock, an attempt counter is shared by two phases,
part of the events is written after the transaction they report. Correct when: a
tenant's queries read one snapshot, replaced in one step; nothing is published
without approval or outside the lease; status, batch and event agree; no claimed
job hangs.

**Calls of a run** (`agent/runtime_services.py`, `RR:331-560`, `agent/graph.py`,
`agent/routes`). State: `agent_runs.budget_usage_json`, the start and finish events
of calls in `agent_run_events`, per attempt a `RuntimeServices` with call ordinals, and
`state["errors"]` of the graph. Operations: `invoke_tool` and `invoke_model`, each a
control check, a preflight, `reserve_runtime_call`, the call itself, another check,
`add_runtime_tokens` and `_finish`; the `except` clauses of the nodes. Hard: an
attempt that lost its run goes on calling, reserving and recording next to its successor;
two transactions rewrite one JSON document; a reservation may be committed and
not acknowledged; some nodes swallow a failed call and others do not. Correct when: the budget
bounds what is run over all attempts, each charge is one event, nothing refused is
charged, nothing follows a failure, at most one call follows a cancellation.

**Content of an import: validation and cost roll-up** (`services/cost_data_import_service.py`,
`domain/cost.py`, `services/cost_source_builder.py`, `services/cost_calculation_service.py`,
`schemas/cost_data.py`). State: the four record sets of a payload and, inside a publication,
the partial results of a roll-up and the projections already made. Operations:
`validate_payload`, `publish_validated_snapshot` with `build_finished_batch_sources`, and for
each finished batch `roll_up_cost_graph`, `_allocate_amounts` and the response contract.
Interaction: a publication of the import jobs runs it in its transaction, possibly days after the validation of
the same payload. Hard: two implementations check one graph; cents are rounded edge by
edge; the order of the roll-up is not fixed; each batch sees a part of the graph. Correct
when: accepted content never fails, results satisfy the documented equations, no cent is lost or
counted twice.

**Conversations and artifacts** (RR:76-239 and 1018 ff., `repositories/postgres_conversation_repository.py`,
`repositories/postgres_artifact_repository.py`, their services). State: `conversations` (title, context
with its pending question), `agent_runs` with the hash of the request, `turns`, `messages`,
`artifacts`. Operations: `create_run`, the transactions that write turns, deletion with its
cascade, `trash` and `restore`, `list_messages`. Interaction: a submission freezes the context its run will
replace; a worker writes turn, artifact and context together at the end. Hard: repetitions, other
submissions and a deletion race with the end of a run; a page bound must separate messages of one
timestamp. Correct when: a context has one writer, turns and artifacts are those of the runs that ended
that way, a repeated submission gets its run, a reader pages through everything once.

**Agent graph and dialogue** (`agent/graph.py`, `agent/nodes.py`, `agent/routes`,
`services/llm_service.py`, `domain/conversation.py`). State: the conversation context and the graph state of one turn.
Operations: the nodes. Interaction: the model's reply, the published snapshot (read by a transaction per call), the rights of
the user. Hard: what a question leaves out is inherited from earlier turns, of which some failed,
were blocked or only asked back; months are read off the text by several patterns. Correct when: nothing is read before
everything is settled, the model decides no period, a clarification stays open
until it is answered, and only answers and clarifications move the context.

**Event stream and its reader** (RR:287-430, `services/runtime_service.py:72-108`,
`api/runtime_runs.py:95-126`, `src/frontend/src/api/conversations.ts`,
`src/frontend/src/features/agent-run/runtimeProgress.ts`, `src/frontend/src/pages/AiWorkspacePage.tsx`).
State: `agent_run_events` with the `last_event_id` of the run, the cursor of a generator, what is on the wire, the
page's cursor and view. Hard: ids are given before they are committed, the run settles between two reads of the
generator, connections break, the stream sends errors of its own, events follow the terminal one, the answer of a
cancel comes after the result. Correct when: no event is missed or shown twice, a stream does not close before the
outcome, the page ends, and what the run has told it is the outcome of the row.

**Access** (`auth/context.py`, `domain/authorization.py`, `services/iam_service.py`,
`repositories/postgres_iam_repository.py`, `repositories/postgres_cost_repository.py`,
`services/cost_data_query_service.py`, `agent/harness.py`, `agent/tools.py`). State: memberships with roles, data
scopes, the server's capabilities, the snapshot, the principal frozen with a run, `governance_audit_events`.
Operations: authorisation of a request, the queries and tools, `set_roles`, `set_scope`. Hard: every step is its own
transaction; five read paths apply a scope in three different places. Correct when: the paths agree on
what a principal sees and on its figures, a run reads under one scope, an audit event tells the change it belongs to.

### Not modelled

| component | what it does | why not |
| --- | --- | --- |
| Checks of one row of an import (`services/cost_data_import_service.py`) | text, units, dates, scale, duplicates | each fails or passes by itself; `CostRollup` starts from rows that pass |
| Tenant context (`db/tenant.py`) | session variable for row level security on pooled connections | planned as a model of the pool |
| Lineage, search and layout of reports (`services/lineage_service.py`, `services/report_service.py`) | projections of a snapshot | no state of their own; what they may see is `Access`, what they add up is `CostViews` |
| Data administration pages | read-only pages over batches and quality errors | no state of their own |
| Trace, replay, runtime contracts | record formats, offline evaluation | no concurrent state |
| HTTP call of the language model, object store, settings, health, request parsing | I/O | their failures are the faults of the models |
| Verification of tokens (`auth/oidc.py`) | I/O and cryptography | `Access` starts from its claims |
| Worker registry, lists and summaries | single reads and upserts | nothing depends on them |
| Schema migrations | run once per deployment | the constraints they create are guards of the models |
| Rest of the web client | pages, forms, API clients | presentation |

## RunQueue: state and actions against the code

| variable | code |
| --- | --- |
| `run[r]` | the row of `agent_runs`. `live` and `due` stand for the comparisons of `lease_expires_at` and `available_at` with `now()`; `kept` for a set `checkpoint_expires_at` |
| `turn[r]` | the `turns` row of the run's `turn_id`; `at` remembers how many nodes the final state had gone through |
| `log[r]` | `agent_run_events` in sequence order, as event keys; `append_runtime_event` writes nothing for a key that exists |
| `checkpoint[r]` | nodes done in the newest LangGraph checkpoint |
| `exec[t]` | one call of `_execute_run`: program counter, run, position in the graph, the attempt it was claimed with, the heartbeat's lost flag, the exception |
| `worker[w]` | polling, draining (stop requested, or the poll loop ended by an error) or gone |

Every database transaction is one action, and what a slot does between two
transactions is an action of its own, so that any other actor can step in
between. `claim_next` is three actions, one for each way it ends a row:
`ClaimCancelled`, `ClaimExhausted`, `Claim`. `_execute_run` is `Load` or `Recall`
(the checkpoint of a run claimed in `finalizing`), then the loop `Boundary`
(`_persist_graph_events`), `Check` (lease flag and cancellation), `Node` or
`NodeControl` (`check_control` raising inside a node), and the end `Drained`,
`Clarify`, `MarkFinalizing`, `Finalize`; `MarkCancelled` and `HandleFailure` are
the other ends. Each settling transaction may commit and still look failed to its
worker (`acked = FALSE`). `Fault` is a transient error of any call, `Reject` one a
retry would not mend, `Escape` an error of the error handling itself. `Heartbeat` renews by
owner and status, as the code does: it may revive a lease that has lapsed.

The graph is abstracted to a number of nodes: what a node computes and where it
routes to does not matter to the queue. Time is abstracted to the two
comparisons: a lease may lapse at any moment and a back-off may end at any moment.
A restarted worker is another member of `Workers` (the code draws a new id).

## ImportJobs: state and actions against the code

| variable | code |
| --- | --- |
| `carries[j]` | idempotency key and snapshot (source system, payload hash, rule version) of submission j, chosen once |
| `request[j]`, `owed[j]` | how far `create_job` is, and the audit events the service still has to append |
| `job[j]` | the row of `data_import_jobs`, as in `run[r]` |
| `batch[j]` | status of the `data_load_batches` row the job wrote |
| `audit[j]` | number of `governance_audit_events` of each action |
| `exec[t]`, `worker[w]` | one call of `_execute_import_job`; the process |

`create_job` is two transactions, `Submit` (the two look-ups) and `Insert`
(`ON CONFLICT DO NOTHING`, which only the key can hit). The decisions of a user are
`Decide` and `Cancel`; their event is appended by the service afterwards
(`RequestAudit`) unless the process dies (`RequestDies`). A publication is the only
transaction that is not one action: `OpenPublication` takes the row lock and fixes
which published batches its `UPDATE` sees, `Publish` inserts and commits. Between
the two other publications may commit (READ COMMITTED), the lease may lapse, the worker
may die. `Overtaken` and `SnapshotTaken` are the two unique indexes, and
`LeaseHeldAtCommit` the fence `publish_transaction` repeats before its commit.
Renewal of a lease has no action: it leaves an alive lease alive and, unlike that of
the runs, does not revive a lapsed one, and `LeaseExpires` is free not to happen.

The content of a payload is one bit: whether its snapshot is in `Invalid`.

## RuntimeCalls: state and actions against the code

| variable | code |
| --- | --- |
| `row` | the row of `agent_runs`: status, attempt, owner, cancellation, and the error its answer reports |
| `usage` | `budget_usage_json`: calls of each kind, tokens |
| `checkpoint` | newest LangGraph checkpoint: nodes done, last of `state["errors"]` |
| `started`, `finished` | start and finish events of calls by `call_id` (attempt, node, kind, ordinal) |
| `exec[a]` | attempt a: program counter, state of the graph, the call being made with its ordinals and outcome, the heartbeat's lost flag |
| `ran`, `late` | history: calls whose function was run; those reserved after a cancellation or a lost lease |

A call is `Control` (`check_control`, `_call_id`, preflight), `Reserve`
(`reserve_runtime_call`), `Answer` (the function, its timeout, and the check of what it
returned), `RecordUsage` for a model, and `Finish` (`_finish`, then
`require_call_value` in the node). `Boundary`, `EndNode`, `Drained` and the settling
transactions are those of `RunQueue` seen from a call. A failed call raises, unless it
was a tool's and its node is in `Catching`: `resolve_part`, `load_finished_batches` and
`build_report_json` have such an `except`, and it encloses their tool calls only.
After an error the edges lead to `final_answer`.

Abstractions. A worker has one slot, so that an attempt names its owner. A lease may
lapse whenever the next attempt claims the run, so that attempts overlap as much as they
can. `Script` says which calls a node makes and in which order; the routes differ only in
it. Causes of failure are told apart by what the code does with them: `transient` (retried),
`refused` (before the function is run), `run_cancelled`, `run_timeout`, `lease_lost`, and
`permanent` for all others. A write whose acknowledgement is lost is the second
disjunct of `Written`. One token stands for the usage a provider reports.

## CostRollup: state and actions against the code

| variable | code |
| --- | --- |
| `payload` | events and input edges of a payload with their quantities, and by event the sum of its cost records |
| `phase` | the part of the job's status that says what may be done with the payload |
| `todo` | roots of `build_finished_batch_sources` for which the loop of `_projection_values` has not come round |
| `rollup` | the locals of `roll_up_cost_graph`: root, subgraph, `accumulated`, `edge_allocations` |
| `projection` | by root, what is inserted into `finished_batch_cost_projections` |

`Validate` is `validate_payload`; the approval that follows is the user's. `Publish` opens
the transaction, `Begin` cuts out the subgraph of one root and sorts it, `RollUp` is one round of the
loop over the sorted events, `Project` the contract of the result, `Commit` and `Fail` the two ends.
The sorter is any order in which sources come first. Every check the publication makes by itself (`ValueError`s of
the roll-up, bounds of the contract) is kept, and leads to `Fail`.

Abstractions. Amounts are whole cents and quantities whole ten-thousandths, which validation
enforces. There is one cost code: the code treats the 48 alike and apart. A ratio is exact,
while the code divides to 28 digits: for the quantities of the instance results are the same, for a
divisor such as 6 or 9 the code may break a tie between two equally rounded edges the other way and take
the excess cent from the other one. Checks of single rows are left out. `ImportJobs` sees a payload as
one bit; `CostRollup` says what that bit promises.

Shares of single cost codes are outside `CostViews`; its other operators are functions of
amounts by group, translated one by one from `services/cost_calculation_service.py` and `services/report_service.py`.

## Conversations: state and actions against the code

| variable | code |
| --- | --- |
| `conv[c]` | the conversation row: open or deleted, whether it has a title, its context and whether that has a pending clarification |
| `runs[r]`, `created` | `agent_runs` in the order of creation; `request` is what `request_hash` covers |
| `history[c]` | `turns` of a conversation by `created_at`; each has two `messages` of that time |
| `artifacts` | `artifacts`, by run and message id |
| `answer` | the last answer of `create_run` |
| `pager` | a client of `list_messages`: cursor, and what it has read |

`CreateRun` has the branches of the code in their order: no conversation, a reply that is not the pending one, a message id
that is known (same hash or conflict), a busy conversation, a new run. `Finalize` and `Cancel`
write a turn, `Fail` does not. `DeleteConversation` is refused while a run is active and otherwise cascades; artifacts have no
foreign key and stay, so that a message id used again may clash with one (`ArtifactClash`), which
makes `finalize` fail. Contexts are named by the run that wrote them. The statuses between claim and end
are one, since only "active" matters here.

## Dialogue: state and actions against the code

| variable | code |
| --- | --- |
| `ctx` | `ConversationContext`: slots of the last answer or clarification, route, pending |
| `cat` | parts and batches of the published snapshot |
| `pc`, `q`, `grant`, `route`, `reply`, `slots`, `part`, `missing`, `reads`, `failed` | `AgentState` of the turn: the node that runs next, question, allowed routes, `effective_route`, the model's reply, resolved slots and part, `missing_slots` and `invalid_slots`, batches loaded, `errors` |
| `turns`, `last` | turns submitted, and the outcome of the last that was persisted |

Each node of the graph is an action with its own edges. A question is a record of what the patterns of the code
would find in it: a keyword class, a part, months with the form they are written in, a relative month,
a style, days. `Residue` is what the pattern for a month without a year matches in a month written with one.
`Lose` is any exception that leaves the graph: nothing of the turn is persisted, as in `handle_failure`.

## RunStream: state and actions against the code

| variable | code |
| --- | --- |
| `row` | status and `last_event_id` of `agent_runs` |
| `log`, `nextId`, `open` | the committed events, the identity column, and the uncommitted insertion of each writer |
| `stream` | one call of `iter_run_events`: before `list_events`, before `get_run`, or yielding a batch |
| `wire` | what was yielded and not read; lost when the connection breaks |
| `client` | `streamConversationRun` (connect, read, ask `getConversationRun`, done, or no longer following) with its cursor, what was dispatched, the reducer's lifecycle (`view`), whether the messages are being read after a result (`unread`), and, for the properties only, whether the last word on the view is that of a call the page made itself (`own`) |
| `cancels` | the calls of `cancel()` of the page: sent, served by the repository, or reading the messages after the answer |
| `strays` | followers that were aborted while they waited for `getConversationRun`, which takes no signal |
| `faults` | counts faults, for the bound |

A writer is any transaction that appends; who may append what is `RunQueue`'s business, so that here node and call events may
come at any time, and a status as long as the run is active. The statuses an active run passes through are one kind
(`running`), and a transaction appends one event: several events of one commit are several commits that nothing reads between. `MayLock` is the row lock of
`_lock_run_and_event`, on which `NothingMissed` rests. `Reload` opens the conversation anew: an unfinished run
is followed from event 0 again, and so is a settled one when it is found by its messages; when the requests fail
the view stays empty.

`cancel()` waits for its answer (`AiWorkspacePage.tsx:145`) while everything else goes on, so it is an action for each of its steps:
`Click`, as long as the page shows an active run; `CancelIsServed`, the repository under the row lock, which settles a waiting run,
notes the request for a running one and returns a settled or finalizing one as it is; `CancelReturns`, which aborts the
follower and shows the run as cancelled without a look at what happened meanwhile, also when following has ended with the result; `CancelFails`, the catch, which shows it as failed, while the page
may go on following or be done; `CancelEnds`. Two more calls can move the view after the end: reading the messages after a result
(`MessagesRead`, `MessagesFail`, the same catch as that of the stream), and `getConversationRun` of an aborted follower, which still shows a result (`StrayAnswers`).
`Reload` keeps the calls under way when the conversation is opened anew inside the page, and loses them with the document.
The model has one conversation with one run: what a call of one conversation does to the view of another, and a submission
before a run is there, are left out, and so is a new question asked while a call for the last run is under way.

## Access: state and actions against the code

| variable | code |
| --- | --- |
| `roles`, `scopes` | `iam_principal_roles`, `iam_data_scopes` |
| `cat`, `server` | the published snapshot; the capability setting of the deployment |
| `call[u]` | the request of user u: authenticated, authorised, target found, change written |
| `run` | an agent run: the principal frozen with it, and what its tools have read |
| `changes`, `audit` | history of committed changes; the audit events |

Every repository call is an action, so that other requests come between authentication, reading the scope, the
change and its event. The queries are operators over a principal, one for each path (`ListParts`, `Overview`,
`Page`, `Detail`, `PartPeriod`, `ToolRows`), each with its filters where the code has them: in the statement, before
it, or after it. `RunContext` is derived again by each tool call. A snapshot costed by rules of another build makes
every query fail but that of the parts.

## Runs

| run | instance | question |
| --- | --- | --- |
| `MCRunQueue` | 1 run, 2 nodes, 2 workers of one slot (one may crash or drain), 2 attempts, 157k states | do row, turn, stream and lease agree; is a settled run final; does the queue implement `RunLifecycle`; does every run settle |
| `MCImportJobs` | 1 job, valid or invalid, 2 workers of one slot (one mortal), faults everywhere, 3 attempts, 64k states | do status, batch and audit agree; is every write made under its attempt's lease; does every claim end |
| `MCImportJobs_race` | 2 submissions of a tenant, every combination of 2 keys and 3 snapshots, 2 workers, no faults, 3 attempts, 264k states up to symmetry | one current snapshot, one batch per snapshot, whatever submissions and publications race; does the pipeline implement `SnapshotCatalog` |
| `MCImportJobs_stranded` | as `MCImportJobs`, 2 attempts | counterexample to `ApprovedJobSettles` |
| `MCRuntimeCalls` | 3 nodes (two tools; a model and a tool; the answer), 2 attempts, budget 2 model and 3 tool calls, 1.38M states | does the budget bound all attempts; do charges, events and refusals agree; what may follow a failure, a cancellation or a lost lease |
| `MCConversations` | 2 conversations, 2 message ids, 3 runs, pages of one message, 237k states up to symmetry | has a context one writer; do turns and artifacts tell how runs ended; does a repetition get its run; are pages complete |
| `MCDialogue` | 3 turns of 11 questions about 2 parts, 16 replies of the model, 2 snapshots, 2 grants, 820k states | is anything read before all is settled; does the model decide a period; what moves the context |
| `MCDialogue_explicit` | as `MCDialogue` | counterexample to `ExplicitInputWins` |
| `MCRunStream` | 2 writers at a time, 5 event ids, a cancel at a time, 2 faults, 1.03M states | is an event missed or repeated; does a stream close too early; does the page end; does it show the outcome, as far as the run has the last word |
| `MCAccess` | administrator and viewer, 2 scopes, 2 changes, 4 batches of 2 parts in 2 periods, pages of 2, 212k states | do the read paths agree on rows and on figures; does a run read under one scope; does the audit tell what happened |
| `MCCostRollup` | 4 events, every list of 1 to 3 edges out of 14 (9 forward, 4 against the rules, one empty), lots of 2 to 4 pieces with and without defects, wrong quantities; fans of 4 edges; 674k states | does accepted content never fail; do results solve the equations in every order; is cost conserved |
| `MCCostRollup_split` | as `MCCostRollup` | counterexample to `SnapshotConserves` |

Why the bounds are enough. Interference over a run needs one slot that was
overtaken and one that overtook it: two slots and two attempts give every such
pair, and no action looks at more than one other slot. Two nodes give a
checkpoint in the middle of the graph, which is what a resumed attempt and a late
writer can disagree about. A job is claimed once to validate and once to publish,
so three attempts leave one for a retry in either phase. Two jobs of a tenant
are the smallest instance in which publications race, and a snapshot retired is
never current again, so a third only repeats the race. The calls of a run
are those of the cost route comparing two periods: two calls of one kind in a node (the ordinal
counts), two kinds in a node (one caught, one not), a node without calls; the budget is enough for one
attempt and too small for two, so that the second meets it wherever the first left off. Four events give the graphs that matter to cost: a chain, a diamond
(a lot that reaches a batch by two paths), parallel edges, a lot split between two batches, a finished batch that
is itself consumed, a cycle. An overshoot of half-up rounding needs three shares that round up together, hence the
fans of four edges. In the conversations three runs are one that wrote the context, one that is
active on it and one more to collide with; two conversations let a message id be used in both; pages of
one message end between the two messages of a turn. Three turns are a question, an answer or clarification that leaves slots, and a turn that
inherits them after a third was lost or failed; the eleven questions have a member for each pattern of a
month and each keyword class. Two writers are enough for an id committed late, five ids for events before, at and
after the terminal one, and two faults for a fault during the recovery from another. A cancel
in one of its four states can meet every state of the follower; a second would only repeat the dispatches of the first. Two changes are the
smallest number whose events can be mixed up; four batches differ in part, period, size and rounding, and two of
them have one part and period.

Only `CostRollup` checks for deadlock: a payload always comes to an end. The other systems may stop and the
cfgs say so: every run and job has settled and no worker is left, or the bound on runs, turns, events or
changes is reached and nobody has a request open.

`TypeOK` is an invariant of the runs of `RunQueue` and `Conversations`. Those of `ImportJobs`,
`RuntimeCalls`, `Access` and `CostRollup` are theorems (`TypeCorrect`).

### Fairness

`FairSpec` assumes, for every slot, that its thread goes on (`WF(Step)`) unless its
process dies: every call the thread makes has a timeout. The poll loop of a live
worker goes round (`WF(Poll)`), time passes (`WF(BackoffElapses)`), and a lease
nobody renews lapses (`WF(Orphaned /\ LeaseExpires)`). Nothing is assumed about
users, faults, crashes, or the heartbeat of a working slot; the workers outside
`Mortal` do not die, which is the operator's promise that one worker is kept
running. Under import jobs a request that lives appends its event
(`WF(RequestAudit)`). In `RunStream` the generator's loop goes round (`WF(Serve)`: it polls every
fraction of a second) and so does the client's (`WF(Follow)`: it reads, asks or reconnects without waiting for
anybody). Nothing is assumed of the writers, of the answers to `cancel()` or of an aborted follower; `FollowingEnds` starts when the run is settled. Faults are
bounded: a connection that breaks for ever is followed for ever.

## Disagreements the runs show

Each has a run that must end in a violation, and an entry under `findings`.

* **An approved job that never settles** (`MCImportJobs_stranded`). Validation and
  publication share `attempt_count`; a job validated in its last attempt is never
  claimed again, nothing fails it, and `approved` cannot be cancelled.
* **The last digit of a month is a month** (`MCDialogue_explicit`). After a turn that left a period, 「2026年11月」
  is read as a relative month as well: the pattern for a month without a year matches its last digit, and January
  is answered for November. The agent tells the user that explicit input always wins (`agent/nodes.py:432`).
* **A lot split between batches is not conserved** (`MCCostRollup_split`). The rule that the last edge
  bears the rounding tail looks at the subgraph of one finished batch. A lot that two batches consume in full is partly
  consumed in each: 0.01 split 1:1 appears as 0.01 in both traces.

Further disagreements, without a run in this project. Add the formula to the module
named and to its configuration to see the violation.

* **A late cancellation fails a finished run.** `cancel` accepts a running row after the slot's last check; if
  `finalize` then fails, the retry finds the request and asks for `finalizing -> cancelled`, which
  `validate_run_transition` refuses. The computed result is lost and the run fails. `RunQueue`:
  `\A r \in Runs : run[r].error # "illegal_transition"`.
* **A result from a half-finished graph.** The checkpoint of a slot without a lease is what a `finalizing` retry takes as
  the terminal one. `RunQueue` with 3 attempts:
  `\A r \in Runs : turn[r].kind = "result" => turn[r].at = Nodes`.
* **A transient failure becomes the answer.** Three nodes catch every error of their tools, retryable or not; the graph goes on to
  `final_answer` and the run succeeds with the failure as its answer, where
  `docs/architecture/runtime.md` promises a retry. `RuntimeCalls`:
  `row.status = "succeeded" => row.answer # "transient"`.
* **A validation failure settles a publication.** `fail_job` checks the lease but, unlike `complete_validation` and
  `publish_transaction`, not the status the caller claimed the job in (`IJ:614`), although
  `ImportJobLeaseLostError` says 任务状态与预期不一致 (`repositories/import_job_repository.py:112-113`). With two slots in one worker a late
  failure of the validation ends the publication. `ImportJobs` with `WorkerOf <- TwoSlots`:
  `\A j \in Jobs : audit[j]["validation_failed"] > 0 => job[j].status = "validation_failed"`.
* **A page revives a failed run.** `docs/architecture/runtime.md:86` says failed and cancelled are final for the view until the next submission. An
  error of the repository inside the stream is sent as an error event (`api/runtime_runs.py:126`), shown as a failure
  of the run (`conversations.ts:206`), and taken back when the page reconnects. A reload of a settled run replays it from event 0
  as well. `RunStream`: `[][client.view \in {"failed", "cancelled"} /\ ~Reload => client'.view = client.view]_vars`.
  And once `getConversationRun` fails, the page shows the run as failed and follows it no further.
* **A finished page is overwritten.** `docs/architecture/runtime.md:86` calls the lifecycle of the Runtime the only source of the outer status
  (前端 reducer 以 Runtime 生命周期为唯一外层状态源). The page dispatches on its own account too: a cancel that
  comes back after the result shows cancelled, one that fails shows failed (`AiWorkspacePage.tsx:142-152`), and so does a failure to read the messages
  after the result (`AiWorkspacePage.tsx:68-72`), for a run that succeeded. `RunStream`, as an invariant:
  `client.pc = "done" => client.view = row.status`. A run that works is shown as cancelled with the answer, before anybody noticed the request, and the same
  paragraph makes that final for the view; the run may still succeed, since `finalize` does not look at the request: `client.view = "cancelled" => row.status = "cancelled"`.
* `docs/api/agent-contract.md:38` says a cancellation keeps the question and ends
  in a definite terminal state. A cancellation noticed inside a node raises
  `run_cancelled`, which `handle_failure` turns into a failed run without a turn. `RunQueue`:
  `\A r \in Runs : run[r].error = "run_cancelled" => turn[r].kind # "none"`.
* `docs/architecture/data-flow.md:81` says a new worker takes over when a lease has lapsed. With
  two slots per worker the same one may, and both slots pass the fence. `RunQueue` with
  two slots of one worker:
  `\A t, u \in Slots : Busy(t) /\ Busy(u) /\ exec[t].job = exec[u].job /\ WorkerOf[t] = WorkerOf[u] => t = u`.
* `docs/architecture/runtime.md:45` says the result of a publication leaves one
  event. `fail_job` and `_fail_import_job` append one each. `ImportJobs`:
  `\A j \in Jobs : audit[j]["published"] + audit[j]["publish_failed"] <= 1`.
* `docs/api/data-admin-contract.md:88` says each change of status leaves an event.
  The API's decision and its event are two transactions. `ImportJobs` with `Abandoned`
  not empty: `\A j \in Jobs : job[j].status = "approved" ~> audit[j]["approved"] > 0`.
* `docs/api/data-admin-contract.md:81-84` says both layers of idempotency rest on unique
  constraints. The one on the snapshot does not exist for jobs, so that two concurrent submissions
  under different keys both become jobs. `ImportJobs`:
  `\A j, k \in Jobs : Exists(j) /\ Exists(k) /\ SameSnapshot(j, k) => j = k`.
* `docs/architecture/runtime.md:102` says a run in a terminal state does not change. `reserve_runtime_call`
  and `append_event` look at neither status nor lease: an attempt that outlived its lease may
  charge the budget of a settled run and append to its stream. `RuntimeCalls`:
  `[][Terminal => UNCHANGED <<usage, started, finished>>]_vars`.
* `docs/architecture/runtime.md:96` lists an unavailable repository among what is retried. A database error
  in `add_runtime_tokens`, or in the check after a call, is inside the `try` of the call,
  is caught as any exception, and fails the run for good. `RuntimeCalls` shows it in
  `RecordUsage`, whose failing branch is `permanent`.
* `docs/data/cost-accounting-format.md` gives the `share` of a leaf as its share of the group;
  `calculate_finished_batch_cost` divides by the manufacturing total, `aggregate_part_period_costs`
  by the group. Both are about single codes, which `CostViews` leaves out.
* The same page has the last edge bear the rounding remainder. When half-up rounding overshoots,
  `_allocate_amounts` takes the cents from the edges rounded up most, as its own comment says. `Allocate` has both branches.
* Validation compares ids without surrounding blanks and accepts `1E+20` as one digit
  (`_numeric_range_ok`); the publication uses raw ids and the table's precision, so such a payload is accepted and
  its publication fails. `AcceptedNeverFails` is about content without these: both are checks of a single row.
* `docs/api/agent-contract.md:46` promises that a repeated message id returns the same run. The hash covers the conversation
  context and the last messages (`RR:133-138`), which the end of the run changes, so that a repetition after it gets
  `message_id_conflict`. `Conversations`: `RepeatReturnsTheRun` with `runs[r].status # "none"` in place of active. The recent
  messages are ordered by `created_at`, which the two messages of a turn share, so that the hash may differ even without that.
* The docs say message ids are unique per tenant, but `messages` has them as its primary key, in all tenants. A message id
  submitted at the same time in another conversation is answered as busy, not as a conflict. After the deletion of its
  conversation a message id is free again, but its artifact stays: `finalize` resolves conflicts on the artifact's id
  only, and a second report under that message id fails.
* `get_conversation` orders messages by time and id, `list_messages` by time and role: the first may show a reply before its question.
* An inherited style of comparison with two explicit months and no keyword of comparison takes its base from the
  model or the old context; an inherited base wins over the default of the previous month (`MergedComparison`).
* A comment of `services/llm_service.py:385` gives days precedence over a month; the answer is that of the whole month of
  the last day (`agent/routes/cost_nodes.py:75`). A clarified part keeps the label it was inherited with.
* The two periods of a comparison are read in two transactions, and may come from two snapshots.
* `docs/api/agent-contract.md:42` speaks of a unique finished good; the candidates contain raw materials as well (`Candidates`).
* `services/iam_service.py` says all writes are audited (所有写入都留审计). The change and its event are two transactions: a process that ends
  in between leaves no event, and events may be in another order than their changes. A scope can be set for members only, so that a
  new member is unrestricted until a second call.
* `list_parts` answers from a snapshot of outdated rules, for which every other query fails.
* `postgres_data_admin_repository.get_published_snapshot` reads the statuses of jobs after the transaction of the snapshot has ended.

## What is proved

The proofs hold for every number of runs, jobs, tenants, workers, slots, nodes and
attempts, conversations and messages, under the assumptions on the constants (`RunQueueAssumption`,
`ImportJobsAssumption`, `RuntimeCallsAssumption`, `BoundAssumption` of `Conversations`, `CostRollupAssumption`, `NoneAssumption`,
`QuestionAssumption`, `CatalogAssumption` of `Dialogue`, and `RoleAssumption`, `BoundAssumption`,
`ScopeAssumption`, `CatalogAssumption` of `Access`): functions map where they should, sets of faulty actors are
subsets, `NoWorker`, `NoRun`, `NoJob` and `NoRow` are no members, and at least one attempt is allowed. A script is a non-empty sequence
of sequences of kinds whose last node makes no call. The dates of a question are numbers, and `None` is none of the values it stands
beside. A catalogue has finitely many rows, of its own parts, and one for each batch; a row carries the views projected from amounts that are not
negative and a completed quantity that is positive, as the validation of an import asks for. `CostRollupAssumption` says what a payload is.
The proofs do not use `ServerAssumption` of `Access`, `RunStreamAssumption`, nor `TextAssumption`, `GrantAssumption` and
`MaxTurnsAssumption` of `Dialogue`; TLC evaluates all of them.

**`RunQueueProofs`.** The invariant is `TypeOK /\ ExecutionOK /\ LeaseDiscipline
/\ OutcomeTold`. `OutcomeTold` alone is not inductive: a settling transaction checks
only that the row names its worker, and that such a row is not settled already is
what `LeaseDiscipline` adds. `FrameLemma`, `ActiveLemma`, `CancelledLemma`,
`FailedLemma` and `SucceededLemma` say what the five kinds of writes do to
a run; `NextStep` sums up: at most one run moves, along an allowed edge, and keeps the invariant.
From it follow

* `LeasesAreOrderly`, `OutcomesAgree`, `SettledRunsStay`, `CancellationIsKept`;
* `QueueImplementsLifecycle`: the refinement of `RunLifecycle`;
* `OneRunAtATime`: only `create_run` makes a run active (`CreationLemma`); what the conversation gains from it is checked as
  `OneWriter` of `Conversations`;
* `OwnerIsNewest`, under `SingleSlot` (`agent_worker_concurrency = 1`, the default):
  the owner column tells attempts apart only because a worker cannot execute two of them.

**`ImportJobsProofs`.** The invariant `SafeInv` joins `TypeOK`, `LeaseDiscipline` and
`PublicationTold` with what holds while a publication is open: `LockOK`, its row stays
`publishing`, owned by its worker and locked by no other slot, and `SeenOK`, the batches it
is about to retire belong to its tenant and are published or were retired meanwhile.
With the unique index (`Overtaken`) that makes the commit retire exactly the snapshot that
is current at that moment (`CommitBatches`), which is the heart of `SnapshotIsUnique` and of
`PipelineImplementsCatalog`. `QuietStep` and `RowStep` preserve the invariant for all other actions;
`StepEffect` says what a reader can see of a step. `PublicationNeedsLease`,
`SnapshotHasOneBatch`, `PublicationsAreTold` and `LeasesAreOrderly` follow; `HolderWrites`
needs `SingleSlot` again; what goes wrong without it is among the disagreements above.

**`RuntimeCallsProofs`.** For every script, budget and number of attempts. The invariant joins the
properties with what makes them inductive: `ExecutionOK` (which node and call a program counter
goes with), `KeysBehind` (every key an attempt has used lies behind the call it is making, so that its next
one is new: `FreshLemma`), `StartedOnce` (a call in flight has its start event), `Counted` (the sets that are
counted are finite), `FailedIsLast` (after a failed call its attempt is past all calls) and `LateIsLast` (an attempt with
a late call is in it, or will fail at its next check). `BudgetBoundsTheCalls` is
kept because the only step that adds to the calls run, `Reserve`, finds a new key and so charges it in the same transaction. `ChargesAreTold`, `RefusedMeansFree`,
`FailedCallsEndTheWork` and `OneLateCall` are the other properties.
`FreshLemma` also shows that the branch of `reserve_runtime_call` for a key that exists is never taken.

**`ConversationsProofs`.** For every set of conversations and messages, and every bound. `OneWriter` says that an active run is
the only one of its conversation and was frozen with the context the conversation still has. It is inductive
with `RowsOK`, `CreatedOK` and `RunsAreOpen` (what a deletion leaves nothing of), as `Writing`.
`TurnsAndReportsKept` needs more: that turns stay in order when one is appended takes `ActiveIsNewest` (an active run was created after
all runs with a turn), that a kept report clashes with none takes `MessagesOnce` (no two runs have one message id) and
`ReportsSucceed`. Its halves, about turns and about reports, are `TurnsKept` and `ReportsKept`. The theorems are `TypeCorrect`,
`SingleWriter`, `TurnsAndReports` and `RepetitionsAreAnswered`; the last is about two submissions, and
follows because the request of a repetition is made from a context that `OneWriter` says has not moved.
`PagingMissesNothing` is about the client that pages back through the messages. Its invariant `PagerInv` says that what was read is the
span of the messages from the cursor to the end there was at the first page (`Span`): pages are cut before a message that exists, the order of
messages is total, also for the two of one turn (`InOrderLemma`), and messages that arrive meanwhile come after all of them.

**`RunStreamProofs`.** For every number of writers, calls of `cancel()`, events and faults. `TableOK` is what the row lock gives: an uncommitted event is the
newest, so that `last_event_id` is the greatest id of the table and a commit never lands behind a cursor. `OutcomeOK` says that only an
active run is settled and that one event tells it; `StreamOK` and `WireOK` that what is on the wire continues the client's
cursor without a gap, and the batch of the generator continues the wire; `ClientOK` that after a result nothing that the client could
still read changes its view. `NothingMissed` follows from the first and the last (`ReaderMissesNothing`), `ClosesWithTheOutcome`
from the comparison of the cursor with `last_event_id` (`StreamsCloseWithTheOutcome`). `ViewTellsTheOutcome` (`PageTellsTheOutcome`) is
inductive with the others: what an event, the result or `getConversationRun` shows is the outcome by `OutcomeOK` and `ClientOK` (`RowShown`), a row that is settled stays as it is
(`NewRowInv`), and the page's own calls move the view to a failure or a cancellation marked as theirs (`OwnWord`), never to a success, and leave cursor and log alone
(`SameStream`, `OffTheStream`). What it does not say is that a page that is done shows the row, which is false: see the disagreement above.

**`RunQueueProofs`, the event log.** `append_runtime_event` writes nothing for a key that exists, so that a status could change without an event. `Behind` says that the keys of a run lie behind its attempt and its
status: an attempt is claimed, begins to finalize and settles in this order, and each of these writes a key the log does not have yet.
With `Follows`, `StreamFollowsStatus` for one run, this is inductive (`StreamInv`); `StreamTellsTheStatus` is the theorem.

**`RuntimeCallsProofs`, the tokens.** Tokens are counted after the call and before its finish event, in a transaction of their own.
`Paid`, the successful finish events and those still to be written for tokens that are counted, are at most the tokens;
the tokens are at most `Closed`, the charged model calls that have left the call. A step either counts nothing and keeps both sets in
order (`Uncounted`), or counts one, adds at most one to `Paid` and at least one to `Closed` (`CountedOnce`). `NoTokensAreLost` follows.

**`AccessProofs`.** For every set of users, roles, scopes and catalogs. Changes are appended and never rewritten, so the scope
a principal had after the first n of them is what it was (`KeptLemma`), and the stored scope is that after all (`AppendLemma`).
`ScopeInv` says so of the stored scopes, of a request that has read one, and of the run, whose reads its scope covers; `AuditInv`
that a call which still has to report its change is the only one to do so. `MembersOnly` needs `FoundOK`: the target found
is still a member when the scope is written. The theorems are `TypeCorrect`, `OnlyMembersAreRestricted`,
`EventsTellTheirChange`, `RunsReadOneScope`, `ReadPathsAgree` and `FiguresAddUp`. `ReadPathsAgree` needs that an authorised request holds a role (`RolesHeld`): only
then the capability depends on the server alone (`CapsLemma`), and the queries and tools give what the scope grants
(`PathsLemma`). That the pages of the list split it rests on its order: with the batch as the last key it is total
(`OrderLemma`), so that the ranks of the rows are the numbers from 0 on (`RankLemma`) and each is on one page (`PlaceLemma`, `PageLemma`).

**`AccessProofs`, the figures.** For every catalogue and every scope the figures agree, by the laws of sums over finite sets (proved here
again from the sum of `CostViews`, since a module of proofs follows one component). A sum over the batches of a period
is the sum over its parts of the sums of their batches (`SumGroups`, `ByPartLemma`); the views of an aggregate, computed from groups
that are added over batches first, are the sums of the views of the batches (`SumSwap`, `AggregateLemma`, `ReportLemma`), because each
view is a sum over a set of groups that splits without overlap (`GroupsLemma`, `ViewsLemma`). The unit cost of a report is rounded from
the quotient of two sums: it lies between the least and the greatest unit cost of its batches, each rounded
the same way (`HalfUpLemma`, `MeanLemma`). Rounding group by group moves a sum by at most half a unit for each group, in either
period of a comparison (`RoundingLemma`, `ComparisonLemma`).

**`CostRollupProofs`.** For every set of events and edges, every payload, and every order of the sorter. Sums over finite sets are defined by
recursion over the set; their laws (adding an element, joining, grouping, comparing, combining two sums linearly) are proved from
a smallest set that breaks them, since the strict subsets of a finite set are well-founded. `AllocateLemma` says what `_allocate_amounts` returns: shares
that are not negative and add up to the amount, whether the last edge bears the rounding tail or the cents in excess are cut from the edges
rounded up most (`CutsLemma`); or, when less than everything is consumed, shares that add up to no more.
The invariant `IInv` says of the roll-up in progress and of every projection that an event with a cost has the one its
equation asks for (`Rolled`); a step adds an event whose sources all have theirs (`RollUpLemma`), and disturbs nothing that came before
(`KeptLemma`). That no division is by zero and no consumption exceeds its source carries over from the validation of the whole graph to
the subgraph of one batch (`UsedLemma`, `NeededLemma`). The theorems are `TypeCorrect`, `PublicationNeverFails`, `SorterIsNeverStuck` (the order
of the sorter never ends early), `EquationsSolved`, `ConsumptionConserves` and `NothingIsLost`.

**`DialogueProofs`.** For every set of questions, replies, texts, parts and catalogues, and any number of turns. What a turn asks about is settled
at the gate: `GateOK` says that nothing is read before it, that all later reads are of the part and the periods that passed, and `CompleteOK` that an answer
has read all of them. A period can come from the question, the clock or the context only, because each merged slot takes from the parsed reply only where the question
itself decides (`PeriodLemma`, `BaseLemma`). `ContextOK` keeps the clarification a context owes with the turn that asked.
The theorems are `AskedBeforeRead`, `NoPeriodOfTheModel`, `OpenQuestionIsKept` and the action property `ContextFollowsAnswers`.

`LeasesAreOrderly` of both queues, `SettledRunsStay`, `OneRunAtATime`, `RefusedMeansFree`, `OnlyMembersAreRestricted`, `SorterIsNeverStuck` and the `TypeCorrect` of
`ImportJobs`, `RuntimeCalls`, `Access` and `CostRollup` are theorems without a run of their own.

**Only model-checked.** `EveryRunSettles`, `EveryClaimEnds` and `FollowingEnds` are liveness under fairness, which is
outside the prover's reach; every other property of a passing run is stated by a theorem. The counterexamples are TLC's.

## Plan

1. `TenantPool`: session variables of pooled connections (`db/tenant.py`); no statement runs under another request's tenant.
2. Checks of one row of an import as operators, composed with `CostRollup`, so that `AcceptedNeverFails` is about whole payloads.
3. Lineage and search as further read paths of `Access`.
4. The other pages of the web client that keep state over requests (uploads and decisions on imports).

Proofs planned: the invariant of `TenantPool`, and that lineage and search return rows of the scope only, once 1 and 3 are modelled.
