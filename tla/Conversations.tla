---------------------------- MODULE Conversations ----------------------------
(***************************************************************************)
(* The conversations of one user: their runs, turns and messages, the      *)
(* artifacts their reports are kept as, and a client that pages back       *)
(* through the messages.  One action per transaction of                    *)
(* run_repository.py (create_run, finalize, _persist_cancelled_turn),      *)
(* postgres_conversation_repository.py and postgres_artifact_repository.py.*)
(*                                                                         *)
(* How a run gets from queued to its end is the business of RunQueue; here *)
(* it is active until one of its three endings.  What the graph makes of   *)
(* the context is the business of Dialogue; here a context is named by the *)
(* run that wrote it, 0 for the empty one.                                 *)
(***************************************************************************)
EXTENDS Integers, Sequences, FiniteSets, SequencesExt

CONSTANTS
    Convs,     \* conversation ids; uuid4, so that none is used twice
    Messages,  \* the message ids clients choose
    MaxRuns,   \* bound: runs created
    Limit      \* page size of list_messages

ASSUME BoundAssumption == MaxRuns \in Nat /\ Limit \in Nat \ {0}

RunIds == 1..MaxRuns

VARIABLES
    conv,       \* conversation rows: state, title, context and its pending question
    runs,       \* agent_runs
    created,    \* runs created so far; the next id
    history,    \* the turns of a conversation, in the order of their created_at
    artifacts,  \* the artifact rows
    answer,     \* the last answer of create_run
    pager       \* a client reading a conversation page by page

vars == <<conv, runs, created, history, artifacts, answer, pager>>

NoRun == [status |-> "none", request |-> <<>>, report |-> FALSE]
ActiveStatuses == {"queued", "running"}
\* Mutant: only a run in the hands of a worker counts as active.
ActiveStatusesRunning == {"running"}
Settled == {"succeeded", "failed", "cancelled"}

\* The statuses in which a run keeps its conversation busy: queued, running,
\* retry_wait and finalizing; the last two are "queued" and "running" here.
BusyStatuses == ActiveStatuses

RunsOf(c) == {r \in RunIds : runs[r].status # "none" /\ runs[r].request.conv = c}
Busy(c) == \E r \in RunsOf(c) : runs[r].status \in BusyStatuses
Pending(c) == IF conv[c].pending THEN conv[c].context ELSE 0

LastThree(s) == SubSeq(s, IF Len(s) < 3 THEN 1 ELSE Len(s) - 2, Len(s))

\* Mutant: the hash covers the whole conversation row, its title too.
RequestOfRow(c, m, reply) ==
    [conv |-> c, message |-> m, reply |-> reply, context |-> conv[c].context,
     recent |-> Append(history[c], IF conv[c].named THEN 1 ELSE 0)]

\* The request whose hash identifies a submission: what the client sent, and the
\* snapshot of the context and of the last six messages it is frozen with.
Request(c, m, reply) ==
    [conv |-> c, message |-> m, reply |-> reply, context |-> conv[c].context,
     recent |-> LastThree(history[c])]

NoPager == [conv |-> "none", cursor |-> 0, end |-> 0, seen |-> <<>>]

Init ==
    /\ conv = [c \in Convs |-> [state |-> "new", named |-> FALSE, context |-> 0,
                                pending |-> FALSE]]
    /\ runs = [r \in RunIds |-> NoRun]
    /\ created = 0
    /\ history = [c \in Convs |-> <<>>]
    /\ artifacts = {}
    /\ answer = [conv |-> "none", message |-> "none", reply |-> 0, result |-> "none"]
    /\ pager = NoPager

-----------------------------------------------------------------------------
CreateConversation(c) ==
    /\ conv[c].state = "new"
    /\ conv' = [conv EXCEPT ![c].state = "open"]
    /\ UNCHANGED <<runs, created, history, artifacts, answer, pager>>

UpdateTitle(c) ==
    /\ conv[c].state = "open" /\ ~conv[c].named
    /\ conv' = [conv EXCEPT ![c].named = TRUE]
    /\ UNCHANGED <<runs, created, history, artifacts, answer, pager>>

Reply(c, m, reply, result) ==
    answer' = [conv |-> c, message |-> m, reply |-> reply, result |-> result]

\* The run that has the message id, in whatever conversation.
Holders(m) == {r \in RunIds : runs[r].status # "none" /\ runs[r].request.message = m}

\* create_run, under the lock of the conversation row.  A submission of the same
\* message that runs at the same time in another conversation meets the unique
\* index instead of the row and is answered as busy.
CreateRun(c, m, reply) ==
    \/ /\ conv[c].state # "open"
       /\ Reply(c, m, reply, "conversation_not_found")
       /\ UNCHANGED <<conv, runs, created, history, artifacts, pager>>
    \/ /\ conv[c].state = "open"
       /\ reply # 0 /\ reply # Pending(c)
       /\ Reply(c, m, reply, "clarification_mismatch")
       /\ UNCHANGED <<conv, runs, created, history, artifacts, pager>>
    \/ /\ conv[c].state = "open" /\ (reply # 0 => reply = Pending(c))
       /\ \E r \in Holders(m) :
             \E result \in IF runs[r].request = Request(c, m, reply) THEN {"run"}
                           ELSE {"message_id_conflict"} \cup
                                {x \in {"conversation_busy"} : runs[r].request.conv # c} :
                 Reply(c, m, reply, result)
       /\ UNCHANGED <<conv, runs, created, history, artifacts, pager>>
    \/ /\ conv[c].state = "open" /\ (reply # 0 => reply = Pending(c))
       /\ Holders(m) = {} /\ Busy(c)
       /\ Reply(c, m, reply, "conversation_busy")
       /\ UNCHANGED <<conv, runs, created, history, artifacts, pager>>
    \/ /\ conv[c].state = "open" /\ (reply # 0 => reply = Pending(c))
       /\ Holders(m) = {} /\ ~Busy(c) /\ created < MaxRuns
       /\ created' = created + 1
       /\ runs' = [runs EXCEPT ![created + 1] =
                      [status |-> "queued", request |-> Request(c, m, reply),
                       report |-> FALSE]]
       /\ Reply(c, m, reply, "run")
       /\ UNCHANGED <<conv, history, artifacts, pager>>

\* A worker claims the run.
Start(r) ==
    /\ runs[r].status = "queued"
    /\ runs' = [runs EXCEPT ![r].status = "running"]
    /\ UNCHANGED <<conv, created, history, artifacts, answer, pager>>

\* Another run's report is kept under the same message id, which is free again
\* once the conversation of that run is deleted.
ArtifactClash(r) ==
    \E a \in artifacts : a.run # r /\ a.message = runs[r].request.message

\* Mutant: an artifact is kept whatever the outcome.
KeptReportsOfAny(r, report) == artifacts \cup
    {[run |-> r, message |-> runs[r].request.message, trashed |-> FALSE]}
KeptReports(r, report) ==
    IF report THEN artifacts \cup {[run |-> r, message |-> runs[r].request.message,
                                    trashed |-> FALSE]}
    ELSE artifacts

\* finalize: the turn with its two messages, the title, the artifact of a completed
\* report, the new context and the status in one transaction.  With `asks` the
\* result is a clarification, which the new context carries as pending.
Finalize(r, report, asks) ==
    LET c == runs[r].request.conv
    IN  /\ runs[r].status = "running"
        /\ ~(report /\ asks)
        /\ report => ~ArtifactClash(r)
        /\ history' = [history EXCEPT ![c] = Append(@, r)]
        /\ conv' = [conv EXCEPT ![c].named = TRUE, ![c].context = r, ![c].pending = asks]
        /\ artifacts' = KeptReports(r, report)
        /\ runs' = [runs EXCEPT ![r].status = "succeeded", ![r].report = report]
        /\ UNCHANGED <<created, answer, pager>>

\* handle_failure: no turn and no message, the context stays.
Fail(r) ==
    /\ runs[r].status = "running"
    /\ runs' = [runs EXCEPT ![r].status = "failed"]
    /\ UNCHANGED <<conv, created, history, artifacts, answer, pager>>

\* cancel of a waiting run or mark_cancelled: the question is kept as a turn that
\* says it was cancelled.
Cancel(r) ==
    LET c == runs[r].request.conv
    IN  /\ runs[r].status \in ActiveStatuses
        /\ history' = [history EXCEPT ![c] = Append(@, r)]
        /\ conv' = [conv EXCEPT ![c].named = TRUE]
        /\ runs' = [runs EXCEPT ![r].status = "cancelled"]
        /\ UNCHANGED <<created, artifacts, answer, pager>>

\* Mutant: the rows go with their turns, and a run without a turn stays.
CascadeByTurns(c) ==
    [r \in RunIds |-> IF r \in RunsOf(c) \cap Range(history[c]) THEN NoRun ELSE runs[r]]
Cascade(c) == [r \in RunIds |-> IF r \in RunsOf(c) THEN NoRun ELSE runs[r]]

\* Refused while a run is active; otherwise the row goes, and with it by cascade
\* its runs, turns and messages.  Artifacts have no foreign key and stay.
DeleteConversation(c) ==
    /\ conv[c].state = "open" /\ ~Busy(c)
    /\ conv' = [conv EXCEPT ![c].state = "deleted"]
    /\ runs' = Cascade(c)
    /\ history' = [history EXCEPT ![c] = <<>>]
    /\ UNCHANGED <<created, artifacts, answer, pager>>

\* trash and restore of an artifact; a repetition changes nothing.
SetTrashed(a, trashed) ==
    /\ a.trashed # trashed
    /\ artifacts' = (artifacts \ {a}) \cup {[a EXCEPT !.trashed = trashed]}
    /\ UNCHANGED <<conv, runs, created, history, answer, pager>>

-----------------------------------------------------------------------------
(* list_messages.  The messages of turn i are 2i - 1, the question, and 2i, *)
(* the reply; both carry the same created_at, which is i here.              *)

CreatedAt(k) == (k + 1) \div 2
RoleOrder(k) == (k + 1) % 2
MessagesOf(c) == 1..(2 * Len(history[c]))

\* Mutant: the cursor is compared by created_at alone.
IsBeforeByTime(k, cursor) == cursor = 0 \/ CreatedAt(k) < CreatedAt(cursor)
IsBefore(k, cursor) ==
    \/ cursor = 0
    \/ CreatedAt(k) < CreatedAt(cursor)
    \/ CreatedAt(k) = CreatedAt(cursor) /\ RoleOrder(k) < RoleOrder(cursor)

\* The messages of S in reading order: the nth has n - 1 others before it.
InOrder(S) ==
    [n \in 1..Cardinality(S) |-> CHOOSE k \in S : Cardinality({j \in S : j < k}) = n - 1]

\* The newest `Limit` messages before the cursor, in reading order.
Page(c, cursor) ==
    LET rows == {k \in MessagesOf(c) : IsBefore(k, cursor)}
        kept == {k \in rows : Cardinality({j \in rows : j > k}) < Limit}
    IN  [items |-> InOrder(kept), more |-> kept # rows]

\* The client opens a conversation and asks for older pages while there are any.
\* A deletion ends it: the conversation or the cursor is not found.
FirstPage(c) ==
    /\ pager.conv = "none" /\ conv[c].state = "open" /\ MessagesOf(c) # {}
    /\ LET page == Page(c, 0)
       IN  pager' = [conv |-> c, cursor |-> IF page.more THEN Head(page.items) ELSE 0,
                     end |-> 2 * Len(history[c]), seen |-> page.items]
    /\ UNCHANGED <<conv, runs, created, history, artifacts, answer>>

OlderPage ==
    /\ pager.conv # "none" /\ pager.cursor # 0
    /\ IF conv[pager.conv].state # "open" \/ pager.cursor \notin MessagesOf(pager.conv)
       THEN pager' = NoPager
       ELSE LET page == Page(pager.conv, pager.cursor)
            IN  pager' = [pager EXCEPT !.cursor = IF page.more THEN Head(page.items) ELSE 0,
                                       !.seen = page.items \o @]
    /\ UNCHANGED <<conv, runs, created, history, artifacts, answer>>

ClosePager ==
    /\ pager.conv # "none" /\ pager.cursor = 0
    /\ pager' = NoPager
    /\ UNCHANGED <<conv, runs, created, history, artifacts, answer>>

Next ==
    \/ \E c \in Convs : CreateConversation(c) \/ UpdateTitle(c) \/ DeleteConversation(c)
                            \/ FirstPage(c)
    \/ \E c \in Convs, m \in Messages, reply \in 0..MaxRuns : CreateRun(c, m, reply)
    \/ \E r \in RunIds : Start(r) \/ Fail(r) \/ Cancel(r)
    \/ \E r \in RunIds, report, asks \in BOOLEAN : Finalize(r, report, asks)
    \/ \E a \in artifacts, trashed \in BOOLEAN : SetTrashed(a, trashed)
    \/ OlderPage \/ ClosePager

Spec == Init /\ [][Next]_vars

-----------------------------------------------------------------------------
(* Properties.                                                             *)

\* Every variable has its type; runs and turns belong to open conversations.
TypeOK ==
    /\ \A c \in Convs : /\ conv[c].state \in {"new", "open", "deleted"}
                        /\ conv[c].named \in BOOLEAN /\ conv[c].pending \in BOOLEAN
                        /\ conv[c].context \in 0..created
                        /\ conv[c].state # "open" => RunsOf(c) = {} /\ history[c] = <<>>
    /\ created \in 0..MaxRuns
    /\ \A r \in RunIds : /\ runs[r].status \in {"none"} \cup ActiveStatuses \cup Settled
                         /\ r > created => runs[r] = NoRun
    /\ \A a \in artifacts : a.run \in 1..created /\ a.trashed \in BOOLEAN

\* At most one run of a conversation is active, and until it ends nobody moves the
\* context it was frozen with, so that the context it writes at its end is derived
\* from the one it replaces and answers the question that is pending.
OneWriter ==
    \A r \in RunIds : runs[r].status \in ActiveStatuses =>
        LET c == runs[r].request.conv
        IN  /\ conv[c].state = "open"
            /\ runs[r].request.context = conv[c].context
            /\ runs[r].request.reply # 0 => runs[r].request.reply = Pending(c)
            /\ \A s \in RunsOf(c) : runs[s].status \in ActiveStatuses => s = r

\* A conversation's turns are its answered and its cancelled runs, each once and in
\* the order they were submitted; exactly the completed reports have an artifact,
\* which outlives its conversation but never shares a message id.
TurnsAndReportsKept ==
    /\ \A c \in Convs :
          /\ Range(history[c]) =
                {r \in RunsOf(c) : runs[r].status \in {"succeeded", "cancelled"}}
          /\ \A i, j \in DOMAIN history[c] : i < j => history[c][i] < history[c][j]
    /\ \A r \in RunIds : runs[r].status # "none" =>
          (runs[r].report <=> \E a \in artifacts : a.run = r)
    /\ \A a, b \in artifacts : a.run = b.run \/ a.message = b.message => a = b

\* A client that submits its message again before the run ends gets that run,
\* whatever else happened to the conversation meanwhile.
RepeatReturnsTheRun ==
    [][ \A r \in RunIds :
          /\ runs[r].status \in ActiveStatuses
          /\ answer' # answer
          /\ answer'.conv = runs[r].request.conv
          /\ answer'.message = runs[r].request.message
          /\ answer'.reply = runs[r].request.reply
          => answer'.result = "run" ]_vars

\* A client that has paged back to the start has every message there was when it
\* opened the conversation, once and in order, although turns are added meanwhile.
PagesAreComplete ==
    pager.conv # "none" =>
        pager.seen = [i \in 1..Len(pager.seen) |-> pager.end - Len(pager.seen) + i]
            /\ (pager.cursor = 0 => Len(pager.seen) = pager.end)
=============================================================================
