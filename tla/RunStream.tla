------------------------------ MODULE RunStream ------------------------------
(***************************************************************************)
(* The event stream of one run, from the transactions that append to       *)
(* agent_run_events to the view in the browser: append_runtime_event of    *)
(* run_repository.py, iter_run_events of runtime_service.py behind the SSE *)
(* endpoint, streamConversationRun of conversations.ts, and the reducer    *)
(* of runtimeProgress.ts with the page that feeds it, AiWorkspacePage.tsx. *)
(*                                                                         *)
(* Who appends what is the business of RunQueue: here a writer is any      *)
(* transaction of an attempt, overtaken or not, or of the API.  Calls and  *)
(* nodes may be recorded at any time, also after the end of the run; a     *)
(* status is recorded while the run is active, by the transaction that     *)
(* sets it.                                                                *)
(***************************************************************************)
EXTENDS Integers, Sequences, SequencesExt

CONSTANTS
    Writers,    \* transactions that append at the same time
    Clicks,     \* calls of cancel() that may be under way at a time
    MaxEvents,  \* bound: event ids given
    MaxFaults   \* bound: errors, broken connections and reloads

ASSUME RunStreamAssumption == MaxEvents \in Nat /\ MaxFaults \in Nat

Active == {"queued", "running"}
Terminal == {"succeeded", "failed", "cancelled"}

VARIABLES
    row,     \* agent_runs: status and last_event_id
    log,     \* committed rows of agent_run_events
    nextId,  \* the identity column of the table
    open,    \* the row a writer's open transaction has inserted
    stream,  \* one call of iter_run_events
    wire,    \* what it has sent and the client has not read
    client,  \* streamConversationRun and the view it feeds
    cancels, \* the calls of cancel(): "idle", "sent", "served" or "refresh"
    strays,  \* aborted followers that still wait for getConversationRun
    faults   \* faults so far

vars == <<row, log, nextId, open, stream, wire, client, cancels, strays, faults>>

NoEvent == [id |-> 0, kind |-> "none"]
NoStream == [pc |-> "ended", cursor |-> 0, batch |-> {}, clean |-> FALSE]

\* A page that begins to follow.  own: the last word on its view is not the run's but
\* that of a call the page made itself (recorded for the properties only); unread: the
\* messages are being read after a result.
Opened(status) == [pc |-> "connect", last |-> 0, seen |-> <<>>, view |-> status,
                   result |-> FALSE, unread |-> FALSE, own |-> FALSE]

\* The status a terminal event tells; a node and a call tell none.
Outcome(kind) ==
    IF kind = "result" THEN "succeeded" ELSE IF kind = "error" THEN "failed" ELSE kind
IsTerminalEvent(e) == Outcome(e.kind) \in Terminal

Init ==
    /\ row = [status |-> "queued", last |-> 1]
    /\ log = {[id |-> 1, kind |-> "queued"]}
    /\ nextId = 2
    /\ open = [w \in Writers |-> NoEvent]
    /\ stream = NoStream
    /\ wire = <<>>
    /\ client = Opened("queued")
    /\ cancels = [k \in Clicks |-> "idle"]
    /\ strays = 0
    /\ faults = 0

-----------------------------------------------------------------------------
(* append_runtime_event.                                                   *)

\* Mutant: the row is not locked.
Unlocked(w) == open[w] = NoEvent
\* Every transaction that appends holds the row of its run.
MayLock(w) == \A v \in Writers : open[v] = NoEvent

Kinds == {"node"} \cup (IF row.status \in Active
                        THEN {"running", "result", "error", "cancelled"} ELSE {})

Insert(w, kind) ==
    /\ MayLock(w) /\ nextId <= MaxEvents /\ kind \in Kinds
    /\ open' = [open EXCEPT ![w] = [id |-> nextId, kind |-> kind]]
    /\ nextId' = nextId + 1
    /\ UNCHANGED <<row, log, stream, wire, client, cancels, strays, faults>>

RowAfter(e) == [status |-> IF e.kind = "node" THEN row.status ELSE Outcome(e.kind),
                last |-> e.id]

Commit(w) ==
    /\ open[w] # NoEvent
    /\ log' = log \cup {open[w]}
    /\ row' = RowAfter(open[w])
    /\ open' = [open EXCEPT ![w] = NoEvent]
    /\ UNCHANGED <<nextId, stream, wire, client, cancels, strays, faults>>

\* The id stays unused.
Rollback(w) ==
    /\ open[w] # NoEvent
    /\ open' = [open EXCEPT ![w] = NoEvent]
    /\ UNCHANGED <<row, log, nextId, stream, wire, client, cancels, strays, faults>>

-----------------------------------------------------------------------------
(* iter_run_events and the endpoint around it.                             *)

\* What list_events returns, which is ordered by the ids.
Newer(cursor) == {e \in log : e.id > cursor}

ListEvents ==
    /\ stream.pc = "list"
    /\ stream' = [stream EXCEPT !.batch = Newer(stream.cursor),
                                !.pc = IF Newer(stream.cursor) = {} THEN "check" ELSE "yield"]
    /\ UNCHANGED <<row, log, nextId, open, wire, client, cancels, strays, faults>>

\* The loop over the rows takes them by their ids.
YieldEvent ==
    /\ stream.pc = "yield"
    /\ \E e \in stream.batch :
          /\ \A x \in stream.batch : e.id <= x.id
          /\ wire' = Append(wire, e)
          /\ stream' = [cursor |-> e.id, batch |-> stream.batch \ {e},
                        pc |-> IF IsTerminalEvent(e) THEN "ended"
                               ELSE IF stream.batch = {e} THEN "check" ELSE "yield",
                        clean |-> IsTerminalEvent(e)]
    /\ UNCHANGED <<row, log, nextId, open, client, cancels, strays, faults>>

\* Mutant: a settled run ends the stream, whatever has been sent.
NothingLeftBySettled(cursor) == row.status \in Terminal
NothingLeft(cursor) == row.status \in Terminal /\ cursor >= row.last

\* get_run: one read of status and last_event_id.
CheckRun ==
    /\ stream.pc = "check"
    /\ stream' = IF NothingLeft(stream.cursor)
                 THEN [stream EXCEPT !.pc = "ended", !.clean = TRUE]
                 ELSE [stream EXCEPT !.pc = "list"]
    /\ UNCHANGED <<row, log, nextId, open, wire, client, cancels, strays, faults>>

\* An error of the repository is sent as an event without id, and ends the stream.
StreamError ==
    /\ stream.pc \in {"list", "check"} /\ faults < MaxFaults
    /\ stream' = NoStream
    /\ wire' = Append(wire, [id |-> 0, kind |-> "error"])
    /\ faults' = faults + 1
    /\ UNCHANGED <<row, log, nextId, open, client, cancels, strays>>

\* The connection breaks; what is on its way is lost.
Break ==
    /\ client.pc = "read" /\ faults < MaxFaults
    /\ stream' = NoStream /\ wire' = <<>>
    /\ client' = [client EXCEPT !.pc = "ask", !.result = FALSE]
    /\ faults' = faults + 1
    /\ UNCHANGED <<row, log, nextId, open, cancels, strays>>

-----------------------------------------------------------------------------
(* streamConversationRun, and what the page makes of it.                   *)

\* The endpoint takes the greater of Last-Event-ID and after_event_id, which agree.
Connect ==
    /\ client.pc = "connect"
    /\ stream' = [pc |-> "list", cursor |-> client.last, batch |-> {}, clean |-> FALSE]
    /\ wire' = <<>>
    /\ client' = [client EXCEPT !.pc = "read", !.result = FALSE]
    /\ UNCHANGED <<row, log, nextId, open, cancels, strays, faults>>

\* lifecycleFromEvent: a node moves only a view that has not left the queue.
Lifecycle(kind, view) ==
    IF kind # "node" THEN Outcome(kind) ELSE IF view = "queued" THEN "running" ELSE view

\* The reducer drops what it has had, but not a result.  It compares sequences, which
\* grow with the ids.
IsOld(e) == e.id # 0 /\ e.id <= client.last /\ e.kind # "result"

\* Mutant: an error on the stream is taken for the end of the run.
TrustsError(e) == IF e.kind = "error" THEN "done" ELSE "read"
\* An error ends the stream; what became of the run is asked for.
AfterBlock(e) == IF e.kind = "error" THEN "ask" ELSE "read"

\* One block of the stream: the reducer's view and the cursor of the next connection.
ReadEvent ==
    /\ client.pc = "read" /\ wire # <<>>
    /\ LET e == Head(wire)
       IN  /\ client' = [client EXCEPT
                 !.pc = AfterBlock(e),
                 !.last = IF e.id > @ THEN e.id ELSE @,
                 !.seen = IF e.id = 0 \/ IsOld(e) THEN @ ELSE Append(@, e.id),
                 !.view = IF IsOld(e) THEN @ ELSE Lifecycle(e.kind, @),
                 !.result = @ \/ e.kind = "result",
                 !.own = @ /\ (IsOld(e) \/ e.kind = "node")]
           /\ stream' = IF e.kind = "error" THEN NoStream ELSE stream
    /\ wire' = Tail(wire)
    /\ UNCHANGED <<row, log, nextId, open, cancels, strays, faults>>

\* The stream has ended: with a result the run is over, which the page shows before it
\* reads the messages; otherwise the client asks.
StreamEnds ==
    /\ client.pc = "read" /\ wire = <<>> /\ stream.pc = "ended"
    /\ client' = IF client.result
                 THEN [client EXCEPT !.pc = "done", !.view = "succeeded",
                                     !.unread = TRUE, !.own = FALSE]
                 ELSE [client EXCEPT !.pc = "ask"]
    /\ stream' = NoStream
    /\ UNCHANGED <<row, log, nextId, open, wire, cancels, strays, faults>>

\* Mutant: a cancelled run is waited for.
IsOverUnlessCancelled(status) == status \in {"succeeded", "failed"}
IsOver(status) == status \in Terminal

\* getConversationRun after a stream without a result.
AskRun ==
    /\ client.pc = "ask"
    /\ client' = IF IsOver(row.status)
                 THEN [client EXCEPT !.pc = "done", !.view = row.status, !.own = FALSE,
                                     !.unread = row.status = "succeeded"]
                 ELSE [client EXCEPT !.pc = "connect"]
    /\ UNCHANGED <<row, log, nextId, open, stream, wire, cancels, strays, faults>>

\* It fails: nobody follows the run any more, and the page says that it failed.
AskFails ==
    /\ client.pc = "ask" /\ faults < MaxFaults
    /\ client' = [client EXCEPT !.pc = "gone", !.view = "failed", !.own = TRUE]
    /\ faults' = faults + 1
    /\ UNCHANGED <<row, log, nextId, open, stream, wire, cancels, strays>>

\* The messages are read after a result.  When that fails the page says that the run
\* failed, in the same catch.
MessagesRead ==
    /\ client.unread
    /\ client' = [client EXCEPT !.unread = FALSE]
    /\ UNCHANGED <<row, log, nextId, open, stream, wire, cancels, strays, faults>>

MessagesFail ==
    /\ client.unread /\ faults < MaxFaults
    /\ client' = [client EXCEPT !.unread = FALSE, !.view = "failed", !.own = TRUE]
    /\ faults' = faults + 1
    /\ UNCHANGED <<row, log, nextId, open, stream, wire, cancels, strays>>

\* An abort ends the stream and silences the follower, but getConversationRun has no
\* signal: a follower that waits for it strays, and still shows a result it gets.
StraysAfterAbort == IF client.pc = "ask" THEN strays + 1 ELSE strays

StrayAnswers ==
    /\ strays > 0
    /\ strays' = strays - 1
    /\ \/ /\ row.status = "succeeded"
          /\ client' = [client EXCEPT !.view = "succeeded", !.own = FALSE]
       \/ UNCHANGED client
    /\ UNCHANGED <<row, log, nextId, open, stream, wire, cancels, faults>>

\* The conversation is opened anew: the view starts from the row, the stream from 0.
\* A settled run is found by its messages only, which a failed one does not have and
\* which may have been read before it was settled; or the requests fail.  Calls under
\* way outlive the change of the conversation, but not that of the document.
Reload ==
    /\ faults < MaxFaults
    /\ \/ row.status # "failed" /\ client' = Opened(row.status)
       \/ client' = [client EXCEPT !.pc = "gone", !.view = "idle",
                                   !.unread = FALSE, !.own = FALSE]
    /\ \/ strays' = StraysAfterAbort /\ UNCHANGED cancels
       \/ strays' = 0 /\ cancels' = [k \in Clicks |-> "idle"]
    /\ stream' = NoStream /\ wire' = <<>>
    /\ faults' = faults + 1
    /\ UNCHANGED <<row, log, nextId, open>>

-----------------------------------------------------------------------------
(* cancel() of the page.                                                   *)

SetCancel(k, pc) == cancels' = [cancels EXCEPT ![k] = pc]

\* The button is there as long as the page shows an active run.
Click(k) ==
    /\ client.view \in Active /\ cancels[k] = "idle"
    /\ SetCancel(k, "sent")
    /\ UNCHANGED <<row, log, nextId, open, stream, wire, client, strays, faults>>

\* The repository locks the row: a run that waits is cancelled, any other only gets the
\* request noted or is returned as it is.
CancelIsServed(k) ==
    /\ cancels[k] = "sent" /\ \A w \in Writers : open[w] = NoEvent
    /\ SetCancel(k, "served")
    /\ \/ /\ row.status \in Active /\ nextId <= MaxEvents
          /\ LET e == [id |-> nextId, kind |-> "cancelled"]
             IN  log' = log \cup {e} /\ row' = RowAfter(e)
          /\ nextId' = nextId + 1
       \/ row.status # "queued" /\ UNCHANGED <<row, log, nextId>>
    /\ UNCHANGED <<open, stream, wire, client, strays, faults>>

\* The answer comes: whatever it says and whatever the page has shown meanwhile, the
\* page stops following and shows the run as cancelled.
CancelReturns(k) ==
    /\ cancels[k] = "served"
    /\ SetCancel(k, "refresh")
    /\ client' = [client EXCEPT !.pc = IF @ = "done" THEN @ ELSE "gone",
                                !.view = "cancelled", !.unread = FALSE, !.own = TRUE]
    /\ strays' = StraysAfterAbort
    /\ stream' = NoStream /\ wire' = <<>>
    /\ UNCHANGED <<row, log, nextId, open, faults>>

\* The request fails or its answer is lost, or the messages cannot be read after it: the
\* page shows the run as failed, whether it follows it or is done.
CancelFails(k) ==
    /\ cancels[k] # "idle" /\ faults < MaxFaults
    /\ SetCancel(k, "idle")
    /\ client' = [client EXCEPT !.view = "failed", !.own = TRUE]
    /\ faults' = faults + 1
    /\ UNCHANGED <<row, log, nextId, open, stream, wire, strays>>

CancelEnds(k) ==
    /\ cancels[k] = "refresh"
    /\ SetCancel(k, "idle")
    /\ UNCHANGED <<row, log, nextId, open, stream, wire, client, strays, faults>>

Cancel(k) ==
    Click(k) \/ CancelIsServed(k) \/ CancelReturns(k) \/ CancelFails(k) \/ CancelEnds(k)

Write == \E w \in Writers : (\E kind \in Kinds : Insert(w, kind)) \/ Commit(w) \/ Rollback(w)
Serve == ListEvents \/ YieldEvent \/ CheckRun
Follow == Connect \/ ReadEvent \/ StreamEnds \/ AskRun

Next ==
    \/ Write \/ Serve \/ Follow
    \/ StreamError \/ Break \/ AskFails \/ Reload
    \/ StrayAnswers \/ MessagesRead \/ MessagesFail
    \/ \E k \in Clicks : Cancel(k)

Spec == Init /\ [][Next]_vars
\* The generator's loop and the client's go round; nothing is assumed of writers.
FairSpec == Spec /\ WF_vars(Serve) /\ WF_vars(Follow)

-----------------------------------------------------------------------------
(* Properties.                                                             *)

\* However often it reconnects, a client has received every event up to its cursor
\* once and in order; no event is committed behind a cursor.
NothingMissed ==
    /\ Range(client.seen) = {e.id : e \in log \ Newer(client.last)}
    /\ \A i, j \in DOMAIN client.seen : i < j => client.seen[i] < client.seen[j]

\* A stream that ends by itself has sent the terminal event, in this connection or
\* in the one the client continued from; a run that settles between the two reads
\* of a round is not closed too early.
ClosesWithTheOutcome ==
    stream.clean => \E e \in log : IsTerminalEvent(e) /\ e.id <= stream.cursor

\* What the run has told a page is the status of the row, although it comes from events,
\* from the row or from both, late events follow, errors of the stream look like the
\* end, and calls the page made itself speak in between: a success or a cancellation at
\* any time, and whatever it shows once it has followed its run to the end.  Its own
\* calls may have the last word (own), a cancel that comes back after the result for
\* one; but never is a success shown that is not one.
ViewTellsTheOutcome ==
    /\ client.view = "succeeded" => row.status = "succeeded"
    /\ ~client.own =>
          /\ client.view = "cancelled" => row.status = "cancelled"
          /\ client.pc = "done" => client.view = row.status

\* Once a run is settled its page stops following it.
FollowingEnds == row.status \in Terminal ~> client.pc \in {"done", "gone"}
=============================================================================
