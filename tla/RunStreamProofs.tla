---------------------------- MODULE RunStreamProofs ----------------------------
(***************************************************************************)
(* Safety of the event stream for every number of writers, events and      *)
(* faults.                                                                 *)
(*                                                                         *)
(* The row lock makes the newest event the one with the greatest id        *)
(* (TableOK), and lets only an active run be settled (OutcomeOK).  What is *)
(* on the wire continues the client's cursor without a gap (WireOK), what  *)
(* the generator holds continues the wire (StreamOK), and nothing follows  *)
(* a terminal event within one connection, so that a client with a result  *)
(* has nothing left to read (ClientOK).                                    *)
(*                                                                         *)
(* The calls of the page itself, cancel() for one, move its view at any    *)
(* time, also after the end, but touch neither cursor nor what was seen    *)
(* (SameStream, OffTheStream), and a view they leave is none of the run's  *)
(* (OwnWord).                                                              *)
(***************************************************************************)
EXTENDS RunStream, SequenceTheorems, TLAPS

EventKinds == {"node", "queued", "running", "result", "error", "cancelled"}
Event == [id : Nat, kind : EventKinds]

Client == [pc : {"connect", "read", "ask", "done", "gone"}, last : Nat, seen : Seq(Nat),
           view : Active \cup Terminal \cup {"idle"},
           result : BOOLEAN, unread : BOOLEAN, own : BOOLEAN]

CallsOK == /\ cancels \in [Clicks -> {"idle", "sent", "served", "refresh"}]
           /\ strays \in Nat

TypeOK ==
    /\ row \in [status : Active \cup Terminal, last : Nat]
    /\ log \subseteq Event
    /\ nextId \in Nat
    /\ open \in [Writers -> Event \cup {NoEvent}]
    /\ stream \in [pc : {"list", "yield", "check", "ended"}, cursor : Nat,
                   batch : SUBSET Event, clean : BOOLEAN]
    /\ wire \in Seq(Event)
    /\ client \in Client
    /\ CallsOK
    /\ faults \in Nat

\* Ids name events, and the one being inserted is newer than all committed ones.
TableOK ==
    /\ \A e \in log : 0 < e.id /\ e.id <= row.last
    /\ \A e, f \in log : e.id = f.id => e = f
    /\ row.last < nextId
    /\ \A w \in Writers : open[w] # NoEvent =>
          /\ row.last < open[w].id /\ open[w].id < nextId
          /\ open[w].kind # "node" => row.status \in Active
    /\ \A v, w \in Writers : open[v] # NoEvent /\ open[w] # NoEvent => v = w

\* The table and the row tell one outcome.
OutcomeOK ==
    /\ row.status \in Terminal => \E e \in log : IsTerminalEvent(e)
    /\ \A e \in log : IsTerminalEvent(e) => Outcome(e.kind) = row.status

\* A batch is what there is after the cursor, but for events committed since.
StreamOK ==
    /\ stream.pc # "ended" =>
          client.pc = "read" /\ ~stream.clean /\ stream.cursor <= row.last
    /\ stream.pc = "yield" =>
          /\ stream.batch # {} /\ stream.batch \subseteq log
          /\ \A b \in stream.batch : stream.cursor < b.id
          /\ \A b \in stream.batch, e \in log :
                stream.cursor < e.id /\ e.id <= b.id => e \in stream.batch

ErrorOfStream == [id |-> 0, kind |-> "error"]

\* The wire holds the events after the client's cursor, up to the generator's.
WireOK ==
    client.pc = "read" =>
        /\ \A i \in DOMAIN wire : wire[i] # ErrorOfStream =>
              wire[i] \in log /\ client.last < wire[i].id
        /\ \A i \in DOMAIN wire : IsTerminalEvent(wire[i]) =>
              i = Len(wire) /\ stream.pc = "ended"
        /\ \A i, j \in DOMAIN wire : i < j /\ wire[j] # ErrorOfStream =>
              wire[i].id < wire[j].id
        /\ \A i \in DOMAIN wire, e \in log : client.last < e.id /\ e.id <= wire[i].id =>
              \E j \in DOMAIN wire : j <= i /\ wire[j] = e
        /\ stream.pc # "ended" =>
              /\ client.last <= stream.cursor
              /\ \A i \in DOMAIN wire : wire[i].id <= stream.cursor
              /\ \A e \in log : client.last < e.id /\ e.id <= stream.cursor =>
                    \E j \in DOMAIN wire : wire[j] = e

ClientOK ==
    /\ client.last <= row.last
    /\ client.pc = "read" /\ client.result =>
          /\ wire = <<>> /\ stream.pc = "ended"
          /\ row.status = "succeeded"
    /\ client.pc = "done" => row.status \in Terminal

Inv == /\ TypeOK /\ TableOK /\ OutcomeOK /\ StreamOK /\ WireOK /\ ClientOK
       /\ NothingMissed /\ ClosesWithTheOutcome /\ ViewTellsTheOutcome

-----------------------------------------------------------------------------
(* Kinds and sequences of events.                                          *)

LEMMA OutcomeLemma ==
    ASSUME NEW e \in Event
    PROVE  /\ IsTerminalEvent(e) <=> e.kind \in {"result", "error", "cancelled"}
           /\ e.kind = "result" => Outcome(e.kind) = "succeeded"
           /\ e.kind = "error" => Outcome(e.kind) = "failed"
           /\ Outcome(e.kind) = "succeeded" => e.kind = "result"
           /\ Outcome(e.kind) = "cancelled" => e.kind = "cancelled"
           /\ e.kind # "node" => Outcome(e.kind) \in Active \cup Terminal
  BY DEF Event, EventKinds, IsTerminalEvent, Outcome, Active, Terminal

LEMMA ErrorLemma ==
    ErrorOfStream \in Event /\ ErrorOfStream.id = 0 /\ IsTerminalEvent(ErrorOfStream)
  BY DEF ErrorOfStream, Event, EventKinds, IsTerminalEvent, Outcome, Terminal

LEMMA AppendLemma ==
    ASSUME NEW S, NEW s \in Seq(S), NEW x \in S
    PROVE  /\ Append(s, x) \in Seq(S)
           /\ Len(s) \in Nat /\ Len(Append(s, x)) = Len(s) + 1
           /\ DOMAIN s = 1..Len(s) /\ DOMAIN Append(s, x) = 1..(Len(s) + 1)
           /\ \A i \in 1..Len(s) : Append(s, x)[i] = s[i]
           /\ Append(s, x)[Len(s) + 1] = x
  BY AppendProperties, LenProperties

LEMMA RangeAppendLemma ==
    ASSUME NEW S, NEW s \in Seq(S), NEW x \in S
    PROVE  Range(Append(s, x)) = Range(s) \cup {x}
<1>1. /\ Len(s) \in Nat
      /\ DOMAIN s = 1..Len(s) /\ DOMAIN Append(s, x) = 1..(Len(s) + 1)
      /\ \A i \in 1..Len(s) : Append(s, x)[i] = s[i]
      /\ Append(s, x)[Len(s) + 1] = x
  BY AppendLemma
<1>2. \A i : i \in 1..(Len(s) + 1) <=> i \in 1..Len(s) \/ i = Len(s) + 1
  BY <1>1
<1> QED BY <1>1, <1>2 DEF Range

LEMMA TailLemma ==
    ASSUME NEW S, NEW s \in Seq(S), s # <<>>
    PROVE  /\ Tail(s) \in Seq(S) /\ Head(s) = s[1] /\ 1 \in DOMAIN s /\ Head(s) \in S
           /\ Len(s) \in Nat /\ Len(s) > 0 /\ Len(Tail(s)) = Len(s) - 1
           /\ DOMAIN s = 1..Len(s) /\ DOMAIN Tail(s) = 1..(Len(s) - 1)
           /\ \A i \in 1..(Len(s) - 1) : Tail(s)[i] = s[i + 1]
<1>1. Len(s) \in Nat /\ Len(s) > 0 /\ DOMAIN s = 1..Len(s)
  BY LenProperties, EmptySeq
<1>2. Tail(s) \in Seq(S) /\ Head(s) = s[1] /\ Head(s) \in S /\ Len(Tail(s)) = Len(s) - 1
      /\ \A i \in 1..Len(Tail(s)) : Tail(s)[i] = s[i + 1]
  BY HeadTailProperties
<1>3. DOMAIN Tail(s) = 1..(Len(s) - 1)
  BY <1>2, LenProperties
<1> QED BY <1>1, <1>2, <1>3

LEMMA InitInv == Init => Inv
<1> SUFFICES ASSUME Init PROVE Inv
  OBVIOUS
<1>1. <<>> \in Seq(Event) /\ <<>> \in Seq(Nat) /\ Range(<<>>) = {} /\ DOMAIN <<>> = {}
  BY DEF Range
<1>2. TypeOK
  BY <1>1 DEF Init, TypeOK, CallsOK, Client, Opened, Event, EventKinds, Active, Terminal,
              NoEvent, NoStream
<1>3. TableOK /\ OutcomeOK /\ StreamOK /\ WireOK /\ ClientOK
  BY DEF Init, TableOK, OutcomeOK, StreamOK, WireOK, ClientOK, Opened, NoEvent, NoStream,
         Active, Terminal, IsTerminalEvent, Outcome
<1>4. NothingMissed
  BY <1>1 DEF Init, Opened, NothingMissed, Newer
<1>5. ClosesWithTheOutcome /\ ViewTellsTheOutcome
  BY DEF Init, Opened, ClosesWithTheOutcome, ViewTellsTheOutcome, NoStream
<1> QED BY <1>2, <1>3, <1>4, <1>5 DEF Inv

-----------------------------------------------------------------------------
(* The table: append_runtime_event.                                        *)

LEMMA InsertInv ==
    ASSUME Inv, NEW w \in Writers, NEW kind \in Kinds, Insert(w, kind) PROVE Inv'
<1> USE DEF Inv
<1>1. /\ nextId \in Nat /\ row.last \in Nat /\ row.last < nextId
      /\ open' = [open EXCEPT ![w] = [id |-> nextId, kind |-> kind]]
      /\ nextId' = nextId + 1 /\ \A v \in Writers : open[v] = NoEvent
      /\ UNCHANGED <<row, log, stream, wire, client, cancels, strays, faults>>
      /\ open \in [Writers -> Event \cup {NoEvent}]
  BY DEF Insert, MayLock, TypeOK, TableOK
<1>2. kind \in EventKinds /\ (kind # "node" => row.status \in Active)
  BY DEF Kinds, EventKinds
<1>3. [id |-> nextId, kind |-> kind] \in Event
  BY <1>1, <1>2 DEF Event
<1>4. TypeOK'
  BY <1>1, <1>3 DEF TypeOK, CallsOK
<1>5. \A v \in Writers : open'[v] = IF v = w THEN [id |-> nextId, kind |-> kind] ELSE NoEvent
  BY <1>1
<1>6. TableOK'
  BY <1>1, <1>2, <1>5 DEF TableOK
<1>7. OutcomeOK' /\ StreamOK' /\ WireOK' /\ ClientOK' /\ NothingMissed'
        /\ ClosesWithTheOutcome' /\ ViewTellsTheOutcome'
  BY <1>1 DEF OutcomeOK, StreamOK, WireOK, ClientOK, NothingMissed, Newer,
              ClosesWithTheOutcome, ViewTellsTheOutcome
<1> QED BY <1>4, <1>6, <1>7

\* A new row is after all that has been read, sent or fetched.
LEMMA NewRowInv ==
    ASSUME Inv, NEW e \in Event, row.last < e.id, e.kind # "node" => row.status \in Active,
           log' = log \cup {e}, row' = RowAfter(e), nextId' \in Nat, e.id < nextId',
           open' \in [Writers -> Event \cup {NoEvent}], \A v \in Writers : open'[v] = NoEvent,
           CallsOK', UNCHANGED <<stream, wire, client, faults>>
    PROVE  Inv'
<1> USE DEF Inv
<1>1. /\ e.id \in Nat /\ row.last \in Nat /\ log \subseteq Event
      /\ \A f \in log : f.id \in Nat /\ f.id <= row.last
  BY DEF TypeOK, TableOK, Event
<1>2. /\ row'.last = e.id
      /\ row'.status = IF e.kind = "node" THEN row.status ELSE Outcome(e.kind)
      /\ row' \in [status : Active \cup Terminal, last : Nat]
  BY <1>1, OutcomeLemma DEF RowAfter, TypeOK
<1>3. row.status \in Terminal => row'.status = row.status
  BY <1>1, <1>2 DEF Active, Terminal
<1>4. TypeOK'
  BY <1>2 DEF TypeOK
<1>5. TableOK'
  <2>2. \A f \in log' : 0 < f.id /\ f.id <= row'.last
    BY <1>1, <1>2 DEF TableOK
  <2>3. \A f, g \in log' : f.id = g.id => f = g
    BY <1>1 DEF TableOK
  <2> QED BY <1>1, <1>2, <2>2, <2>3 DEF TableOK
<1>6. OutcomeOK'
  <2>1. CASE e.kind = "node"
    <3>1. ~IsTerminalEvent(e) /\ row'.status = row.status
      BY <1>2, <2>1, OutcomeLemma
    <3> QED BY <3>1 DEF OutcomeOK
  <2>2. CASE e.kind # "node"
    <3>1. \A f \in log : ~IsTerminalEvent(f)
      BY <1>1, <2>2 DEF OutcomeOK, Active, Terminal, IsTerminalEvent
    <3>2. row'.status = Outcome(e.kind)
      BY <1>2, <2>2
    <3>3. IsTerminalEvent(e) <=> Outcome(e.kind) \in Terminal
      BY DEF IsTerminalEvent
    <3> QED BY <3>1, <3>2, <3>3 DEF OutcomeOK
  <2> QED BY <2>1, <2>2
<1>7. StreamOK'
  <2>1. \A b \in stream.batch : stream.pc = "yield" => b.id \in Nat /\ b.id < e.id
    BY <1>1 DEF StreamOK
  <2>2. stream.pc # "ended" => stream.cursor \in Nat /\ stream.cursor <= row'.last
    BY <1>1, <1>2 DEF StreamOK, TypeOK
  <2>3. \A b \in stream.batch : stream.pc = "yield" => ~(e.id <= b.id)
    BY <1>1, <2>1
  <2> QED BY <2>2, <2>3 DEF StreamOK
<1>8. WireOK'
  <2> SUFFICES ASSUME client.pc = "read" PROVE WireOK'
    BY DEF WireOK
  <2>1. \A i \in DOMAIN wire : ~(e.id <= wire[i].id)
    <3> TAKE i \in DOMAIN wire
    <3>1. CASE wire[i] = ErrorOfStream
      BY <1>1, <3>1, ErrorLemma
    <3>2. CASE wire[i] # ErrorOfStream
      <4>1. wire[i] \in log
        BY <3>2 DEF WireOK
      <4> QED BY <1>1, <4>1
    <3> QED BY <3>1, <3>2
  <2>2. stream.pc # "ended" => ~(e.id <= stream.cursor)
    BY <1>1 DEF StreamOK, TypeOK
  <2> QED BY <2>1, <2>2 DEF WireOK
<1>9. client.last \in Nat /\ client.last <= row.last
  BY DEF TypeOK, Client, ClientOK
<1>10. ClientOK'
  <2>1. client.last <= row'.last
    BY <1>1, <1>2, <1>9
  <2>2. row.status = "succeeded" => row'.status = "succeeded"
    BY <1>3 DEF Terminal
  <2> QED BY <1>3, <2>1, <2>2 DEF ClientOK
<1>11. NothingMissed'
  <2>1. log' \ Newer(client.last)' = log \ Newer(client.last)
    BY <1>1, <1>9 DEF Newer
  <2> QED BY <2>1 DEF NothingMissed
<1>12. ClosesWithTheOutcome'
  BY DEF ClosesWithTheOutcome
<1>13. ViewTellsTheOutcome'
  BY <1>3 DEF ViewTellsTheOutcome, ClientOK, Terminal
<1> QED BY <1>4, <1>5, <1>6, <1>7, <1>8, <1>10, <1>11, <1>12, <1>13

LEMMA CommitInv ==
    ASSUME Inv, NEW w \in Writers, Commit(w) PROVE Inv'
<1> DEFINE e == open[w]
<1>1. /\ e \in Event /\ e # NoEvent /\ log' = log \cup {e} /\ row' = RowAfter(e)
      /\ open' = [open EXCEPT ![w] = NoEvent]
      /\ UNCHANGED <<nextId, stream, wire, client, cancels, strays, faults>>
      /\ open \in [Writers -> Event \cup {NoEvent}]
  BY DEF Commit, Inv, TypeOK
<1>2. /\ nextId \in Nat /\ row.last < e.id /\ e.id < nextId
      /\ e.kind # "node" => row.status \in Active
      /\ \A v \in Writers : open'[v] = NoEvent
  BY <1>1 DEF Inv, TypeOK, TableOK
<1>3. CallsOK'
  BY <1>1 DEF Inv, TypeOK, CallsOK
<1>4. open' \in [Writers -> Event \cup {NoEvent}]
  BY <1>1
<1> QED BY <1>1, <1>2, <1>3, <1>4, NewRowInv

LEMMA RollbackInv ==
    ASSUME Inv, NEW w \in Writers, Rollback(w) PROVE Inv'
<1> USE DEF Inv
<1>1. /\ open \in [Writers -> Event \cup {NoEvent}]
      /\ open' = [open EXCEPT ![w] = NoEvent]
      /\ UNCHANGED <<row, log, nextId, stream, wire, client, cancels, strays, faults>>
  BY DEF Rollback, TypeOK
<1>2. \A v \in Writers : open'[v] # NoEvent => open'[v] = open[v]
  BY <1>1
<1>3. TypeOK' /\ TableOK'
  BY <1>1, <1>2 DEF TypeOK, CallsOK, TableOK
<1>4. OutcomeOK' /\ StreamOK' /\ WireOK' /\ ClientOK' /\ NothingMissed'
        /\ ClosesWithTheOutcome' /\ ViewTellsTheOutcome'
  BY <1>1 DEF OutcomeOK, StreamOK, WireOK, ClientOK, NothingMissed, Newer,
              ClosesWithTheOutcome, ViewTellsTheOutcome
<1> QED BY <1>3, <1>4

-----------------------------------------------------------------------------
(* The generator: iter_run_events.                                         *)

LEMMA CallsStay ==
    ASSUME Inv, UNCHANGED <<cancels, strays>> PROVE CallsOK'
  BY DEF Inv, TypeOK, CallsOK

\* What does not read the stream is preserved by steps of the generator.
LEMMA ServeFrame ==
    ASSUME Inv, UNCHANGED <<row, log, nextId, open, client, cancels, strays>>
    PROVE  /\ TableOK' /\ OutcomeOK' /\ NothingMissed' /\ ViewTellsTheOutcome'
           /\ client' \in Client /\ CallsOK'
  BY DEF CallsOK, Inv, TypeOK, TableOK, OutcomeOK, NothingMissed, ViewTellsTheOutcome, Newer

\* A generator that is not at its end serves a client without a result.
LEMMA Serving ==
    ASSUME Inv, stream.pc # "ended"
    PROVE  /\ client.pc = "read" /\ ~client.result /\ ~stream.clean
           /\ stream.cursor \in Nat /\ client.last \in Nat /\ client.last <= stream.cursor
           /\ stream.cursor <= row.last /\ log \subseteq Event
  BY DEF Inv, TypeOK, Client, StreamOK, WireOK, ClientOK

LEMMA ListEventsInv ==
    ASSUME Inv, ListEvents PROVE Inv'
<1>1. /\ stream.pc = "list"
      /\ UNCHANGED <<row, log, nextId, open, wire, client, cancels, strays, faults>>
      /\ stream' = [stream EXCEPT !.batch = Newer(stream.cursor),
                          !.pc = IF Newer(stream.cursor) = {} THEN "check" ELSE "yield"]
  BY DEF ListEvents
<1>2. stream \in [pc : {"list", "yield", "check", "ended"}, cursor : Nat,
                  batch : SUBSET Event, clean : BOOLEAN]
  BY DEF Inv, TypeOK
<1>3. /\ stream'.pc = IF Newer(stream.cursor) = {} THEN "check" ELSE "yield"
      /\ stream'.cursor = stream.cursor /\ stream'.clean = stream.clean
      /\ stream'.batch = Newer(stream.cursor)
  BY <1>1, <1>2
<1>4. Newer(stream.cursor) \subseteq log /\ log \subseteq Event
  BY DEF Inv, TypeOK, Newer
<1>5. TypeOK'
  BY <1>1, <1>2, <1>4, CallsStay DEF Inv, TypeOK
<1>6. StreamOK'
  BY <1>1, <1>3, <1>4, Serving DEF Newer, StreamOK
<1>7. WireOK' /\ ClientOK'
  BY <1>1, <1>3, Serving DEF Inv, WireOK, ClientOK
<1>8. ClosesWithTheOutcome'
  BY <1>1, <1>3, Serving DEF ClosesWithTheOutcome
<1> QED BY <1>1, <1>5, <1>6, <1>7, <1>8, ServeFrame DEF Inv

LEMMA CheckRunInv ==
    ASSUME Inv, CheckRun PROVE Inv'
<1>1. /\ stream.pc = "check"
      /\ UNCHANGED <<row, log, nextId, open, wire, client, cancels, strays, faults>>
      /\ stream' = IF NothingLeft(stream.cursor)
                   THEN [stream EXCEPT !.pc = "ended", !.clean = TRUE]
                   ELSE [stream EXCEPT !.pc = "list"]
  BY DEF CheckRun
<1>2. stream \in [pc : {"list", "yield", "check", "ended"}, cursor : Nat,
                  batch : SUBSET Event, clean : BOOLEAN]
  BY DEF Inv, TypeOK
<1>3. /\ stream'.pc = IF NothingLeft(stream.cursor) THEN "ended" ELSE "list"
      /\ stream'.cursor = stream.cursor
      /\ stream'.clean = (NothingLeft(stream.cursor) \/ stream.clean)
  BY <1>1, <1>2
<1>4. TypeOK'
  BY <1>1, <1>2, CallsStay DEF Inv, TypeOK
<1>5. StreamOK'
  BY <1>1, <1>3, Serving DEF StreamOK
<1>6. WireOK' /\ ClientOK'
  BY <1>1, <1>3, Serving DEF Inv, WireOK, ClientOK
<1>7. ClosesWithTheOutcome'
  <2> SUFFICES ASSUME NothingLeft(stream.cursor)
               PROVE  \E e \in log : IsTerminalEvent(e) /\ e.id <= stream.cursor
    BY <1>1, <1>3, Serving DEF ClosesWithTheOutcome
  <2>1. row.status \in Terminal /\ stream.cursor >= row.last
    BY DEF NothingLeft
  <2>2. PICK e \in log : IsTerminalEvent(e)
    BY <2>1 DEF Inv, OutcomeOK
  <2>3. e.id \in Nat /\ e.id <= row.last /\ row.last \in Nat
    BY DEF Inv, TypeOK, TableOK, Event
  <2> QED BY <1>1, <2>1, <2>2, <2>3, Serving
<1> QED BY <1>1, <1>4, <1>5, <1>6, <1>7, ServeFrame DEF Inv

\* The event sent is the next one after the cursor.
LEMMA YieldEventInv ==
    ASSUME Inv, YieldEvent PROVE Inv'
<1>1. PICK e \in stream.batch :
          /\ \A x \in stream.batch : e.id <= x.id
          /\ wire' = Append(wire, e)
          /\ stream' = [cursor |-> e.id, batch |-> stream.batch \ {e},
                        pc |-> IF IsTerminalEvent(e) THEN "ended"
                               ELSE IF stream.batch = {e} THEN "check" ELSE "yield",
                        clean |-> IsTerminalEvent(e)]
  BY DEF YieldEvent
<1>2. stream.pc = "yield" /\ UNCHANGED <<row, log, nextId, open, client, cancels, strays, faults>>
  BY DEF YieldEvent
<1>3. /\ client.pc = "read" /\ ~client.result /\ stream.cursor \in Nat
      /\ client.last \in Nat /\ client.last <= stream.cursor
      /\ stream.cursor <= row.last /\ log \subseteq Event /\ row.last \in Nat
      /\ \A f \in log : f.id \in Nat /\ f.id <= row.last
      /\ wire \in Seq(Event) /\ stream.batch \subseteq log
      /\ \A f, g \in log : f.id = g.id => f = g
  BY <1>2, Serving DEF Inv, TypeOK, TableOK, StreamOK, Event
<1>4. e \in log /\ e \in Event /\ e.id \in Nat /\ stream.cursor < e.id
  BY <1>1, <1>2, <1>3 DEF Inv, StreamOK
<1>5. /\ stream'.cursor = e.id /\ stream'.batch = stream.batch \ {e}
      /\ stream'.clean = IsTerminalEvent(e)
      /\ stream'.pc = "ended" <=> IsTerminalEvent(e)
      /\ stream'.pc = "yield" => stream'.batch # {}
      /\ stream'.pc \in {"list", "yield", "check", "ended"}
  BY <1>1
<1>6. /\ Append(wire, e) \in Seq(Event) /\ Len(wire) \in Nat
      /\ Len(wire') = Len(wire) + 1 /\ DOMAIN wire = 1..Len(wire)
      /\ DOMAIN wire' = 1..(Len(wire) + 1)
      /\ \A i \in 1..Len(wire) : wire'[i] = wire[i]
      /\ wire'[Len(wire) + 1] = e
  BY <1>1, <1>3, <1>4, AppendLemma
<1>7. TypeOK'
  <2>1. stream' \in [pc : {"list", "yield", "check", "ended"}, cursor : Nat,
                     batch : SUBSET Event, clean : BOOLEAN]
    BY <1>1, <1>3, <1>4, <1>5 DEF IsTerminalEvent
  <2> QED BY <1>1, <1>2, <1>6, <2>1, CallsStay DEF Inv, TypeOK
\* What is in the log behind e and after the cursor is e.
<1>8. \A f \in log : stream.cursor < f.id /\ f.id <= e.id => f = e
  <2> SUFFICES ASSUME NEW f \in log, stream.cursor < f.id, f.id <= e.id PROVE f = e
    OBVIOUS
  <2>1. f \in stream.batch
    BY <1>1, <1>2, <1>4 DEF Inv, StreamOK
  <2>2. f.id = e.id
    BY <1>1, <1>3, <1>4, <2>1
  <2> QED BY <1>3, <1>4, <2>2
<1>9. StreamOK'
  <2>1. stream'.pc # "ended" => client'.pc = "read" /\ ~stream'.clean
                                  /\ stream'.cursor <= row'.last
    BY <1>2, <1>3, <1>4, <1>5
  <2>2. ASSUME stream'.pc = "yield"
        PROVE  /\ \A b \in stream'.batch : stream'.cursor < b.id
               /\ \A b \in stream'.batch, f \in log :
                     stream'.cursor < f.id /\ f.id <= b.id => f \in stream'.batch
    <3>1. \A b \in stream'.batch : b \in stream.batch /\ b # e /\ b.id \in Nat /\ e.id < b.id
      BY <1>1, <1>3, <1>4, <1>5
    <3>2. ASSUME NEW b \in stream'.batch, NEW f \in log, e.id < f.id, f.id <= b.id
          PROVE  f \in stream'.batch
      <4>1. stream.cursor < f.id /\ f # e
        BY <1>3, <1>4, <3>2
      <4>2. f \in stream.batch
        BY <1>2, <3>1, <3>2, <4>1 DEF Inv, StreamOK
      <4> QED BY <1>5, <4>1, <4>2
    <3> QED BY <1>5, <3>1, <3>2
  <2> QED BY <1>2, <1>3, <1>5, <2>1, <2>2 DEF StreamOK
<1>10. /\ \A i \in 1..Len(wire) : wire[i] # ErrorOfStream => wire[i] \in log /\ client.last < wire[i].id
       /\ \A i \in 1..Len(wire) : ~IsTerminalEvent(wire[i])
       /\ \A i, j \in 1..Len(wire) : i < j /\ wire[j] # ErrorOfStream => wire[i].id < wire[j].id
       /\ \A i \in 1..Len(wire), f \in log : client.last < f.id /\ f.id <= wire[i].id =>
              \E j \in 1..Len(wire) : j <= i /\ wire[j] = f
       /\ \A i \in 1..Len(wire) : wire[i].id <= stream.cursor
       /\ \A f \in log : client.last < f.id /\ f.id <= stream.cursor =>
              \E j \in 1..Len(wire) : wire[j] = f
  <2>1. WireOK /\ client.pc = "read" /\ stream.pc = "yield"
    BY <1>2, <1>3 DEF Inv
  <2>2. stream.pc # "ended"
    BY <2>1
  <2>3. /\ \A i \in DOMAIN wire : wire[i] # ErrorOfStream =>
              wire[i] \in log /\ client.last < wire[i].id
        /\ \A i \in DOMAIN wire : ~IsTerminalEvent(wire[i])
    BY <2>1, <2>2 DEF WireOK
  <2>4. \A i, j \in DOMAIN wire : i < j /\ wire[j] # ErrorOfStream =>
              wire[i].id < wire[j].id
    BY <2>1 DEF WireOK
  <2>5. \A i \in DOMAIN wire, f \in log : client.last < f.id /\ f.id <= wire[i].id =>
              \E j \in DOMAIN wire : j <= i /\ wire[j] = f
    BY <2>1 DEF WireOK
  <2>6. /\ \A i \in DOMAIN wire : wire[i].id <= stream.cursor
        /\ \A f \in log : client.last < f.id /\ f.id <= stream.cursor =>
              \E j \in DOMAIN wire : wire[j] = f
    BY <2>1, <2>2 DEF WireOK
  <2> QED BY <1>6, <2>3, <2>4, <2>5, <2>6
<1>11. \A i \in 1..Len(wire) : wire[i].id \in Nat /\ wire[i].id < e.id
  <2>1. \A i \in 1..Len(wire) : wire[i] \in Event
    BY <1>3, <1>6
  <2> QED BY <1>3, <1>4, <1>10, <2>1 DEF Event
<1>12. \A i \in 1..(Len(wire) + 1) : i \in 1..Len(wire) \/ i = Len(wire) + 1
  BY <1>6
<1>13. \A f \in log : client.last < f.id /\ f.id <= e.id =>
          \E j \in 1..(Len(wire) + 1) : wire'[j] = f
  <2> SUFFICES ASSUME NEW f \in log, client.last < f.id, f.id <= e.id
               PROVE  \E j \in 1..(Len(wire) + 1) : wire'[j] = f
    OBVIOUS
  <2>1. CASE f.id <= stream.cursor
    <3>1. PICK j \in 1..Len(wire) : wire[j] = f
      BY <1>10, <2>1
    <3> QED BY <1>6, <3>1
  <2>2. CASE ~(f.id <= stream.cursor)
    <3>1. f = e
      BY <1>3, <1>8, <2>2
    <3> QED BY <1>6, <3>1
  <2> QED BY <2>1, <2>2
<1>14. WireOK'
  <2>1. \A i \in 1..(Len(wire) + 1) : wire'[i] # ErrorOfStream =>
            wire'[i] \in log /\ client.last < wire'[i].id
    BY <1>3, <1>4, <1>6, <1>10, <1>12
  <2>2. \A i \in 1..(Len(wire) + 1) : IsTerminalEvent(wire'[i]) =>
            i = Len(wire) + 1 /\ stream'.pc = "ended"
    BY <1>5, <1>6, <1>10, <1>12
  <2>3. \A i, j \in 1..(Len(wire) + 1) : i < j /\ wire'[j] # ErrorOfStream =>
            wire'[i].id < wire'[j].id
    <3> SUFFICES ASSUME NEW i \in 1..(Len(wire) + 1), NEW j \in 1..(Len(wire) + 1),
                        i < j, wire'[j] # ErrorOfStream
                 PROVE  wire'[i].id < wire'[j].id
      OBVIOUS
    <3>1. i \in 1..Len(wire)
      BY <1>6
    <3> QED BY <1>6, <1>10, <1>11, <1>12, <3>1
  <2>4. ASSUME NEW i \in 1..(Len(wire) + 1), NEW f \in log,
               client.last < f.id, f.id <= wire'[i].id
        PROVE  \E j \in 1..(Len(wire) + 1) : j <= i /\ wire'[j] = f
    <3>1. CASE i \in 1..Len(wire)
      <4>1. PICK j \in 1..Len(wire) : j <= i /\ wire[j] = f
        BY <1>6, <1>10, <2>4, <3>1
      <4> QED BY <1>6, <4>1
    <3>2. CASE i = Len(wire) + 1
      <4>1. PICK j \in 1..(Len(wire) + 1) : wire'[j] = f
        BY <1>6, <1>13, <2>4, <3>2
      <4> QED BY <1>6, <3>2, <4>1
    <3> QED BY <1>12, <3>1, <3>2
  <2>5. stream'.pc # "ended" =>
            /\ client.last <= stream'.cursor
            /\ \A i \in 1..(Len(wire) + 1) : wire'[i].id <= stream'.cursor
    BY <1>3, <1>4, <1>5, <1>6, <1>11, <1>12
  <2>6. /\ DOMAIN wire' = 1..(Len(wire) + 1) /\ Len(wire') = Len(wire) + 1
        /\ log' = log /\ client' = client /\ stream'.cursor = e.id
    BY <1>2, <1>5, <1>6
  <2>7. \A i \in DOMAIN wire' : wire'[i] # ErrorOfStream =>
              wire'[i] \in log' /\ client'.last < wire'[i].id
    BY <2>1, <2>6
  <2>8. /\ \A i \in DOMAIN wire' : IsTerminalEvent(wire'[i]) =>
              i = Len(wire') /\ stream'.pc = "ended"
        /\ \A i, j \in DOMAIN wire' : i < j /\ wire'[j] # ErrorOfStream =>
              wire'[i].id < wire'[j].id
    BY <2>2, <2>3, <2>6
  <2>9. \A i \in DOMAIN wire', f \in log' : client'.last < f.id /\ f.id <= wire'[i].id =>
              \E j \in DOMAIN wire' : j <= i /\ wire'[j] = f
    BY <2>4, <2>6
  <2>10. \A f \in log' : client'.last < f.id /\ f.id <= stream'.cursor =>
              \E j \in DOMAIN wire' : wire'[j] = f
    BY <1>13, <2>6
  <2> QED BY <2>5, <2>6, <2>7, <2>8, <2>9, <2>10 DEF WireOK
<1>15. ClientOK'
  BY <1>2, <1>3 DEF Inv, ClientOK
<1>16. ClosesWithTheOutcome'
  <2>1. stream'.clean => IsTerminalEvent(e) /\ e \in log' /\ e.id <= stream'.cursor
    BY <1>2, <1>4, <1>5
  <2> QED BY <2>1 DEF ClosesWithTheOutcome
<1> QED BY <1>2, <1>7, <1>9, <1>14, <1>15, <1>16, ServeFrame DEF Inv

\* The error goes behind all events that have been sent.
LEMMA StreamErrorInv ==
    ASSUME Inv, StreamError PROVE Inv'
<1> DEFINE e == ErrorOfStream
<1>1. /\ stream.pc # "ended" /\ stream' = NoStream /\ wire' = Append(wire, e)
      /\ faults' = faults + 1 /\ UNCHANGED <<row, log, nextId, open, client, cancels, strays>>
  BY DEF StreamError, ErrorOfStream
<1>2. /\ wire \in Seq(Event) /\ e \in Event /\ e.id = 0 /\ client.last \in Nat
      /\ client.pc = "read" /\ ~client.result /\ log \subseteq Event
  BY <1>1, Serving, ErrorLemma DEF Inv, TypeOK
<1>3. /\ wire' \in Seq(Event) /\ Len(wire) \in Nat
      /\ Len(wire') = Len(wire) + 1 /\ DOMAIN wire = 1..Len(wire)
      /\ DOMAIN wire' = 1..(Len(wire) + 1)
      /\ \A i \in 1..Len(wire) : wire'[i] = wire[i]
      /\ wire'[Len(wire) + 1] = e
      /\ \A i \in DOMAIN wire' : i \in 1..Len(wire) \/ i = Len(wire) + 1
  BY <1>1, <1>2, AppendLemma
<1>4. /\ stream'.pc = "ended" /\ ~stream'.clean
      /\ stream' \in [pc : {"list", "yield", "check", "ended"}, cursor : Nat,
                      batch : SUBSET Event, clean : BOOLEAN]
  BY <1>1 DEF NoStream
<1>5. TypeOK'
  BY <1>1, <1>3, <1>4, CallsStay DEF Inv, TypeOK
<1>6. WireOK /\ client' = client /\ log' = log
  BY <1>1 DEF Inv
<1>7. \A i \in DOMAIN wire' : wire'[i] # e => wire'[i] \in log' /\ client'.last < wire'[i].id
  BY <1>2, <1>3, <1>6 DEF WireOK
<1>8. \A i \in DOMAIN wire' : IsTerminalEvent(wire'[i]) => i = Len(wire') /\ stream'.pc = "ended"
  <2>1. \A i \in DOMAIN wire : ~IsTerminalEvent(wire[i])
    BY <1>1, <1>2, <1>6 DEF WireOK
  <2> QED BY <1>3, <1>4, <2>1
<1>9. \A i, j \in DOMAIN wire' : i < j /\ wire'[j] # e => wire'[i].id < wire'[j].id
  <2> SUFFICES ASSUME NEW i \in DOMAIN wire', NEW j \in DOMAIN wire', i < j, wire'[j] # e
               PROVE  wire'[i].id < wire'[j].id
    OBVIOUS
  <2>1. i \in 1..Len(wire) /\ j \in 1..Len(wire)
    BY <1>3
  <2> QED BY <1>2, <1>3, <1>6, <2>1 DEF WireOK
<1>10. ASSUME NEW i \in DOMAIN wire', NEW f \in log', client'.last < f.id, f.id <= wire'[i].id
       PROVE  \E j \in DOMAIN wire' : j <= i /\ wire'[j] = f
  <2>1. f.id \in Nat /\ ~(f.id <= 0)
    BY <1>2, <1>6, <1>10 DEF Event
  <2>2. i \in 1..Len(wire)
    BY <1>2, <1>3, <1>10, <2>1
  <2>3. PICK j \in 1..Len(wire) : j <= i /\ wire[j] = f
    BY <1>2, <1>3, <1>6, <1>10, <2>2 DEF WireOK
  <2> QED BY <1>3, <2>3
<1>11. WireOK'
  BY <1>4, <1>7, <1>8, <1>9, <1>10 DEF WireOK
<1>12. StreamOK' /\ ClientOK' /\ ClosesWithTheOutcome'
  BY <1>1, <1>2, <1>4 DEF Inv, StreamOK, ClientOK, ClosesWithTheOutcome
<1> QED BY <1>1, <1>5, <1>11, <1>12, ServeFrame DEF Inv

-----------------------------------------------------------------------------
(* The client: streamConversationRun and the page.                         *)

\* The client leaves its connection, or is not in one.
LEMMA OffTheStream ==
    ASSUME Inv, UNCHANGED <<row, log, nextId, open>>,
           wire' \in Seq(Event), faults' \in Nat, CallsOK',
           stream' = NoStream \/ (stream.pc = "ended" /\ stream' = stream),
           client' \in Client, client'.pc # "read", client'.last <= row.last,
           NothingMissed', ViewTellsTheOutcome',
           client'.pc = "done" => row.status \in Terminal
    PROVE  Inv'
<1>1. /\ stream'.pc = "ended"
      /\ stream' \in [pc : {"list", "yield", "check", "ended"}, cursor : Nat,
                      batch : SUBSET Event, clean : BOOLEAN]
  <2>1. CASE stream' = NoStream
    BY <2>1 DEF NoStream
  <2>2. CASE stream.pc = "ended" /\ stream' = stream
    BY <2>2 DEF Inv, TypeOK
  <2> QED BY <2>1, <2>2
<1>2. TypeOK'
  BY <1>1 DEF Inv, TypeOK, Client
<1>3. TableOK' /\ OutcomeOK'
  BY DEF Inv, TableOK, OutcomeOK
<1>4. StreamOK' /\ WireOK' /\ ClientOK'
  BY <1>1 DEF StreamOK, WireOK, ClientOK
<1>5. ClosesWithTheOutcome'
  BY DEF Inv, ClosesWithTheOutcome, NoStream
<1> QED BY <1>2, <1>3, <1>4, <1>5 DEF Inv

LEMMA ClientFacts ==
    ASSUME Inv
    PROVE  /\ client \in Client /\ client.last <= row.last /\ row.last \in Nat
           /\ wire \in Seq(Event) /\ faults \in Nat /\ <<>> \in Seq(Event)
           /\ row.status \in Active \cup Terminal /\ log \subseteq Event
           /\ client.pc # "read" => stream.pc = "ended"
  BY DEF Inv, TypeOK, Client, ClientOK, StreamOK

\* A word of a call that the page made itself is no success.
LEMMA OwnWord ==
    ASSUME client'.own, client'.view # "succeeded" PROVE ViewTellsTheOutcome'
  BY DEF ViewTellsTheOutcome

\* Whoever shows the row shows what it tells.
LEMMA RowShown ==
    ASSUME row' = row, client'.view = row.status PROVE ViewTellsTheOutcome'
  BY DEF ViewTellsTheOutcome

\* A view that stays where it is, and is not the end of following.
LEMMA ViewStays ==
    ASSUME Inv, row' = row, client'.view = client.view, client'.own = client.own,
           client'.pc = "done" => client.pc = "done"
    PROVE  ViewTellsTheOutcome'
  BY DEF Inv, ViewTellsTheOutcome

\* Calls under way, and the view they move, do not touch the stream.
LEMMA SameStream ==
    ASSUME Inv, UNCHANGED <<row, log, nextId, open, stream, wire>>,
           faults' \in Nat, CallsOK', client' \in Client, client'.pc = client.pc,
           client'.last = client.last, client'.seen = client.seen,
           client'.result = client.result, ViewTellsTheOutcome'
    PROVE  Inv'
<1>1. TypeOK' /\ TableOK' /\ OutcomeOK'
  BY DEF Inv, TypeOK, TableOK, OutcomeOK
<1>2. StreamOK' /\ WireOK' /\ ClientOK' /\ ClosesWithTheOutcome'
  BY DEF Inv, StreamOK, WireOK, ClientOK, ClosesWithTheOutcome
<1>3. NothingMissed'
  BY DEF Inv, NothingMissed, Newer
<1> QED BY <1>1, <1>2, <1>3 DEF Inv

LEMMA SetCancelLemma ==
    ASSUME Inv, NEW k \in Clicks, NEW pc \in {"idle", "sent", "served", "refresh"},
           SetCancel(k, pc), strays' \in Nat
    PROVE  CallsOK'
  BY DEF Inv, TypeOK, CallsOK, SetCancel

LEMMA StraysLemma ==
    ASSUME Inv PROVE strays \in Nat /\ StraysAfterAbort \in Nat
  BY DEF Inv, TypeOK, CallsOK, StraysAfterAbort

LEMMA SeenStays ==
    ASSUME Inv, log' = log, client'.seen = client.seen, client'.last = client.last
    PROVE  NothingMissed'
  BY DEF Inv, NothingMissed, Newer

LEMMA BreakInv ==
    ASSUME Inv, Break PROVE Inv'
<1>1. /\ stream' = NoStream /\ wire' = <<>> /\ faults' = faults + 1
      /\ client' = [client EXCEPT !.pc = "ask", !.result = FALSE]
      /\ UNCHANGED <<row, log, nextId, open, cancels, strays>>
  BY DEF Break
<1>2. /\ client' \in Client /\ client'.pc = "ask" /\ client'.last = client.last
      /\ client'.seen = client.seen /\ client'.view = client.view /\ client'.own = client.own
  BY <1>1, ClientFacts DEF Client
<1> QED BY <1>1, <1>2, ClientFacts, SeenStays, ViewStays, CallsStay, OffTheStream

LEMMA StreamEndsInv ==
    ASSUME Inv, StreamEnds PROVE Inv'
<1>1. /\ client.pc = "read" /\ stream' = NoStream
      /\ client' = IF client.result
                   THEN [client EXCEPT !.pc = "done", !.view = "succeeded",
                                       !.unread = TRUE, !.own = FALSE]
                   ELSE [client EXCEPT !.pc = "ask"]
      /\ UNCHANGED <<row, log, nextId, open, wire, cancels, strays, faults>>
  BY DEF StreamEnds
<1>2. /\ client' \in Client /\ client'.pc = (IF client.result THEN "done" ELSE "ask")
      /\ client'.last = client.last /\ client'.seen = client.seen
      /\ client'.view = IF client.result THEN "succeeded" ELSE client.view
      /\ client'.own = (~client.result /\ client.own)
  BY <1>1, ClientFacts DEF Client, Terminal
<1>3. client.result => row.status = "succeeded"
  BY <1>1 DEF Inv, ClientOK
<1>4. ViewTellsTheOutcome'
  BY <1>1, <1>2, <1>3 DEF Inv, ViewTellsTheOutcome
<1>5. client'.pc = "done" => row.status \in Terminal
  BY <1>2, <1>3 DEF Terminal
<1> QED BY <1>1, <1>2, <1>4, <1>5, ClientFacts, SeenStays, CallsStay, OffTheStream

LEMMA AskRunInv ==
    ASSUME Inv, AskRun PROVE Inv'
<1>1. /\ client.pc = "ask"
      /\ UNCHANGED <<row, log, nextId, open, stream, wire, cancels, strays, faults>>
      /\ client' = IF IsOver(row.status)
                   THEN [client EXCEPT !.pc = "done", !.view = row.status, !.own = FALSE,
                                       !.unread = row.status = "succeeded"]
                   ELSE [client EXCEPT !.pc = "connect"]
  BY DEF AskRun
<1>2. /\ client' \in Client /\ client'.last = client.last /\ client'.seen = client.seen
      /\ client'.pc = (IF IsOver(row.status) THEN "done" ELSE "connect")
      /\ IsOver(row.status) => client'.view = row.status
      /\ ~IsOver(row.status) => client'.view = client.view /\ client'.own = client.own
  BY <1>1, ClientFacts DEF Client
<1>3. ViewTellsTheOutcome'
  BY <1>1, <1>2, RowShown, ViewStays
<1>4. client'.pc # "read" /\ (client'.pc = "done" => row.status \in Terminal)
  BY <1>2 DEF IsOver
<1> QED BY <1>1, <1>2, <1>3, <1>4, ClientFacts, SeenStays, CallsStay, OffTheStream

LEMMA AskFailsInv ==
    ASSUME Inv, AskFails PROVE Inv'
<1>1. /\ client.pc = "ask"
      /\ client' = [client EXCEPT !.pc = "gone", !.view = "failed", !.own = TRUE]
      /\ faults' = faults + 1
      /\ UNCHANGED <<row, log, nextId, open, stream, wire, cancels, strays>>
  BY DEF AskFails
<1>2. /\ client' \in Client /\ client'.pc = "gone" /\ client'.last = client.last
      /\ client'.seen = client.seen /\ client'.view = "failed" /\ client'.own
  BY <1>1, ClientFacts DEF Client, Terminal
<1> QED BY <1>1, <1>2, ClientFacts, SeenStays, CallsStay, OwnWord, OffTheStream

LEMMA MessagesReadInv ==
    ASSUME Inv, MessagesRead PROVE Inv'
<1>1. /\ client' = [client EXCEPT !.unread = FALSE]
      /\ UNCHANGED <<row, log, nextId, open, stream, wire, cancels, strays, faults>>
  BY DEF MessagesRead
<1>2. /\ client' \in Client /\ client'.pc = client.pc /\ client'.last = client.last
      /\ client'.seen = client.seen /\ client'.result = client.result
      /\ client'.view = client.view /\ client'.own = client.own
  BY <1>1, ClientFacts DEF Client
<1> QED BY <1>1, <1>2, ClientFacts, CallsStay, ViewStays, SameStream

LEMMA MessagesFailInv ==
    ASSUME Inv, MessagesFail PROVE Inv'
<1>1. /\ client' = [client EXCEPT !.unread = FALSE, !.view = "failed", !.own = TRUE]
      /\ faults' = faults + 1
      /\ UNCHANGED <<row, log, nextId, open, stream, wire, cancels, strays>>
  BY DEF MessagesFail
<1>2. /\ client' \in Client /\ client'.pc = client.pc /\ client'.last = client.last
      /\ client'.seen = client.seen /\ client'.result = client.result
      /\ client'.view = "failed" /\ client'.own
  BY <1>1, ClientFacts DEF Client, Terminal
<1> QED BY <1>1, <1>2, ClientFacts, CallsStay, OwnWord, SameStream

\* A stray shows a result only when the row has it.
LEMMA StrayAnswersInv ==
    ASSUME Inv, StrayAnswers PROVE Inv'
<1>1. /\ strays > 0 /\ strays' = strays - 1
      /\ \/ /\ row.status = "succeeded"
            /\ client' = [client EXCEPT !.view = "succeeded", !.own = FALSE]
         \/ client' = client
      /\ UNCHANGED <<row, log, nextId, open, stream, wire, cancels, faults>>
  BY DEF StrayAnswers
<1>2. CallsOK'
  BY <1>1 DEF Inv, TypeOK, CallsOK
<1>3. CASE client' = client
  BY <1>1, <1>2, <1>3, ClientFacts, ViewStays, SameStream
<1>4. CASE /\ row.status = "succeeded"
           /\ client' = [client EXCEPT !.view = "succeeded", !.own = FALSE]
  <2>1. /\ client' \in Client /\ client'.pc = client.pc /\ client'.last = client.last
        /\ client'.seen = client.seen /\ client'.result = client.result
        /\ client'.view = row.status
    BY <1>4, ClientFacts DEF Client, Terminal
  <2> QED BY <1>1, <1>2, <2>1, ClientFacts, RowShown, SameStream
<1> QED BY <1>1, <1>3, <1>4

LEMMA ClickInv ==
    ASSUME Inv, NEW k \in Clicks, Click(k) PROVE Inv'
<1>1. /\ SetCancel(k, "sent")
      /\ UNCHANGED <<row, log, nextId, open, stream, wire, client, strays, faults>>
  BY DEF Click
<1>2. CallsOK'
  BY <1>1, StraysLemma, SetCancelLemma
<1> QED BY <1>1, <1>2, ClientFacts, ViewStays, SameStream

LEMMA CancelEndsInv ==
    ASSUME Inv, NEW k \in Clicks, CancelEnds(k) PROVE Inv'
<1>1. /\ SetCancel(k, "idle")
      /\ UNCHANGED <<row, log, nextId, open, stream, wire, client, strays, faults>>
  BY DEF CancelEnds
<1>2. CallsOK'
  BY <1>1, StraysLemma, SetCancelLemma
<1> QED BY <1>1, <1>2, ClientFacts, ViewStays, SameStream

\* The event of a cancelled run is the newest, as any other.
LEMMA CancelIsServedInv ==
    ASSUME Inv, NEW k \in Clicks, CancelIsServed(k) PROVE Inv'
<1> DEFINE e == [id |-> nextId, kind |-> "cancelled"]
<1>1. /\ \A w \in Writers : open[w] = NoEvent
      /\ SetCancel(k, "served")
      /\ UNCHANGED <<open, stream, wire, client, strays, faults>>
      /\ \/ row.status \in Active /\ log' = log \cup {e} /\ row' = RowAfter(e)
            /\ nextId' = nextId + 1
         \/ UNCHANGED <<row, log, nextId>>
  BY DEF CancelIsServed
<1>2. CallsOK'
  BY <1>1, StraysLemma, SetCancelLemma
<1>3. CASE UNCHANGED <<row, log, nextId>>
  BY <1>1, <1>2, <1>3, ClientFacts, ViewStays, SameStream
<1>4. CASE row.status \in Active /\ log' = log \cup {e} /\ row' = RowAfter(e)
           /\ nextId' = nextId + 1
  <2>1. /\ nextId \in Nat /\ row.last < nextId /\ open' = open
        /\ open \in [Writers -> Event \cup {NoEvent}]
    BY <1>1 DEF Inv, TypeOK, TableOK
  <2>2. e \in Event /\ e.id = nextId
    BY <2>1 DEF Event, EventKinds
  <2>3. nextId' \in Nat /\ e.id < nextId'
    BY <1>4, <2>1
  <2> HIDE DEF e
  <2> QED BY <1>1, <1>2, <1>4, <2>1, <2>2, <2>3, NewRowInv
<1> QED BY <1>1, <1>3, <1>4

LEMMA CancelReturnsInv ==
    ASSUME Inv, NEW k \in Clicks, CancelReturns(k) PROVE Inv'
<1>1. /\ SetCancel(k, "refresh") /\ strays' = StraysAfterAbort
      /\ client' = [client EXCEPT !.pc = IF client.pc = "done" THEN client.pc ELSE "gone",
                                  !.view = "cancelled", !.unread = FALSE, !.own = TRUE]
      /\ stream' = NoStream /\ wire' = <<>>
      /\ UNCHANGED <<row, log, nextId, open, faults>>
  BY DEF CancelReturns
<1>2. /\ client' \in Client /\ client'.pc = (IF client.pc = "done" THEN "done" ELSE "gone")
      /\ client'.last = client.last /\ client'.seen = client.seen
      /\ client'.view = "cancelled" /\ client'.own
  BY <1>1, ClientFacts DEF Client, Terminal
<1>3. CallsOK'
  BY <1>1, StraysLemma, SetCancelLemma
<1>4. client'.pc # "read" /\ (client'.pc = "done" => row.status \in Terminal)
  BY <1>2 DEF Inv, ClientOK
<1> QED BY <1>1, <1>2, <1>3, <1>4, ClientFacts, SeenStays, OwnWord, OffTheStream

LEMMA CancelFailsInv ==
    ASSUME Inv, NEW k \in Clicks, CancelFails(k) PROVE Inv'
<1>1. /\ SetCancel(k, "idle") /\ faults' = faults + 1
      /\ client' = [client EXCEPT !.view = "failed", !.own = TRUE]
      /\ UNCHANGED <<row, log, nextId, open, stream, wire, strays>>
  BY DEF CancelFails
<1>2. /\ client' \in Client /\ client'.pc = client.pc /\ client'.last = client.last
      /\ client'.seen = client.seen /\ client'.result = client.result
      /\ client'.view = "failed" /\ client'.own
  BY <1>1, ClientFacts DEF Client, Terminal
<1>3. CallsOK'
  BY <1>1, StraysLemma, SetCancelLemma
<1> QED BY <1>1, <1>2, <1>3, ClientFacts, OwnWord, SameStream

\* A view that starts anew has seen nothing, and its cursor is before all events.
LEMMA ReloadInv ==
    ASSUME Inv, Reload PROVE Inv'
<1>1. /\ stream' = NoStream /\ wire' = <<>> /\ faults' = faults + 1
      /\ UNCHANGED <<row, log, nextId, open>>
      /\ \/ strays' = StraysAfterAbort /\ cancels' = cancels
         \/ strays' = 0 /\ cancels' = [k \in Clicks |-> "idle"]
  BY DEF Reload
<1>2. CallsOK'
  BY <1>1, StraysLemma DEF Inv, TypeOK, CallsOK
<1>3. CASE client' = Opened(row.status)
  <2>1. /\ client' \in Client /\ client'.pc = "connect" /\ client'.last = 0
        /\ client'.seen = <<>> /\ client'.view = row.status
    BY <1>3, ClientFacts DEF Client, Opened
  <2>2. \A e \in log : e.id \in Nat /\ e.id > 0
    BY DEF Inv, TypeOK, TableOK, Event
  <2>3. Range(<<>>) = {} /\ DOMAIN <<>> = {}
    BY DEF Range
  <2>4. log' \ Newer(client.last)' = {}
    BY <1>1, <2>1, <2>2 DEF Newer
  <2>5. NothingMissed'
    BY <2>1, <2>3, <2>4 DEF NothingMissed
  <2> QED BY <1>1, <1>2, <2>1, <2>5, ClientFacts, RowShown, OffTheStream
<1>4. CASE client' = [client EXCEPT !.pc = "gone", !.view = "idle",
                                    !.unread = FALSE, !.own = FALSE]
  <2>1. /\ client' \in Client /\ client'.pc = "gone" /\ client'.last = client.last
        /\ client'.seen = client.seen /\ client'.view = "idle"
    BY <1>4, ClientFacts DEF Client
  <2>2. ViewTellsTheOutcome'
    BY <2>1 DEF ViewTellsTheOutcome
  <2> QED BY <1>1, <1>2, <2>1, <2>2, ClientFacts, SeenStays, OffTheStream
<1> QED BY <1>3, <1>4 DEF Reload

LEMMA ConnectInv ==
    ASSUME Inv, Connect PROVE Inv'
<1>1. /\ stream' = [pc |-> "list", cursor |-> client.last, batch |-> {}, clean |-> FALSE]
      /\ wire' = <<>> /\ client' = [client EXCEPT !.pc = "read", !.result = FALSE]
      /\ UNCHANGED <<row, log, nextId, open, cancels, strays, faults>>
  BY DEF Connect
<1>2. /\ client' \in Client /\ client'.pc = "read" /\ ~client'.result
      /\ client'.last = client.last /\ client'.seen = client.seen
      /\ client'.view = client.view /\ client'.own = client.own
      /\ client.last \in Nat /\ client.last <= row.last
  BY <1>1, ClientFacts DEF Client
<1>3. /\ stream'.pc = "list" /\ stream'.cursor = client.last /\ ~stream'.clean
      /\ stream' \in [pc : {"list", "yield", "check", "ended"}, cursor : Nat,
                      batch : SUBSET Event, clean : BOOLEAN]
  BY <1>1, <1>2
<1>4. TypeOK'
  BY <1>1, <1>2, <1>3, ClientFacts, CallsStay DEF Inv, TypeOK
<1>5. TableOK' /\ OutcomeOK'
  BY <1>1 DEF Inv, TableOK, OutcomeOK
<1>6. StreamOK' /\ ClientOK' /\ ClosesWithTheOutcome' /\ ViewTellsTheOutcome'
  BY <1>1, <1>2, <1>3, ViewStays DEF StreamOK, ClientOK, ClosesWithTheOutcome
<1>7. WireOK'
  <2>1. DOMAIN wire' = {}
    BY <1>1
  <2>2. \A e \in log : ~(client.last < e.id /\ e.id <= client.last)
    BY <1>2, ClientFacts DEF Event
  <2> QED BY <1>1, <1>2, <1>3, <2>1, <2>2 DEF WireOK
<1> QED BY <1>1, <1>2, <1>4, <1>5, <1>6, <1>7, SeenStays DEF Inv

\* Reading an error, the client leaves the stream.
LEMMA ReadErrorInv ==
    ASSUME Inv, ReadEvent, wire[1] = ErrorOfStream PROVE Inv'
<1> DEFINE e == wire[1]
<1>1. /\ client.pc = "read" /\ wire # <<>> /\ wire' = Tail(wire)
      /\ UNCHANGED <<row, log, nextId, open, cancels, strays, faults>>
      /\ Head(wire) = e /\ wire' \in Seq(Event)
  BY ClientFacts, TailLemma DEF ReadEvent
<1>2. e.id = 0 /\ e.kind = "error" /\ client.last \in Nat
  BY ClientFacts DEF ErrorOfStream, Client
<1>3. AfterBlock(e) = "ask" /\ ~IsOld(e) /\ Lifecycle(e.kind, client.view) = "failed"
  BY <1>2 DEF AfterBlock, IsOld, Lifecycle, Outcome
<1>4. /\ client' = [client EXCEPT
                       !.pc = "ask",
                       !.last = IF e.id > @ THEN e.id ELSE @,
                       !.seen = IF e.id = 0 \/ IsOld(e) THEN @ ELSE Append(@, e.id),
                       !.view = IF IsOld(e) THEN @ ELSE Lifecycle(e.kind, @),
                       !.result = @ \/ e.kind = "result",
                       !.own = @ /\ (IsOld(e) \/ e.kind = "node")]
      /\ stream' = NoStream
  BY <1>1, <1>2, <1>3 DEF ReadEvent
<1>5. /\ client' \in Client /\ client'.pc = "ask" /\ client'.last = client.last
      /\ client'.seen = client.seen /\ client'.view = "failed"
  <2>1. /\ client'.pc = "ask" /\ client'.last = client.last
        /\ client'.seen = client.seen /\ client'.view = "failed"
    BY <1>2, <1>3, <1>4, ClientFacts DEF Client
  <2>2. client'.result = (client.result \/ FALSE) /\ client'.own = (client.own /\ FALSE)
    BY <1>2, <1>3, <1>4, ClientFacts DEF Client
  <2>3. client'.unread = client.unread
    BY <1>4, ClientFacts DEF Client
  <2>4. client' = [pc |-> client'.pc, last |-> client'.last, seen |-> client'.seen,
                   view |-> client'.view, result |-> client'.result,
                   unread |-> client'.unread, own |-> client'.own]
    BY <1>4, ClientFacts DEF Client
  <2> QED BY <2>1, <2>2, <2>3, <2>4, ClientFacts DEF Client, Terminal
<1>6. ViewTellsTheOutcome'
  BY <1>5 DEF ViewTellsTheOutcome
<1> QED BY <1>1, <1>4, <1>5, <1>6, ClientFacts, SeenStays, CallsStay, OffTheStream

\* Reading an event, the client has all up to it; a terminal one is the last.
LEMMA ReadRowInv ==
    ASSUME Inv, ReadEvent, wire[1] # ErrorOfStream PROVE Inv'
<1> DEFINE e == wire[1]
<1>1. /\ client.pc = "read" /\ wire # <<>> /\ wire' = Tail(wire)
      /\ UNCHANGED <<row, log, nextId, open, cancels, strays, faults>>
  BY DEF ReadEvent
<1>2. /\ Head(wire) = e /\ wire' \in Seq(Event) /\ 1 \in DOMAIN wire /\ e \in Event
      /\ Len(wire) \in Nat /\ Len(wire) > 0 /\ Len(wire') = Len(wire) - 1
      /\ DOMAIN wire = 1..Len(wire) /\ DOMAIN wire' = 1..(Len(wire) - 1)
      /\ \A i \in 1..(Len(wire) - 1) : wire'[i] = wire[i + 1]
  BY <1>1, ClientFacts, TailLemma
<1>3. WireOK
  BY DEF Inv
<1>4. /\ e \in log /\ client.last < e.id /\ client.last \in Nat /\ e.id \in Nat
      /\ e.id <= row.last /\ e.kind \in EventKinds
  BY <1>1, <1>2, <1>3, ClientFacts DEF WireOK, Inv, TypeOK, TableOK, Client, Event
<1>5. /\ ~IsOld(e) /\ e.id # 0
  BY <1>4 DEF IsOld
<1>6. /\ client'.pc = AfterBlock(e) /\ client'.last = e.id
      /\ client'.seen = Append(client.seen, e.id)
      /\ client'.view = Lifecycle(e.kind, client.view)
      /\ client'.result = (client.result \/ e.kind = "result")
      /\ client'.own = (client.own /\ e.kind = "node")
      /\ client' = [client EXCEPT
                       !.pc = AfterBlock(e), !.last = e.id, !.seen = Append(client.seen, e.id),
                       !.view = Lifecycle(e.kind, client.view),
                       !.result = client.result \/ e.kind = "result",
                       !.own = client.own /\ e.kind = "node"]
      /\ stream' = IF e.kind = "error" THEN NoStream ELSE stream
  <2>1. client' = [client EXCEPT
                       !.pc = AfterBlock(e), !.last = e.id, !.seen = Append(client.seen, e.id),
                       !.view = Lifecycle(e.kind, client.view),
                       !.result = client.result \/ e.kind = "result",
                       !.own = client.own /\ (FALSE \/ e.kind = "node")]
    BY <1>1, <1>2, <1>4, <1>5 DEF ReadEvent
  <2>2. stream' = IF e.kind = "error" THEN NoStream ELSE stream
    BY <1>2 DEF ReadEvent
  <2> QED BY <2>1, <2>2, ClientFacts DEF Client
<1>7. client' \in Client
  <2>1. Append(client.seen, e.id) \in Seq(Nat)
    BY <1>4, ClientFacts, AppendProperties DEF Client
  <2>2. Lifecycle(e.kind, client.view) \in Active \cup Terminal \cup {"idle"}
    BY <1>2, OutcomeLemma, ClientFacts DEF Lifecycle, Client, Active
  <2>3. AfterBlock(e) \in {"connect", "read", "ask", "done", "gone"}
    BY DEF AfterBlock
  <2>4. (client.result \/ e.kind = "result") \in BOOLEAN /\ (client.own /\ e.kind = "node") \in BOOLEAN
    OBVIOUS
  <2> QED BY <1>4, <1>6, <2>1, <2>2, <2>3, <2>4, ClientFacts DEF Client
<1>8. NothingMissed'
  <2>1. \A f \in log : f.id \in Nat /\ (client.last < f.id /\ f.id <= e.id => f = e)
    <3> SUFFICES ASSUME NEW f \in log PROVE f.id \in Nat /\
                                            (client.last < f.id /\ f.id <= e.id => f = e)
      OBVIOUS
    <3>1. f.id \in Nat
      BY ClientFacts DEF Event
    <3>2. ASSUME client.last < f.id, f.id <= e.id PROVE f = e
      <4>1. PICK j \in DOMAIN wire : j <= 1 /\ wire[j] = f
        BY <1>1, <1>2, <1>3, <3>2 DEF WireOK
      <4>2. j = 1
        BY <1>2, <4>1
      <4> QED BY <4>1, <4>2
    <3> QED BY <3>1, <3>2
  <2>2. log' \ Newer(client.last)' = (log \ Newer(client.last)) \cup {e}
    <3>1. \A f \in log : f.id <= e.id <=> f.id <= client.last \/ f = e
      BY <1>4, <2>1
    <3>2. Newer(client.last)' = {f \in log : f.id > e.id}
      BY <1>1, <1>6 DEF Newer
    <3> QED BY <1>1, <1>4, <2>1, <3>1, <3>2 DEF Newer
  <2>3. {f.id : f \in log' \ Newer(client.last)'} =
            {f.id : f \in log \ Newer(client.last)} \cup {e.id}
    BY <2>2
  <2>4. client.seen \in Seq(Nat)
    BY ClientFacts DEF Client
  <2>5. Range(client'.seen) = Range(client.seen) \cup {e.id}
    BY <1>4, <1>6, <2>4, RangeAppendLemma
  <2>6. /\ Len(client.seen) \in Nat /\ DOMAIN client.seen = 1..Len(client.seen)
        /\ DOMAIN client'.seen = 1..(Len(client.seen) + 1)
        /\ \A i \in 1..Len(client.seen) : client'.seen[i] = client.seen[i]
        /\ client'.seen[Len(client.seen) + 1] = e.id
    BY <1>4, <1>6, <2>4, AppendLemma
  <2>7. \A i \in 1..Len(client.seen) : client.seen[i] \in Nat /\ client.seen[i] < e.id
    <3> TAKE i \in 1..Len(client.seen)
    <3>1. client.seen[i] \in Range(client.seen)
      BY <2>6 DEF Range
    <3>2. PICK f \in log \ Newer(client.last) : f.id = client.seen[i]
      BY <3>1 DEF Inv, NothingMissed
    <3> QED BY <1>4, <2>1, <3>2 DEF Newer
  <2>8. \A i, j \in DOMAIN client'.seen : i < j => client'.seen[i] < client'.seen[j]
    <3> SUFFICES ASSUME NEW i \in DOMAIN client'.seen, NEW j \in DOMAIN client'.seen, i < j
                 PROVE  client'.seen[i] < client'.seen[j]
      OBVIOUS
    <3>1. i \in 1..Len(client.seen) /\ (j \in 1..Len(client.seen) \/ j = Len(client.seen) + 1)
      BY <2>6
    <3>2. j \in 1..Len(client.seen) => client.seen[i] < client.seen[j]
      BY <2>6, <3>1 DEF Inv, NothingMissed
    <3> QED BY <2>6, <2>7, <3>1, <3>2
  <2> QED BY <2>3, <2>5, <2>8 DEF Inv, NothingMissed
<1>9. ViewTellsTheOutcome'
  <2>1. client'.pc # "done" /\ row' = row
    BY <1>1, <1>6 DEF AfterBlock
  <2>2. CASE e.kind = "node"
    <3>1. /\ client'.own = client.own
          /\ client'.view = client.view \/ client'.view = "running"
      BY <1>6, <2>2, ClientFacts DEF Lifecycle, Client
    <3> QED BY <2>1, <3>1 DEF Inv, ViewTellsTheOutcome
  <2>3. CASE e.kind # "node"
    <3>1. client'.view = Outcome(e.kind)
      BY <1>6, <2>3 DEF Lifecycle
    <3>2. Outcome(e.kind) \in Terminal => row.status = Outcome(e.kind)
      BY <1>4 DEF Inv, OutcomeOK, IsTerminalEvent
    <3> QED BY <2>1, <3>1, <3>2 DEF ViewTellsTheOutcome, Terminal
  <2> QED BY <2>2, <2>3
<1>10. e.kind = "error" => Inv'
  <2> SUFFICES ASSUME e.kind = "error" PROVE Inv'
    OBVIOUS
  <2>1. client'.pc = "ask" /\ stream' = NoStream
    BY <1>6 DEF AfterBlock
  <2> QED BY <1>1, <1>2, <1>4, <1>6, <1>7, <1>8, <1>9, <2>1, ClientFacts, CallsStay, OffTheStream
<1>11. ASSUME e.kind # "error" PROVE Inv'
  <2>1. client'.pc = "read" /\ stream' = stream
    BY <1>6, <1>11 DEF AfterBlock
  <2>2. TypeOK'
    BY <1>1, <1>2, <1>7, <2>1, CallsStay DEF Inv, TypeOK
  <2>3. TableOK' /\ OutcomeOK' /\ ClosesWithTheOutcome'
    BY <1>1, <2>1 DEF Inv, TableOK, OutcomeOK, ClosesWithTheOutcome
  <2>4. StreamOK'
    BY <1>1, <2>1 DEF Inv, StreamOK
  <2>5. \A i \in DOMAIN wire' : i + 1 \in DOMAIN wire /\ wire'[i] = wire[i + 1] /\ 1 < i + 1
    BY <1>2
  <2>6. WireOK'
    <3>1. \A i \in DOMAIN wire' : wire'[i] # ErrorOfStream =>
              wire'[i] \in log' /\ client'.last < wire'[i].id
      BY <1>1, <1>2, <1>3, <1>6, <2>5 DEF WireOK
    <3>2. \A i \in DOMAIN wire' : IsTerminalEvent(wire'[i]) =>
              i = Len(wire') /\ stream'.pc = "ended"
      BY <1>1, <1>2, <1>3, <2>1, <2>5 DEF WireOK
    <3>3. \A i, j \in DOMAIN wire' : i < j /\ wire'[j] # ErrorOfStream =>
              wire'[i].id < wire'[j].id
      <4> TAKE i \in DOMAIN wire', j \in DOMAIN wire'
      <4>1. i < j => i + 1 < j + 1
        BY <1>2
      <4> QED BY <1>1, <1>3, <2>5, <4>1 DEF WireOK
    <3>4. ASSUME NEW f \in log', NEW j \in DOMAIN wire, wire[j] = f, client'.last < f.id
          PROVE  j - 1 \in DOMAIN wire' /\ wire'[j - 1] = f
      <4>1. j # 1
        BY <1>4, <1>6, <3>4
      <4> QED BY <1>2, <3>4, <4>1
    <3>5. ASSUME NEW i \in DOMAIN wire', NEW f \in log',
                 client'.last < f.id, f.id <= wire'[i].id
          PROVE  \E j \in DOMAIN wire' : j <= i /\ wire'[j] = f
      <4>0. f \in Event /\ f.id \in Nat
        BY <1>1, <3>5, ClientFacts DEF Event
      <4>1. client.last < f.id
        BY <1>4, <1>6, <3>5, <4>0
      <4>2. PICK j \in DOMAIN wire : j <= i + 1 /\ wire[j] = f
        BY <1>1, <1>3, <2>5, <3>5, <4>1 DEF WireOK
      <4>3. j - 1 \in DOMAIN wire' /\ wire'[j - 1] = f
        BY <3>4, <3>5, <4>2
      <4>4. j - 1 <= i
        BY <1>2, <4>2
      <4> QED BY <4>3, <4>4
    <3>6. ASSUME stream'.pc # "ended"
          PROVE  /\ client'.last <= stream'.cursor
                 /\ \A i \in DOMAIN wire' : wire'[i].id <= stream'.cursor
                 /\ \A f \in log' : client'.last < f.id /\ f.id <= stream'.cursor =>
                       \E j \in DOMAIN wire' : wire'[j] = f
      <4>1. \A i \in DOMAIN wire : wire[i].id <= stream.cursor
        BY <1>1, <1>3, <2>1, <3>6 DEF WireOK
      <4>2. ASSUME NEW f \in log', client'.last < f.id, f.id <= stream'.cursor
            PROVE  \E j \in DOMAIN wire' : wire'[j] = f
        <5>1. client.last < f.id
          BY <1>1, <1>4, <1>6, <4>2, ClientFacts DEF Event
        <5>2. PICK j \in DOMAIN wire : wire[j] = f
          BY <1>1, <1>3, <2>1, <3>6, <4>2, <5>1 DEF WireOK
        <5> QED BY <3>4, <4>2, <5>2
      <4> QED BY <1>2, <1>6, <2>1, <2>5, <4>1, <4>2
    <3> QED BY <3>1, <3>2, <3>3, <3>5, <3>6 DEF WireOK
  <2>7. ClientOK'
    <3>1. client'.last <= row'.last /\ client'.pc # "done"
      BY <1>1, <1>4, <1>6, <2>1
    <3>2. ~client.result
      BY <1>1 DEF Inv, ClientOK
    <3>3. ASSUME client'.result
          PROVE  wire' = <<>> /\ stream'.pc = "ended" /\ row'.status = "succeeded"
      <4>1. e.kind = "result"
        BY <1>6, <3>2, <3>3
      <4>2. IsTerminalEvent(e) /\ Outcome(e.kind) = "succeeded"
        BY <1>2, <4>1, OutcomeLemma
      <4>3. Len(wire) = 1 /\ stream.pc = "ended"
        BY <1>1, <1>2, <1>3, <4>2 DEF WireOK
      <4>4. wire' = <<>>
        BY <1>2, <4>3, EmptySeq
      <4>5. row.status = "succeeded"
        BY <1>4, <4>2 DEF Inv, OutcomeOK
      <4> QED BY <1>1, <2>1, <4>3, <4>4, <4>5
    <3> QED BY <2>1, <3>1, <3>3 DEF ClientOK
  <2> QED BY <1>8, <1>9, <2>2, <2>3, <2>4, <2>6, <2>7 DEF Inv
<1> QED BY <1>10, <1>11

LEMMA StutterInv ==
    ASSUME Inv, UNCHANGED vars PROVE Inv'
<1>1. UNCHANGED <<row, log, nextId, open, stream, wire, client, cancels, strays, faults>>
  BY DEF vars
<1>2. TypeOK' /\ TableOK' /\ OutcomeOK' /\ StreamOK' /\ WireOK' /\ ClientOK'
  BY <1>1 DEF Inv, TypeOK, CallsOK, TableOK, OutcomeOK, StreamOK, WireOK, ClientOK
<1>3. NothingMissed' /\ ClosesWithTheOutcome' /\ ViewTellsTheOutcome'
  BY <1>1 DEF Inv, NothingMissed, Newer, ClosesWithTheOutcome, ViewTellsTheOutcome
<1> QED BY <1>2, <1>3 DEF Inv

LEMMA NextInv ==
    ASSUME Inv, [Next]_vars PROVE Inv'
<1>1. CASE \E w \in Writers, kind \in Kinds : Insert(w, kind)
  BY <1>1, InsertInv
<1>2. CASE \E w \in Writers : Commit(w) \/ Rollback(w)
  BY <1>2, CommitInv, RollbackInv
<1>3. CASE Serve
  BY <1>3, ListEventsInv, YieldEventInv, CheckRunInv DEF Serve
<1>4. CASE Follow
  BY <1>4, ConnectInv, ReadErrorInv, ReadRowInv, StreamEndsInv, AskRunInv DEF Follow
<1>5. CASE StreamError \/ Break \/ AskFails \/ Reload
  BY <1>5, StreamErrorInv, BreakInv, AskFailsInv, ReloadInv
<1>6. CASE StrayAnswers \/ MessagesRead \/ MessagesFail
  BY <1>6, StrayAnswersInv, MessagesReadInv, MessagesFailInv
<1>7. ASSUME NEW k \in Clicks, Cancel(k) PROVE Inv'
  BY <1>7, ClickInv, CancelIsServedInv, CancelReturnsInv, CancelFailsInv, CancelEndsInv
     DEF Cancel
<1>8. CASE UNCHANGED vars
  BY <1>8, StutterInv
<1> QED BY <1>1, <1>2, <1>3, <1>4, <1>5, <1>6, <1>7, <1>8 DEF Next, Write

LEMMA InvHolds == Spec => []Inv
<1>1. Init => Inv
  BY InitInv
<1>2. Inv /\ [Next]_vars => Inv'
  BY NextInv
<1> QED BY <1>1, <1>2, PTL DEF Spec

-----------------------------------------------------------------------------
(* Theorems.                                                               *)

\* run_repository.py:358-421, runtime_service.py:72-101: every variable has its type.
THEOREM TypeCorrect == Spec => []TypeOK
<1>1. Inv => TypeOK
  BY DEF Inv
<1> QED BY <1>1, InvHolds, PTL

\* conversations.ts:136-152: over any number of connections a client receives every
\* event up to its cursor, once and in the order of the ids.
THEOREM ReaderMissesNothing == Spec => []NothingMissed
<1>1. Inv => NothingMissed
  BY DEF Inv
<1> QED BY <1>1, InvHolds, PTL

\* runtime_service.py:93-97: a stream that closes has sent the terminal event.
THEOREM StreamsCloseWithTheOutcome == Spec => []ClosesWithTheOutcome
<1>1. Inv => ClosesWithTheOutcome
  BY DEF Inv
<1> QED BY <1>1, InvHolds, PTL

\* AiWorkspacePage.tsx:56-75, 142-152: what a run has told its page is the status of the
\* row.  A page whose last word is that of its own calls may show a cancellation or a
\* failure that is none, also at its end, but never a success that is none.
THEOREM PageTellsTheOutcome == Spec => []ViewTellsTheOutcome
<1>1. Inv => ViewTellsTheOutcome
  BY DEF Inv
<1> QED BY <1>1, InvHolds, PTL
=============================================================================
