-------------------------- MODULE ConversationsProofs --------------------------
(***************************************************************************)
(* Safety of conversations for every number of conversations, message ids  *)
(* and runs.                                                               *)
(*                                                                         *)
(* An active run is the newest of its conversation, and the history it was *)
(* frozen with still ends the conversation's (ActiveIsNewest); a message   *)
(* id names one run (MessagesOnce); only a succeeded run has a report      *)
(* (ReportsSucceed); and runs belong to open conversations (RunsAreOpen).  *)
(* With these, Writing and the two halves of TurnsAndReportsKept are       *)
(* inductive, and OneWriter follows.                                       *)
(*                                                                         *)
(* A client that pages back has read all messages from its cursor to the   *)
(* end there was (PagerInv): a page ends right before its cursor whatever  *)
(* was added behind it (PageLemma), since the order of the messages is     *)
(* total even within a turn (BeforeLemma).                                 *)
(***************************************************************************)
EXTENDS Conversations, SequenceTheorems, FiniteSetTheorems, TLAPS

Requests == [conv : Convs, message : Messages, reply : 0..MaxRuns,
             context : 0..MaxRuns, recent : Seq(RunIds)]
Run == [status : {"none"} \cup ActiveStatuses \cup Settled,
        request : Requests \cup {<<>>}, report : BOOLEAN]
Conversation == [state : {"new", "open", "deleted"}, named : BOOLEAN,
                 context : 0..MaxRuns, pending : BOOLEAN]
Artifact == [run : RunIds, message : Messages, trashed : BOOLEAN]

Exists(r) == runs[r].status # "none"
Active(r) == runs[r].status \in ActiveStatuses
Turned == {"succeeded", "cancelled"}

\* The shape of the rows.
RowsOK ==
    /\ created \in 0..MaxRuns
    /\ conv \in [Convs -> Conversation]
    /\ runs \in [RunIds -> Run]
    /\ history \in [Convs -> Seq(RunIds)]
    /\ artifacts \subseteq Artifact

\* Ids are given in ascending order.
CreatedOK ==
    /\ \A c \in Convs : conv[c].context <= created
    /\ \A r \in RunIds : Exists(r) => runs[r].request \in Requests /\ r <= created
    /\ \A r \in RunIds : ~Exists(r) => runs[r] = NoRun
    /\ \A a \in artifacts : a.run <= created

RunsAreOpen ==
    /\ \A r \in RunIds : Exists(r) => conv[runs[r].request.conv].state = "open"
    /\ \A c \in Convs : conv[c].state # "open" => history[c] = <<>>

\* What an active run was frozen with is what its conversation has.
Writing ==
    \A r \in RunIds : Active(r) =>
        /\ runs[r].request.context = conv[runs[r].request.conv].context
        /\ runs[r].request.reply # 0 => /\ conv[runs[r].request.conv].pending
                                        /\ runs[r].request.reply = runs[r].request.context

ActiveIsNewest ==
    \A r \in RunIds : Active(r) =>
        /\ runs[r].request.recent = LastThree(history[runs[r].request.conv])
        /\ \A s \in RunIds : Exists(s) /\ runs[s].request.conv = runs[r].request.conv => s <= r

MessagesOnce ==
    \A r, s \in RunIds :
        Exists(r) /\ Exists(s) /\ runs[r].request.message = runs[s].request.message => r = s

ReportsSucceed == \A r \in RunIds : runs[r].report => runs[r].status = "succeeded"

TurnsKept ==
    \A c \in Convs :
        /\ \A r \in RunIds : r \in Range(history[c]) <=>
              runs[r].status \in Turned /\ runs[r].request.conv = c
        /\ \A i, j \in 1..Len(history[c]) : i < j => history[c][i] < history[c][j]

ReportsKept ==
    /\ \A r \in RunIds : Exists(r) => (runs[r].report <=> \E a \in artifacts : a.run = r)
    /\ \A a, b \in artifacts : a.run = b.run \/ a.message = b.message => a = b

Inv == /\ RowsOK /\ CreatedOK /\ RunsAreOpen /\ Writing /\ ActiveIsNewest
       /\ MessagesOnce /\ ReportsSucceed /\ TurnsKept /\ ReportsKept

-----------------------------------------------------------------------------
(* Sequences and rows.                                                     *)

LEMMA LastThreeType ==
    ASSUME NEW S, NEW s \in Seq(S) PROVE LastThree(s) \in Seq(S)
<1>1. CASE Len(s) < 3
  <2>1. LastThree(s) = SubSeq(s, 1, Len(s))
    BY <1>1 DEF LastThree
  <2>2. Len(s) \in Nat /\ \A i \in 1..Len(s) : s[i] \in S
    BY LenProperties
  <2> QED BY <2>1, <2>2, SubSeqProperties
<1>2. CASE ~(Len(s) < 3)
  <2>1. Len(s) \in Nat
    BY LenProperties
  <2>2. LastThree(s) = SubSeq(s, Len(s) - 2, Len(s))
    BY <1>2 DEF LastThree
  <2>3. \A i \in (Len(s) - 2)..Len(s) : s[i] \in S
    BY <1>2, <2>1, LenProperties
  <2> QED BY <2>1, <2>2, <2>3, SubSeqProperties
<1> QED BY <1>1, <1>2

LEMMA AppendLemma ==
    ASSUME NEW S, NEW s \in Seq(S), NEW x \in S
    PROVE  /\ Append(s, x) \in Seq(S)
           /\ Len(s) \in Nat /\ Len(Append(s, x)) = Len(s) + 1
           /\ \A i \in 1..Len(s) : Append(s, x)[i] = s[i] /\ s[i] \in Range(s)
           /\ Append(s, x)[Len(s) + 1] = x
           /\ \A y : y \in Range(Append(s, x)) <=> y \in Range(s) \/ y = x
<1>1. Len(s) \in Nat /\ DOMAIN s = 1..Len(s)
  BY LenProperties
<1>2. /\ Append(s, x) \in Seq(S) /\ Len(Append(s, x)) = Len(s) + 1
      /\ \A i \in 1..Len(s) : Append(s, x)[i] = s[i]
      /\ Append(s, x)[Len(s) + 1] = x
  BY AppendProperties
<1>3. DOMAIN Append(s, x) = 1..(Len(s) + 1)
  BY <1>2, LenProperties
<1>4. \A i \in 1..Len(s) : s[i] \in Range(s)
  BY <1>1 DEF Range
<1>5. ASSUME NEW y, y \in Range(Append(s, x)) PROVE y \in Range(s) \/ y = x
  <2>1. PICK i \in 1..(Len(s) + 1) : Append(s, x)[i] = y
    BY <1>3, <1>5 DEF Range
  <2>2. i \in 1..Len(s) \/ i = Len(s) + 1
    BY <1>1
  <2> QED BY <1>2, <1>4, <2>1, <2>2
<1>6. ASSUME NEW y, y \in Range(s) \/ y = x PROVE y \in Range(Append(s, x))
  <2>1. PICK i \in 1..(Len(s) + 1) : Append(s, x)[i] = y
    <3>1. CASE y = x
      BY <1>1, <1>2, <3>1
    <3>2. CASE y \in Range(s)
      <4>1. PICK i \in 1..Len(s) : s[i] = y
        BY <1>1, <3>2 DEF Range
      <4>2. i \in 1..(Len(s) + 1)
        BY <1>1
      <4> QED BY <1>2, <4>1, <4>2
    <3> QED BY <1>6, <3>1, <3>2
  <2> QED BY <1>3, <2>1 DEF Range
<1> QED BY <1>1, <1>2, <1>4, <1>5, <1>6

LEMMA TypeFacts ==
    ASSUME RowsOK, CreatedOK
    PROVE  /\ created \in Nat
           /\ \A r \in RunIds : r \in Nat /\ r > 0
           /\ \A c \in Convs : conv[c] \in Conversation /\ history[c] \in Seq(RunIds)
           /\ \A r \in RunIds : runs[r] \in Run
           /\ \A r \in RunIds : Active(r) => Exists(r)
           /\ \A r \in RunIds : Exists(r) =>
                 /\ runs[r].request \in Requests /\ runs[r].request.conv \in Convs
                 /\ runs[r].request.message \in Messages
  BY BoundAssumption DEF RowsOK, CreatedOK, RunIds, Active, Exists, ActiveStatuses, Requests

-----------------------------------------------------------------------------
(* The invariant.                                                          *)

LEMMA InitInv == Init => Inv
<1> SUFFICES ASSUME Init PROVE Inv
  OBVIOUS
<1>1. RowsOK
  BY BoundAssumption DEF Init, RowsOK, NoRun, Run, Conversation
<1>2. CreatedOK /\ RunsAreOpen /\ Writing /\ ActiveIsNewest /\ MessagesOnce /\ ReportsSucceed
      /\ ReportsKept
  BY DEF Init, CreatedOK, RunsAreOpen, Writing, ActiveIsNewest, MessagesOnce, ReportsSucceed,
         ReportsKept, Active, Exists, NoRun, ActiveStatuses
<1>3. TurnsKept
  BY DEF Init, TurnsKept, NoRun, Turned, Range
<1> QED BY <1>1, <1>2, <1>3 DEF Inv

\* A step that leaves the rows alone.
LEMMA QuietStep ==
    ASSUME Inv, UNCHANGED <<conv, runs, created, history, artifacts>> PROVE Inv'
  BY DEF Inv, RowsOK, CreatedOK, RunsAreOpen, Writing, ActiveIsNewest, MessagesOnce,
         ReportsSucceed, TurnsKept, ReportsKept, Exists, Active

\* A step that changes one conversation row but not what its runs were frozen with,
\* and closes it only when it has none.
LEMMA ConversationStep ==
    ASSUME Inv, NEW c \in Convs, NEW e \in Conversation,
           conv' = [conv EXCEPT ![c] = e],
           e.context = conv[c].context, e.pending = conv[c].pending,
           conv[c].state = "open" => e.state = "open",
           UNCHANGED <<runs, created, history, artifacts>>
    PROVE  Inv'
<1> USE DEF Inv
<1>1. conv'[c] = e /\ \A d \in Convs : d # c => conv'[d] = conv[d]
  BY DEF RowsOK
<1>2. \A d \in Convs : /\ conv'[d].context = conv[d].context
                       /\ conv'[d].pending = conv[d].pending
                       /\ conv[d].state = "open" => conv'[d].state = "open"
  BY <1>1
<1>3. RowsOK'
  BY DEF RowsOK
<1>4. CreatedOK'
  BY <1>2 DEF CreatedOK, Exists
<1>5. RunsAreOpen' /\ Writing'
  BY <1>2, TypeFacts DEF RunsAreOpen, Writing, Exists, Active
<1>6. ActiveIsNewest' /\ MessagesOnce' /\ ReportsSucceed' /\ TurnsKept' /\ ReportsKept'
  BY DEF ActiveIsNewest, MessagesOnce, ReportsSucceed, TurnsKept, ReportsKept, Exists, Active
<1> QED BY <1>3, <1>4, <1>5, <1>6

\* A step of an active run: it goes on, or ends with what its end writes.
LEMMA RunStep ==
    ASSUME Inv, NEW r \in RunIds, Active(r),
           NEW row \in Run, NEW c, NEW e \in Conversation, NEW h,
           c = runs[r].request.conv,
           row.status \in {"running"} \cup Settled,
           row.request = runs[r].request,
           row.report => row.status = "succeeded" /\ ~ArtifactClash(r),
           e.state = conv[c].state, e.context <= created,
           row.status = "running" => e = conv[c],
           h = IF row.status \in Turned THEN Append(history[c], r) ELSE history[c],
           runs' = [runs EXCEPT ![r] = row],
           conv' = [conv EXCEPT ![c] = e],
           history' = [history EXCEPT ![c] = h],
           artifacts' = IF row.report
                        THEN artifacts \cup {[run |-> r, message |-> runs[r].request.message,
                                              trashed |-> FALSE]}
                        ELSE artifacts,
           created' = created
    PROVE  Inv'
<1> USE DEF Inv
<1>1. /\ c \in Convs /\ Exists(r) /\ conv[c].state = "open" /\ ~runs[r].report
      /\ r \notin Range(history[c])
  <2>1. c \in Convs /\ Exists(r)
    BY TypeFacts
  <2>2. runs[r].status \notin Turned
    BY DEF Active, ActiveStatuses, Turned
  <2> QED BY <2>1, <2>2 DEF RunsAreOpen, ReportsSucceed, Turned, TurnsKept
<1>2. runs'[r] = row /\ \A s \in RunIds : s # r => runs'[s] = runs[s]
  BY DEF RowsOK
<1>3. conv'[c] = e /\ \A d \in Convs : d # c => conv'[d] = conv[d]
  BY <1>1 DEF RowsOK
<1>4. history'[c] = h /\ \A d \in Convs : d # c => history'[d] = history[d]
  BY <1>1 DEF RowsOK
<1>5. \A s \in RunIds : runs'[s].request = runs[s].request
  BY <1>2
<1>6. \A s \in RunIds : runs'[s].status # "none" <=> runs[s].status # "none"
  BY <1>1, <1>2 DEF Exists, Settled
<1>7. \A s \in RunIds : runs'[s].status \in ActiveStatuses =>
          /\ Active(s)
          /\ runs[s].request.conv \in Convs
          /\ conv'[runs[s].request.conv] = conv[runs[s].request.conv]
          /\ history'[runs[s].request.conv] = history[runs[s].request.conv]
  <2> SUFFICES ASSUME NEW s \in RunIds, runs'[s].status \in ActiveStatuses
               PROVE  /\ Active(s)
                      /\ runs[s].request.conv \in Convs
                      /\ conv'[runs[s].request.conv] = conv[runs[s].request.conv]
                      /\ history'[runs[s].request.conv] = history[runs[s].request.conv]
    OBVIOUS
  <2>1. CASE s = r
    <3>1. row.status = "running"
      BY <1>2, <2>1 DEF Settled, ActiveStatuses
    <3> QED BY <1>1, <1>3, <1>4, <2>1, <3>1 DEF Turned
  <2>2. CASE s # r
    <3>1. Active(s) /\ Exists(s) /\ runs[s].request.conv \in Convs
      BY <1>2, <2>2, TypeFacts DEF Active
    <3>2. runs[s].request.conv # c
      <4>1. s \in Int /\ r \in Int
        BY DEF RunIds
      <4>2. runs[s].request.conv = c => s <= r /\ r <= s
        BY <1>1, <3>1 DEF ActiveIsNewest
      <4> QED BY <2>2, <4>1, <4>2
    <3> QED BY <1>3, <1>4, <3>1, <3>2
  <2> QED BY <2>1, <2>2
<1>8. h \in Seq(RunIds)
  BY <1>1, TypeFacts, AppendLemma
<1>9. RowsOK'
  <2>1. row.report => [run |-> r, message |-> runs[r].request.message, trashed |-> FALSE]
                        \in Artifact
    BY <1>1, TypeFacts DEF Artifact
  <2> QED BY <1>1, <1>8, <2>1 DEF RowsOK
<1>10. CreatedOK'
  <2>1. \A d \in Convs : conv'[d].context <= created'
    BY <1>3 DEF CreatedOK
  <2>2. \A s \in RunIds : Exists(s)' => runs'[s].request \in Requests /\ s <= created'
    BY <1>5, <1>6 DEF CreatedOK, Exists
  <2>3. \A s \in RunIds : ~Exists(s)' => runs'[s] = NoRun
    BY <1>1, <1>2, <1>6 DEF CreatedOK, Exists
  <2>4. \A a \in artifacts' : a.run <= created'
    BY <1>1 DEF CreatedOK
  <2> QED BY <2>1, <2>2, <2>3, <2>4 DEF CreatedOK
<1>11. RunsAreOpen'
  <2>1. \A d \in Convs : conv'[d].state = conv[d].state
    BY <1>3
  <2>2. \A s \in RunIds : Exists(s)' => conv'[runs'[s].request.conv].state = "open"
    BY <1>5, <1>6, <2>1, TypeFacts DEF RunsAreOpen, Exists
  <2>3. \A d \in Convs : conv'[d].state # "open" => history'[d] = <<>>
    BY <1>1, <1>4, <2>1 DEF RunsAreOpen
  <2> QED BY <2>2, <2>3 DEF RunsAreOpen
<1>12. Writing'
  BY <1>5, <1>7 DEF Writing, Active
<1>13. ActiveIsNewest'
  BY <1>5, <1>6, <1>7 DEF ActiveIsNewest, Active, Exists
<1>14. MessagesOnce'
  BY <1>5, <1>6 DEF MessagesOnce, Exists
<1>15. ReportsSucceed'
  BY <1>2 DEF ReportsSucceed
<1>16. TurnsKept'
  <2>1. r \in RunIds /\ history[c] \in Seq(RunIds) /\ r \in Int /\ Len(history[c]) \in Nat
    BY <1>1, TypeFacts, AppendLemma DEF RunIds
  <2>2. ASSUME NEW d \in Convs, d # c
        PROVE  /\ \A s \in RunIds : s \in Range(history'[d]) <=>
                     runs'[s].status \in Turned /\ runs'[s].request.conv = d
               /\ \A i, j \in 1..Len(history'[d]) : i < j => history'[d][i] < history'[d][j]
    <3>1. history'[d] = history[d]
      BY <1>4, <2>2
    <3>2. \A s \in RunIds : runs'[s].request.conv = d => runs'[s] = runs[s]
      BY <1>2, <1>5, <2>2
    <3>3. \A s \in RunIds : runs[s].request.conv = d => runs'[s] = runs[s]
      BY <1>2, <2>2
    <3>4. /\ \A s \in RunIds : s \in Range(history[d]) <=>
                 runs[s].status \in Turned /\ runs[s].request.conv = d
          /\ \A i, j \in 1..Len(history[d]) : i < j => history[d][i] < history[d][j]
      BY DEF TurnsKept
    <3> QED BY <3>1, <3>2, <3>3, <3>4
  <2>3. ASSUME row.status \in Turned
        PROVE  /\ \A s \in RunIds : s \in Range(h) <=>
                     runs'[s].status \in Turned /\ runs'[s].request.conv = c
               /\ \A i, j \in 1..Len(h) : i < j => h[i] < h[j]
    <3>1. h = Append(history[c], r)
      BY <2>3
    <3>2. \A s \in RunIds : s \in Range(h) <=>
              runs'[s].status \in Turned /\ runs'[s].request.conv = c
      <4>1. \A s : s \in Range(h) <=> s \in Range(history[c]) \/ s = r
        BY <2>1, <3>1, AppendLemma
      <4>2. \A s \in RunIds : s \in Range(history[c]) <=>
                runs[s].status \in Turned /\ runs[s].request.conv = c
        BY <1>1 DEF TurnsKept
      <4>3. runs'[r].status \in Turned /\ runs'[r].request.conv = c
        BY <1>2, <1>5, <2>1, <2>3
      <4>4. \A s \in RunIds : s # r => runs'[s] = runs[s]
        BY <1>2
      <4> HIDE DEF Inv
      <4> QED BY <4>1, <4>2, <4>3, <4>4
    <3>3. \A i \in 1..Len(history[c]) : history[c][i] < r
      <4> SUFFICES ASSUME NEW i \in 1..Len(history[c]) PROVE history[c][i] < r
        OBVIOUS
      <4>1. history[c][i] \in RunIds /\ history[c][i] \in Range(history[c])
        BY <2>1, LenProperties, AppendLemma
      <4>2. runs[history[c][i]].status \in Turned /\ runs[history[c][i]].request.conv = c
        BY <1>1, <4>1 DEF TurnsKept
      <4>3. history[c][i] # r /\ history[c][i] \in Int
        BY <1>1, <4>1 DEF RunIds
      <4>4. Exists(history[c][i])
        BY <4>2 DEF Exists, Turned
      <4>5. history[c][i] <= r
        BY <4>1, <4>2, <4>4 DEF ActiveIsNewest
      <4> QED BY <2>1, <4>3, <4>5
    <3>4. \A i, j \in 1..Len(h) : i < j => h[i] < h[j]
      <4> SUFFICES ASSUME NEW i \in 1..Len(h), NEW j \in 1..Len(h), i < j PROVE h[i] < h[j]
        OBVIOUS
      <4>1. Len(h) = Len(history[c]) + 1 /\ i \in 1..Len(history[c]) /\ h[i] = history[c][i]
        BY <2>1, <3>1, AppendLemma
      <4>4. h[Len(history[c]) + 1] = r /\ \A k \in 1..Len(history[c]) : h[k] = history[c][k]
        <5>1. /\ Append(history[c], r)[Len(history[c]) + 1] = r
              /\ \A k \in 1..Len(history[c]) : Append(history[c], r)[k] = history[c][k]
          <6> HIDE DEF Inv
          <6> QED BY <2>1, AppendProperties
        <5> QED BY <3>1, <5>1
      <4>2. CASE j = Len(history[c]) + 1
        BY <3>3, <4>1, <4>2, <4>4
      <4>3. CASE j # Len(history[c]) + 1
        <5>1. PICK n \in Nat : n = Len(history[c])
          BY <2>1, LenProperties
        <5>2. j \in 1..n
          <6>1. j \in 1..(n + 1) /\ j # n + 1
            BY <4>1, <4>3, <5>1
          <6> HIDE DEF Inv
          <6> QED BY <5>1, <6>1
        <5>3. j \in 1..Len(history[c]) /\ h[j] = history[c][j]
          <6> HIDE DEF Inv
          <6> QED BY <4>4, <5>1, <5>2
        <5> QED BY <1>1, <4>1, <5>3 DEF TurnsKept
      <4> QED BY <4>2, <4>3
    <3> QED BY <3>2, <3>4
  <2>4. ASSUME row.status \notin Turned
        PROVE  /\ \A s \in RunIds : s \in Range(h) <=>
                     runs'[s].status \in Turned /\ runs'[s].request.conv = c
               /\ \A i, j \in 1..Len(h) : i < j => h[i] < h[j]
    <3>1. h = history[c]
      BY <2>4
    <3>2. runs[r].status \notin Turned
      BY DEF Active, ActiveStatuses, Turned
    <3> QED BY <1>1, <1>2, <1>5, <2>4, <3>1, <3>2 DEF TurnsKept
  <2>5. \A d \in Convs :
            /\ \A s \in RunIds : s \in Range(history'[d]) <=>
                  runs'[s].status \in Turned /\ runs'[s].request.conv = d
            /\ \A i, j \in 1..Len(history'[d]) : i < j => history'[d][i] < history'[d][j]
    <3> SUFFICES ASSUME NEW d \in Convs
                 PROVE  /\ \A s \in RunIds : s \in Range(history'[d]) <=>
                              runs'[s].status \in Turned /\ runs'[s].request.conv = d
                        /\ \A i, j \in 1..Len(history'[d]) :
                              i < j => history'[d][i] < history'[d][j]
      OBVIOUS
    <3>1. CASE d # c
      BY <2>2, <3>1
    <3>2. CASE d = c
      <4>1. history'[d] = h
        BY <1>4, <3>2
      <4>2. CASE row.status \in Turned
        BY <2>3, <3>2, <4>1, <4>2
      <4>3. CASE row.status \notin Turned
        BY <2>4, <3>2, <4>1, <4>3
      <4> QED BY <4>2, <4>3
    <3> QED BY <3>1, <3>2
  <2> QED BY <2>5 DEF TurnsKept
<1>17. ReportsKept'
  <2> DEFINE new == [run |-> r, message |-> runs[r].request.message, trashed |-> FALSE]
  <2>1. \A a \in artifacts : a.run # r
    BY <1>1 DEF ReportsKept
  <2>2. row.report => \A a \in artifacts : a.message # runs[r].request.message
    BY <2>1 DEF ArtifactClash
  <2>3. \A s \in RunIds : Exists(s)' => (runs'[s].report <=> \E a \in artifacts' : a.run = s)
    <3>1. CASE row.report
      <4>1. artifacts' = artifacts \cup {new} /\ new.run = r
        BY <3>1
      <4> HIDE DEF new
      <4> QED BY <1>2, <1>6, <2>1, <3>1, <4>1 DEF ReportsKept, Exists
    <3>2. CASE ~row.report
      BY <1>1, <1>2, <1>6, <2>1, <3>2 DEF ReportsKept, Exists
    <3> QED BY <3>1, <3>2
  <2>4. \A a, b \in artifacts' : a.run = b.run \/ a.message = b.message => a = b
    <3>1. CASE row.report
      <4>1. artifacts' = artifacts \cup {new} /\ new.run = r
            /\ new.message = runs[r].request.message
        BY <3>1
      <4> HIDE DEF new
      <4> QED BY <2>1, <2>2, <3>1, <4>1 DEF ReportsKept
    <3>2. CASE ~row.report
      BY <3>2 DEF ReportsKept
    <3> QED BY <3>1, <3>2
  <2> QED BY <2>3, <2>4 DEF ReportsKept
<1> QED BY <1>9, <1>10, <1>11, <1>12, <1>13, <1>14, <1>15, <1>16, <1>17

\* A new run: the conversation has no active one and nobody has its message id.
LEMMA NewRunStep ==
    ASSUME Inv, NEW c \in Convs, NEW m \in Messages, NEW reply \in 0..MaxRuns, NEW row,
           conv[c].state = "open", reply # 0 => reply = Pending(c),
           Holders(m) = {}, ~Busy(c), created < MaxRuns,
           row = [status |-> "queued", request |-> Request(c, m, reply), report |-> FALSE],
           created' = created + 1,
           runs' = [runs EXCEPT ![created + 1] = row],
           UNCHANGED <<conv, history, artifacts>>
    PROVE  Inv'
<1> USE DEF Inv
<1> DEFINE n == created + 1
<1>1. /\ n \in RunIds /\ n \in Int /\ created \in Int /\ ~Exists(n)
      /\ \A s \in RunIds : Exists(s) => s < n
      /\ \A s \in RunIds : s \in Int
      /\ \A a \in artifacts : a.run # n
  <2>1. created \in Nat /\ MaxRuns \in Nat /\ n \in RunIds
    BY BoundAssumption DEF RowsOK, RunIds
  <2>2. \A s \in RunIds : s \in Int
    BY DEF RunIds
  <2>3. \A a \in artifacts : a.run \in RunIds
    BY DEF RowsOK, Artifact
  <2> QED BY <2>1, <2>2, <2>3 DEF CreatedOK
<1>2. row.request = Request(c, m, reply) /\ row.status = "queued" /\ row.report = FALSE
  OBVIOUS
<1>3. /\ row.request \in Requests
      /\ row.request.conv = c /\ row.request.message = m /\ row.request.reply = reply
      /\ row.request.context = conv[c].context
      /\ row.request.recent = LastThree(history[c])
  <2>1. LastThree(history[c]) \in Seq(RunIds)
    BY TypeFacts, LastThreeType
  <2>2. conv[c].context \in 0..MaxRuns
    BY TypeFacts DEF Conversation
  <2> QED BY <1>2, <2>1, <2>2 DEF Request, Requests
<1>4. row \in Run
  BY <1>2, <1>3 DEF Run, ActiveStatuses
<1> HIDE DEF n
<1>5. runs' = [runs EXCEPT ![n] = row] /\ created' = n
  BY DEF n
<1>6. runs'[n] = row /\ \A s \in RunIds : s # n => runs'[s] = runs[s]
  BY <1>1, <1>5 DEF RowsOK
<1>7. \A s \in RunIds : s # n => (runs'[s].status # "none" <=> Exists(s))
  BY <1>6 DEF Exists
<1>8. \A s \in RunIds : Exists(s) => s # n /\ runs'[s] = runs[s] /\ runs[s].request.message # m
  BY <1>1, <1>6 DEF Holders, Exists
<1>9. \A s \in RunIds : Exists(s) /\ runs[s].request.conv = c => ~Active(s)
  BY DEF Busy, RunsOf, BusyStatuses, Exists, Active
<1>10. RowsOK'
  BY <1>1, <1>4, <1>5, BoundAssumption DEF RowsOK, RunIds
<1>11. CreatedOK'
  <2>1. \A d \in Convs : conv'[d].context <= created'
    <3>1. \A d \in Convs : conv[d].context \in Int /\ conv[d].context <= created
      BY TypeFacts DEF CreatedOK, Conversation
    <3> QED BY <1>1, <3>1
  <2>2. \A s \in RunIds : runs'[s].status # "none" => runs'[s].request \in Requests /\ s <= created'
    <3> SUFFICES ASSUME NEW s \in RunIds, runs'[s].status # "none"
                 PROVE  runs'[s].request \in Requests /\ s <= created'
      OBVIOUS
    <3>1. CASE s = n
      BY <1>1, <1>3, <1>5, <1>6, <3>1
    <3>2. CASE s # n
      BY <1>1, <1>5, <1>6, <1>7, <3>2 DEF CreatedOK
    <3> QED BY <3>1, <3>2
  <2>3. \A s \in RunIds : runs'[s].status = "none" => runs'[s] = NoRun
    BY <1>2, <1>6 DEF CreatedOK, Exists
  <2>4. \A a \in artifacts : a.run <= created'
    <3>1. \A a \in artifacts : a.run \in RunIds /\ a.run <= created
      BY DEF CreatedOK, RowsOK, Artifact
    <3> QED BY <1>1, <3>1
  <2> QED BY <2>1, <2>2, <2>3, <2>4 DEF CreatedOK, Exists
<1>12. RunsAreOpen'
  <2>1. \A s \in RunIds : runs'[s].status # "none" => conv[runs'[s].request.conv].state = "open"
    BY <1>3, <1>2, <1>6, <1>7 DEF RunsAreOpen
  <2> QED BY <2>1 DEF RunsAreOpen, Exists
<1>13. Writing'
  <2>1. reply # 0 => conv[c].pending /\ reply = conv[c].context
    BY DEF Pending
  <2>2. ASSUME NEW s \in RunIds, runs'[s].status \in ActiveStatuses
        PROVE  /\ runs'[s].request.context = conv[runs'[s].request.conv].context
               /\ runs'[s].request.reply # 0 => /\ conv[runs'[s].request.conv].pending
                                                /\ runs'[s].request.reply = runs'[s].request.context
    <3>1. CASE s = n
      BY <1>2, <1>3, <1>6, <2>1, <3>1
    <3>2. CASE s # n
      BY <1>6, <2>2, <3>2 DEF Writing, Active
    <3> QED BY <3>1, <3>2
  <2> QED BY <2>2 DEF Writing, Active
<1>14. ActiveIsNewest'
  <2>1. ASSUME NEW s \in RunIds, runs'[s].status \in ActiveStatuses
        PROVE  /\ runs'[s].request.recent = LastThree(history[runs'[s].request.conv])
               /\ \A t \in RunIds : runs'[t].status # "none"
                                    /\ runs'[t].request.conv = runs'[s].request.conv => t <= s
    <3>1. CASE s = n
      <4>1. \A t \in RunIds : runs'[t].status # "none" => t = n \/ t < n
        BY <1>1, <1>7
      <4>2. \A t \in RunIds : t = n \/ t < n => t <= n
        BY <1>1
      <4> QED BY <1>2, <1>3, <1>6, <3>1, <4>1, <4>2
    <3>2. CASE s # n
      <4>1. Active(s) /\ Exists(s) /\ runs'[s] = runs[s]
        BY <1>6, <2>1, <3>2, TypeFacts DEF Active
      <4>2. runs[s].request.conv # c
        BY <1>9, <4>1
      <4>3. \A t \in RunIds : runs'[t].status # "none" /\ runs'[t].request.conv = runs[s].request.conv
                              => t <= s
        BY <1>2, <1>3, <1>6, <1>7, <4>1, <4>2 DEF ActiveIsNewest
      <4> QED BY <4>1, <4>3 DEF ActiveIsNewest
    <3> QED BY <3>1, <3>2
  <2> QED BY <2>1 DEF ActiveIsNewest, Active, Exists
<1>15. MessagesOnce'
  <2>1. ASSUME NEW s \in RunIds, NEW t \in RunIds,
               runs'[s].status # "none", runs'[t].status # "none",
               runs'[s].request.message = runs'[t].request.message
        PROVE  s = t
    <3>1. CASE s = n /\ t # n
      BY <1>2, <1>3, <1>6, <1>7, <1>8, <2>1, <3>1
    <3>2. CASE t = n /\ s # n
      BY <1>2, <1>3, <1>6, <1>7, <1>8, <2>1, <3>2
    <3>3. CASE s # n /\ t # n
      BY <1>6, <1>7, <2>1, <3>3 DEF MessagesOnce
    <3> QED BY <3>1, <3>2, <3>3
  <2> QED BY <2>1 DEF MessagesOnce, Exists
<1>16. ReportsSucceed'
  BY <1>2, <1>6 DEF ReportsSucceed
<1>17. TurnsKept'
  <2>1. runs[n].status \notin Turned /\ runs'[n].status \notin Turned
    BY <1>1, <1>2, <1>6 DEF Turned, Exists
  <2>2. \A s \in RunIds, d \in Convs :
           runs'[s].status \in Turned /\ runs'[s].request.conv = d <=>
           runs[s].status \in Turned /\ runs[s].request.conv = d
    BY <1>6, <2>1
  <2> QED BY <2>2 DEF TurnsKept
<1>18. ReportsKept'
  <2>1. \A s \in RunIds : runs'[s].status # "none" =>
            (runs'[s].report <=> \E a \in artifacts : a.run = s)
    BY <1>1, <1>2, <1>6, <1>7 DEF ReportsKept
  <2> QED BY <2>1 DEF ReportsKept, Exists
<1> QED BY <1>10, <1>11, <1>12, <1>13, <1>14, <1>15, <1>16, <1>17, <1>18

\* A deletion takes the conversation's runs and turns; none of them is active.
LEMMA DeleteStep ==
    ASSUME Inv, NEW c \in Convs, DeleteConversation(c) PROVE Inv'
<1> USE DEF Inv
<1> DEFINE gone(s) == Exists(s) /\ runs[s].request.conv = c
<1>1. /\ runs' = [s \in RunIds |-> IF gone(s) THEN NoRun ELSE runs[s]]
      /\ \A s \in RunIds : gone(s) => ~Active(s)
      /\ UNCHANGED <<created, artifacts>>
  BY DEF DeleteConversation, Cascade, Busy, RunsOf, BusyStatuses, Exists, Active
<1>2. \A s \in RunIds : gone(s) => runs'[s] = NoRun
  BY <1>1
<1>3. \A s \in RunIds : ~gone(s) => runs'[s] = runs[s]
  BY <1>1
<1>4. NoRun.status = "none" /\ NoRun.report = FALSE /\ NoRun \in Run
  BY DEF NoRun, Run
<1>5. \A s \in RunIds : runs'[s].status # "none" =>
          Exists(s) /\ runs'[s] = runs[s] /\ runs[s].request.conv \in Convs \ {c}
  BY <1>2, <1>3, <1>4, TypeFacts DEF Exists
<1>6. /\ conv[c].state = "open" /\ history' = [history EXCEPT ![c] = <<>>]
      /\ conv' = [conv EXCEPT ![c] = [conv[c] EXCEPT !.state = "deleted"]]
  BY DEF DeleteConversation
<1>7. PICK old : old = conv[c]
  OBVIOUS
<1>8. PICK e : e = [old EXCEPT !.state = "deleted"]
  OBVIOUS
<1>8a. old \in Conversation
  BY <1>7, TypeFacts
<1>8b. e \in Conversation /\ e.state = "deleted" /\ e.context = old.context
  BY <1>8, <1>8a DEF Conversation
<1>8c. conv' = [conv EXCEPT ![c] = e] /\ e.context = conv[c].context
  BY <1>6, <1>7, <1>8, <1>8b
<1>9. conv'[c] = e /\ \A d \in Convs : d # c => conv'[d] = conv[d]
  BY <1>8c DEF RowsOK
<1>10. history'[c] = <<>> /\ \A d \in Convs : d # c => history'[d] = history[d]
  BY <1>6 DEF RowsOK
<1> HIDE DEF gone
<1>11. RowsOK'
  <2>1. runs' \in [RunIds -> Run]
    BY <1>1, <1>4 DEF RowsOK
  <2>2. <<>> \in Seq(RunIds)
    OBVIOUS
  <2> QED BY <1>1, <1>6, <1>8b, <1>8c, <2>1, <2>2 DEF RowsOK
<1>12. CreatedOK'
  <2>1. \A d \in Convs : conv'[d].context = conv[d].context
    BY <1>9, <1>8c
  <2>2. \A s \in RunIds : runs'[s].status = "none" => runs'[s] = NoRun
    BY <1>2, <1>3 DEF CreatedOK, Exists
  <2> QED BY <1>1, <1>5, <2>1, <2>2 DEF CreatedOK, Exists
<1>13. RunsAreOpen'
  <2>1. \A s \in RunIds : runs'[s].status # "none" => conv'[runs'[s].request.conv].state = "open"
    BY <1>5, <1>9 DEF RunsAreOpen
  <2>2. \A d \in Convs : conv'[d].state # "open" => history'[d] = <<>>
    BY <1>9, <1>10, <1>8b DEF RunsAreOpen
  <2> QED BY <2>1, <2>2 DEF RunsAreOpen, Exists
<1>14. \A s \in RunIds : runs'[s].status \in ActiveStatuses =>
          /\ Active(s) /\ runs'[s] = runs[s]
          /\ conv'[runs'[s].request.conv] = conv[runs[s].request.conv]
          /\ history'[runs'[s].request.conv] = history[runs[s].request.conv]
  BY <1>5, <1>9, <1>10 DEF Active, ActiveStatuses
<1>15. Writing'
  <2>1. \A s \in RunIds : runs'[s].status \in ActiveStatuses =>
           /\ runs'[s].request.context = conv'[runs'[s].request.conv].context
           /\ runs'[s].request.reply # 0 => /\ conv'[runs'[s].request.conv].pending
                                            /\ runs'[s].request.reply = runs'[s].request.context
    BY <1>14 DEF Writing
  <2> QED BY <2>1 DEF Writing, Active
<1>16. ActiveIsNewest'
  <2>1. \A s \in RunIds : runs'[s].status \in ActiveStatuses =>
           /\ runs'[s].request.recent = LastThree(history'[runs'[s].request.conv])
           /\ \A t \in RunIds : runs'[t].status # "none"
                                /\ runs'[t].request.conv = runs'[s].request.conv => t <= s
    BY <1>5, <1>14 DEF ActiveIsNewest
  <2> QED BY <2>1 DEF ActiveIsNewest, Active, Exists
<1>17. MessagesOnce'
  BY <1>5 DEF MessagesOnce, Exists
<1>18. ReportsSucceed'
  BY <1>2, <1>3, <1>4 DEF ReportsSucceed
<1>19. TurnsKept'
  <2>1. ASSUME NEW d \in Convs, d # c
        PROVE  \A s \in RunIds : s \in Range(history'[d]) <=>
                  runs'[s].status \in Turned /\ runs'[s].request.conv = d
    <3>1. \A s \in RunIds : runs[s].status \in Turned => Exists(s)
      BY DEF Turned, Exists
    <3>2. \A s \in RunIds : runs'[s].status \in Turned => runs'[s] = runs[s]
      BY <1>5 DEF Turned
    <3>3. \A s \in RunIds : runs[s].status \in Turned /\ runs[s].request.conv = d
                            => runs'[s] = runs[s]
      BY <1>3, <2>1 DEF gone
    <3>4. \A s \in RunIds : s \in Range(history[d]) <=>
              runs[s].status \in Turned /\ runs[s].request.conv = d
      BY DEF TurnsKept
    <3> QED BY <1>10, <2>1, <3>2, <3>3, <3>4
  <2>2. \A s \in RunIds : s \notin Range(history'[c])
    BY <1>10 DEF Range
  <2>3. \A s \in RunIds : ~(runs'[s].status \in Turned /\ runs'[s].request.conv = c)
    BY <1>5 DEF Turned
  <2>4. ASSUME NEW d \in Convs
        PROVE  \A i, j \in 1..Len(history'[d]) : i < j => history'[d][i] < history'[d][j]
    <3>1. CASE d = c
      BY <1>10, <3>1
    <3>2. CASE d # c
      BY <1>10, <3>2 DEF TurnsKept
    <3> QED BY <3>1, <3>2
  <2>5. ASSUME NEW d \in Convs
        PROVE  \A s \in RunIds : s \in Range(history'[d]) <=>
                  runs'[s].status \in Turned /\ runs'[s].request.conv = d
    BY <2>1, <2>2, <2>3
  <2> QED BY <2>4, <2>5 DEF TurnsKept
<1>20. ReportsKept'
  BY <1>1, <1>5 DEF ReportsKept, Exists
<1> QED BY <1>11, <1>12, <1>13, <1>15, <1>16, <1>17, <1>18, <1>19, <1>20

\* The trash keeps an artifact's run and message.
LEMMA TrashStep ==
    ASSUME Inv, NEW a \in artifacts, NEW trashed \in BOOLEAN, SetTrashed(a, trashed)
    PROVE  Inv'
<1> USE DEF Inv
<1>1. PICK b : b = [a EXCEPT !.trashed = trashed]
  OBVIOUS
<1>2. /\ artifacts' = (artifacts \ {a}) \cup {b}
      /\ UNCHANGED <<conv, runs, created, history>>
  BY <1>1 DEF SetTrashed
<1>3. b \in Artifact /\ b.run = a.run /\ b.message = a.message
  BY <1>1 DEF RowsOK, Artifact
<1> DEFINE old(x) == IF x = b THEN a ELSE x
<1>4. /\ \A x \in artifacts' : old(x) \in artifacts /\ old(x).run = x.run
                               /\ old(x).message = x.message
      /\ \A x, y \in artifacts' : old(x) = old(y) => x = y
      /\ \A x \in artifacts : \E y \in artifacts' : y.run = x.run
  BY <1>2, <1>3
<1> HIDE DEF old
<1>5. RowsOK' /\ CreatedOK'
  BY <1>2, <1>3 DEF RowsOK, CreatedOK, Exists
<1>6. RunsAreOpen' /\ Writing' /\ ActiveIsNewest' /\ MessagesOnce' /\ ReportsSucceed' /\ TurnsKept'
  BY <1>2 DEF RunsAreOpen, Writing, ActiveIsNewest, MessagesOnce, ReportsSucceed, TurnsKept,
              Exists, Active
<1>7. ReportsKept'
  <2>1. \A x, y \in artifacts' : x.run = y.run \/ x.message = y.message => x = y
    BY <1>4 DEF ReportsKept
  <2>2. \A s \in RunIds : (\E x \in artifacts : x.run = s) <=> (\E x \in artifacts' : x.run = s)
    BY <1>4
  <2> QED BY <1>2, <2>1, <2>2 DEF ReportsKept, Exists
<1> QED BY <1>5, <1>6, <1>7

\* The ends of a run, each as a step of its rows.
LEMMA EndStep ==
    ASSUME Inv, NEW r \in RunIds,
           \/ Start(r) \/ Fail(r) \/ Cancel(r)
           \/ \E report, asks \in BOOLEAN : Finalize(r, report, asks)
    PROVE  Inv'
<1> USE DEF Inv
<1>1. Active(r) /\ Exists(r)
  BY DEF Start, Fail, Cancel, Finalize, Active, Exists, ActiveStatuses
<1>2. PICK c : c = runs[r].request.conv
  OBVIOUS
<1>3. c \in Convs /\ conv[c] \in Conversation /\ runs[r] \in Run /\ history[c] \in Seq(RunIds)
  BY <1>1, <1>2, TypeFacts
<1>3a. PICK run, old, kept : run = runs[r] /\ old = conv[c] /\ kept = history[c]
  OBVIOUS
<1>3b. run \in Run /\ old \in Conversation
  BY <1>3, <1>3a
<1>4. ~runs[r].report
  BY <1>1 DEF ReportsSucceed, Active, ActiveStatuses
<1>5. conv = [conv EXCEPT ![c] = conv[c]] /\ history = [history EXCEPT ![c] = history[c]]
  BY DEF RowsOK
<1>6. conv[c].context <= created
  BY <1>3 DEF CreatedOK
<1>7. CASE Start(r)
  <2>1. PICK row : row = [run EXCEPT !.status = "running"]
    OBVIOUS
  <2>2. /\ row \in Run /\ row.status = "running" /\ row.request = runs[r].request
        /\ row.report = runs[r].report
    <3>1. row \in Run /\ row.status = "running" /\ row.request = run.request /\ row.report = run.report
      BY <1>3b, <2>1 DEF Run, ActiveStatuses
    <3> QED BY <1>3a, <3>1
  <2>3. runs' = [runs EXCEPT ![r] = row] /\ UNCHANGED <<conv, history, artifacts, created>>
    BY <1>7, <1>3a, <2>1 DEF Start
  <2>4. row.status \notin Turned
    BY <2>2 DEF Turned
  <2>5. /\ conv' = [conv EXCEPT ![c] = old] /\ history' = [history EXCEPT ![c] = kept]
        /\ ~row.report /\ UNCHANGED <<artifacts, created>>
    BY <1>4, <1>5, <1>3a, <2>2, <2>3
  <2>6. kept = IF row.status \in Turned THEN Append(history[c], r) ELSE history[c]
    BY <1>3a, <2>4
  <2>7. /\ old \in Conversation /\ old.context <= created /\ old.state = conv[c].state
        /\ old = conv[c] /\ runs' = [runs EXCEPT ![r] = row]
    BY <1>6, <1>3a, <1>3b, <2>3
  <2>8. row.status \in {"running"} \cup Settled
    BY <2>2 DEF Settled
  <2> HIDE DEF Inv
  <2> QED BY <1>1, <1>2, <2>2, <2>5, <2>6, <2>7, <2>8, RunStep
<1>8. CASE Fail(r)
  <2>1. PICK row : row = [run EXCEPT !.status = "failed"]
    OBVIOUS
  <2>2. /\ row \in Run /\ row.status = "failed" /\ row.request = runs[r].request
        /\ row.report = runs[r].report
    <3>1. row \in Run /\ row.status = "failed" /\ row.request = run.request /\ row.report = run.report
      BY <1>3b, <2>1 DEF Run, Settled
    <3> QED BY <1>3a, <3>1
  <2>3. runs' = [runs EXCEPT ![r] = row] /\ UNCHANGED <<conv, history, artifacts, created>>
    BY <1>8, <1>3a, <2>1 DEF Fail
  <2>4. row.status \notin Turned /\ row.status \in Settled /\ row.status # "running"
    BY <2>2 DEF Turned, Settled
  <2>5. /\ conv' = [conv EXCEPT ![c] = old] /\ history' = [history EXCEPT ![c] = kept]
        /\ ~row.report /\ UNCHANGED <<artifacts, created>>
    BY <1>4, <1>5, <1>3a, <2>2, <2>3
  <2>6. kept = IF row.status \in Turned THEN Append(history[c], r) ELSE history[c]
    BY <1>3a, <2>4
  <2>7. /\ old \in Conversation /\ old.context <= created /\ old.state = conv[c].state
        /\ old = conv[c] /\ runs' = [runs EXCEPT ![r] = row]
    BY <1>6, <1>3a, <1>3b, <2>3
  <2>8. row.status \in {"running"} \cup Settled
    BY <2>2 DEF Settled
  <2> HIDE DEF Inv
  <2> QED BY <1>1, <1>2, <2>2, <2>5, <2>6, <2>7, <2>8, RunStep
<1>9. CASE Cancel(r)
  <2>1. PICK row : row = [run EXCEPT !.status = "cancelled"]
    OBVIOUS
  <2>2. /\ row \in Run /\ row.status = "cancelled" /\ row.request = runs[r].request
        /\ row.report = runs[r].report
    <3>1. row \in Run /\ row.status = "cancelled" /\ row.request = run.request /\ row.report = run.report
      BY <1>3b, <2>1 DEF Run, Settled
    <3> QED BY <1>3a, <3>1
  <2>3. PICK e : e = [old EXCEPT !.named = TRUE]
    OBVIOUS
  <2>4. e \in Conversation /\ e.state = conv[c].state /\ e.context = conv[c].context
    <3>1. e \in Conversation /\ e.state = old.state /\ e.context = old.context
      BY <1>3b, <2>3 DEF Conversation
    <3> QED BY <1>3a, <3>1
  <2>5. /\ runs' = [runs EXCEPT ![r] = row] /\ UNCHANGED <<artifacts, created>>
        /\ history' = [history EXCEPT ![c] = Append(history[c], r)]
        /\ conv' = [conv EXCEPT ![c] = e]
    BY <1>2, <1>9, <1>3a, <2>1, <2>3 DEF Cancel
  <2>6. row.status \in Turned /\ row.status \in Settled /\ row.status # "running"
    BY <2>2 DEF Turned, Settled
  <2> HIDE DEF Inv
  <2> QED BY <1>1, <1>2, <1>3, <1>4, <1>6, <2>2, <2>3, <2>4, <2>5, <2>6, RunStep
<1>10. CASE \E report, asks \in BOOLEAN : Finalize(r, report, asks)
  <2>1. PICK report \in BOOLEAN, asks \in BOOLEAN : Finalize(r, report, asks)
    BY <1>10
  <2>2. PICK row : row = [run EXCEPT !.status = "succeeded", !.report = report]
    OBVIOUS
  <2>3. /\ row \in Run /\ row.status = "succeeded" /\ row.request = runs[r].request
        /\ row.report = report
    <3>1. row \in Run /\ row.status = "succeeded" /\ row.request = run.request /\ row.report = report
      BY <1>3b, <2>2 DEF Run, Settled
    <3> QED BY <1>3a, <3>1
  <2>4. PICK e : e = [old EXCEPT !.named = TRUE, !.context = r, !.pending = asks]
    OBVIOUS
  <2>5. r \in 0..MaxRuns /\ r <= created
    BY <1>1, BoundAssumption DEF RunIds, CreatedOK
  <2>6. e \in Conversation /\ e.state = conv[c].state /\ e.context = r
    <3>1. e \in Conversation /\ e.state = old.state /\ e.context = r
      BY <1>3b, <2>4, <2>5 DEF Conversation
    <3> QED BY <1>3a, <3>1
  <2>7. /\ runs' = [runs EXCEPT ![r] = [runs[r] EXCEPT !.status = "succeeded", !.report = report]]
        /\ history' = [history EXCEPT ![c] = Append(history[c], r)]
        /\ conv' = [conv EXCEPT ![c] = [conv[c] EXCEPT !.named = TRUE, !.context = r,
                                                       !.pending = asks]]
        /\ created' = created
        /\ artifacts' = KeptReports(r, report)
        /\ report => ~ArtifactClash(r)
    <3> HIDE DEF Inv
    <3>1. /\ history' = [history EXCEPT ![c] = Append(history[c], r)]
          /\ created' = created /\ artifacts' = KeptReports(r, report)
          /\ report => ~ArtifactClash(r)
      BY <1>2, <2>1 DEF Finalize
    <3>2. runs' = [runs EXCEPT ![r].status = "succeeded", ![r].report = report]
      BY <2>1 DEF Finalize
    <3>3. conv' = [conv EXCEPT ![c].named = TRUE, ![c].context = r, ![c].pending = asks]
      BY <1>2, <2>1 DEF Finalize
    <3>4. runs' = [runs EXCEPT ![r] = [runs[r] EXCEPT !.status = "succeeded", !.report = report]]
      BY <3>2
    <3>5. conv' = [conv EXCEPT ![c] = [conv[c] EXCEPT !.named = TRUE, !.context = r,
                                                     !.pending = asks]]
      BY <3>3
    <3> QED BY <3>1, <3>4, <3>5
  <2>8. row.status \in Turned /\ row.status \in Settled /\ row.status # "running"
    BY <2>3 DEF Turned, Settled
  <2>9. runs' = [runs EXCEPT ![r] = row] /\ conv' = [conv EXCEPT ![c] = e]
    BY <1>3a, <2>2, <2>4, <2>7
  <2>10. artifacts' = IF row.report
                      THEN artifacts \cup {[run |-> r, message |-> runs[r].request.message,
                                            trashed |-> FALSE]}
                      ELSE artifacts
    BY <2>3, <2>7 DEF KeptReports
  <2>11. row.report => row.status = "succeeded" /\ ~ArtifactClash(r)
    BY <2>3, <2>7
  <2>12. PICK h : h = Append(history[c], r)
    OBVIOUS
  <2>13. /\ history' = [history EXCEPT ![c] = h] /\ created' = created
         /\ h = IF row.status \in Turned THEN Append(history[c], r) ELSE history[c]
    BY <2>7, <2>8, <2>12
  <2> HIDE DEF Inv
  <2> QED BY <1>1, <1>2, <2>3, <2>5, <2>6, <2>8, <2>9, <2>10, <2>11, <2>13, RunStep
<1> QED BY <1>7, <1>8, <1>9, <1>10

LEMMA CreateStep ==
    ASSUME Inv, NEW c \in Convs, NEW m \in Messages, NEW reply \in 0..MaxRuns,
           CreateRun(c, m, reply)
    PROVE  Inv'
<1>1. CASE UNCHANGED <<conv, runs, created, history, artifacts>>
  BY <1>1, QuietStep
<1>2. CASE ~UNCHANGED <<conv, runs, created, history, artifacts>>
  <2>1. /\ conv[c].state = "open" /\ (reply # 0 => reply = Pending(c))
        /\ Holders(m) = {} /\ ~Busy(c) /\ created < MaxRuns
        /\ created' = created + 1
        /\ runs' = [runs EXCEPT ![created + 1] =
                       [status |-> "queued", request |-> Request(c, m, reply), report |-> FALSE]]
        /\ UNCHANGED <<conv, history, artifacts>>
    BY <1>2 DEF CreateRun
  <2>2. PICK row : row = [status |-> "queued", request |-> Request(c, m, reply),
                          report |-> FALSE]
    OBVIOUS
  <2>3. runs' = [runs EXCEPT ![created + 1] = row]
    BY <2>1, <2>2
  <2> QED BY <2>1, <2>2, <2>3, NewRunStep
<1> QED BY <1>1, <1>2

LEMMA RowStep ==
    ASSUME Inv, NEW c \in Convs, CreateConversation(c) \/ UpdateTitle(c) PROVE Inv'
<1>1. PICK old : old = conv[c]
  OBVIOUS
<1>2. old \in Conversation
  BY <1>1, TypeFacts DEF Inv
<1>3. UNCHANGED <<runs, created, history, artifacts>>
  BY DEF CreateConversation, UpdateTitle
<1>4. CASE CreateConversation(c)
  <2>1. PICK e : e = [old EXCEPT !.state = "open"]
    OBVIOUS
  <2>2. /\ e \in Conversation /\ e.context = old.context /\ e.pending = old.pending
        /\ e.state = "open"
    BY <1>2, <2>1 DEF Conversation
  <2>3. conv' = [conv EXCEPT ![c] = e]
    BY <1>1, <1>4, <2>1 DEF CreateConversation
  <2> QED BY <1>1, <1>3, <2>2, <2>3, ConversationStep
<1>5. CASE UpdateTitle(c)
  <2>1. PICK e : e = [old EXCEPT !.named = TRUE]
    OBVIOUS
  <2>2. /\ e \in Conversation /\ e.context = old.context /\ e.pending = old.pending
        /\ e.state = old.state
    BY <1>2, <2>1 DEF Conversation
  <2>3. conv' = [conv EXCEPT ![c] = e]
    BY <1>1, <1>5, <2>1 DEF UpdateTitle
  <2> QED BY <1>1, <1>3, <2>2, <2>3, ConversationStep
<1> QED BY <1>4, <1>5

LEMMA NextInv == Inv /\ [Next]_vars => Inv'
<1> SUFFICES ASSUME Inv, [Next]_vars PROVE Inv'
  OBVIOUS
<1>1. ASSUME NEW c \in Convs, CreateConversation(c) \/ UpdateTitle(c) PROVE Inv'
  BY <1>1, RowStep
<1>2. ASSUME NEW c \in Convs, DeleteConversation(c) PROVE Inv'
  BY <1>2, DeleteStep
<1>3. ASSUME NEW c \in Convs, FirstPage(c) PROVE Inv'
  BY <1>3, QuietStep DEF FirstPage
<1>4. ASSUME NEW c \in Convs, NEW m \in Messages, NEW reply \in 0..MaxRuns,
             CreateRun(c, m, reply)
      PROVE  Inv'
  BY <1>4, CreateStep
<1>5. ASSUME NEW r \in RunIds, Start(r) \/ Fail(r) \/ Cancel(r) PROVE Inv'
  BY <1>5, EndStep
<1>6. ASSUME NEW r \in RunIds, NEW report \in BOOLEAN, NEW asks \in BOOLEAN,
             Finalize(r, report, asks)
      PROVE  Inv'
  BY <1>6, EndStep
<1>7. ASSUME NEW a \in artifacts, NEW trashed \in BOOLEAN, SetTrashed(a, trashed) PROVE Inv'
  BY <1>7, TrashStep
<1>8. CASE OlderPage \/ ClosePager
  BY <1>8, QuietStep DEF OlderPage, ClosePager
<1>9. CASE UNCHANGED vars
  BY <1>9, QuietStep DEF vars
<1> QED BY <1>1, <1>2, <1>3, <1>4, <1>5, <1>6, <1>7, <1>8, <1>9 DEF Next

LEMMA Safety == Spec => []Inv
BY InitInv, NextInv, PTL DEF Spec

-----------------------------------------------------------------------------
(* What the invariant gives.                                               *)

\* Rows have their types, and a conversation that is not open has neither runs nor
\* turns: create_run, finalize and the cascade of a deletion keep the three tables
\* in step.
THEOREM TypeCorrect == Spec => []TypeOK
<1>1. Inv => TypeOK
  <2> SUFFICES ASSUME Inv PROVE TypeOK
    OBVIOUS
  <2> USE DEF Inv
  <2>1. \A c \in Convs : /\ conv[c].state \in {"new", "open", "deleted"}
                         /\ conv[c].named \in BOOLEAN /\ conv[c].pending \in BOOLEAN
                         /\ conv[c].context \in 0..created
    <3> SUFFICES ASSUME NEW c \in Convs
                 PROVE  /\ conv[c].state \in {"new", "open", "deleted"}
                        /\ conv[c].named \in BOOLEAN /\ conv[c].pending \in BOOLEAN
                        /\ conv[c].context \in 0..created
      OBVIOUS
    <3>1. PICK e : e = conv[c]
      OBVIOUS
    <3>2. e \in Conversation
      BY <3>1, TypeFacts
    <3>3. /\ e.state \in {"new", "open", "deleted"} /\ e.named \in BOOLEAN
          /\ e.pending \in BOOLEAN /\ e.context \in 0..MaxRuns
      BY <3>2 DEF Conversation
    <3>4. conv[c].context <= created /\ created \in 0..MaxRuns
      BY DEF CreatedOK, RowsOK
    <3> QED BY <3>1, <3>3, <3>4, BoundAssumption
  <2>2. \A c \in Convs : conv[c].state # "open" => RunsOf(c) = {} /\ history[c] = <<>>
    BY DEF RunsAreOpen, RunsOf, Exists
  <2>3. \A r \in RunIds : /\ runs[r].status \in {"none"} \cup ActiveStatuses \cup Settled
                          /\ r > created => runs[r] = NoRun
    <3> SUFFICES ASSUME NEW r \in RunIds
                 PROVE  /\ runs[r].status \in {"none"} \cup ActiveStatuses \cup Settled
                        /\ r > created => runs[r] = NoRun
      OBVIOUS
    <3>1. runs[r].status \in {"none"} \cup ActiveStatuses \cup Settled
      BY TypeFacts DEF Run
    <3>2. r \in Int /\ created \in Int
      BY DEF RunIds, RowsOK
    <3>3. r > created => ~Exists(r)
      BY <3>2 DEF CreatedOK
    <3> QED BY <3>1, <3>3 DEF CreatedOK
  <2>4. \A a \in artifacts : a.run \in 1..created /\ a.trashed \in BOOLEAN
    <3>1. \A a \in artifacts : a.run \in RunIds /\ a.run <= created /\ a.trashed \in BOOLEAN
      BY DEF RowsOK, CreatedOK, Artifact
    <3>2. created \in 0..MaxRuns
      BY DEF RowsOK
    <3> QED BY <3>1, <3>2, BoundAssumption DEF RunIds
  <2>5. created \in 0..MaxRuns
    BY DEF RowsOK
  <2> QED BY <2>1, <2>2, <2>3, <2>4, <2>5 DEF TypeOK
<1> QED BY <1>1, Safety, PTL

\* create_run admits one active run per conversation, and until it ends nobody moves
\* the context it was frozen with.
THEOREM SingleWriter == Spec => []OneWriter
<1>1. Inv => OneWriter
  <2> SUFFICES ASSUME Inv, NEW r \in RunIds, Active(r)
               PROVE  LET c == runs[r].request.conv
                      IN  /\ conv[c].state = "open"
                          /\ runs[r].request.context = conv[c].context
                          /\ runs[r].request.reply # 0 => runs[r].request.reply = Pending(c)
                          /\ \A s \in RunsOf(c) : runs[s].status \in ActiveStatuses => s = r
    BY DEF OneWriter, Active
  <2> USE DEF Inv
  <2> DEFINE c == runs[r].request.conv
  <2>1. Exists(r) /\ conv[c].state = "open"
    BY TypeFacts DEF RunsAreOpen
  <2>2. runs[r].request.context = conv[c].context
    BY DEF Writing
  <2>3. runs[r].request.reply # 0 => runs[r].request.reply = Pending(c)
    BY <2>2 DEF Writing, Pending
  <2>4. ASSUME NEW s \in RunsOf(c), runs[s].status \in ActiveStatuses PROVE s = r
    <3>1. s \in RunIds /\ Exists(s) /\ Active(s) /\ runs[s].request.conv = c
      BY <2>4 DEF RunsOf, Exists, Active
    <3>2. s <= r /\ r <= s
      BY <2>1, <3>1 DEF ActiveIsNewest
    <3> QED BY <3>1, <3>2 DEF RunIds
  <2> QED BY <2>1, <2>2, <2>3, <2>4
<1> QED BY <1>1, Safety, PTL

\* A conversation's turns are its answered and its cancelled runs in the order they
\* were submitted, and exactly the completed reports have an artifact, whatever is
\* deleted, trashed or restored in between.
THEOREM TurnsAndReports == Spec => []TurnsAndReportsKept
<1>1. Inv => TurnsAndReportsKept
  <2> SUFFICES ASSUME Inv PROVE TurnsAndReportsKept
    OBVIOUS
  <2> USE DEF Inv
  <2>1. ASSUME NEW c \in Convs
        PROVE  Range(history[c]) =
                  {r \in RunsOf(c) : runs[r].status \in {"succeeded", "cancelled"}}
    <3>1. history[c] \in Seq(RunIds)
      BY TypeFacts
    <3>2. Range(history[c]) \subseteq RunIds
      BY <3>1, LenProperties DEF Range
    <3>3. \A r \in RunIds : r \in Range(history[c]) <=>
             runs[r].status \in {"succeeded", "cancelled"} /\ runs[r].request.conv = c
      BY DEF TurnsKept, Turned
    <3> QED BY <3>2, <3>3 DEF RunsOf
  <2>2. ASSUME NEW c \in Convs
        PROVE  \A i, j \in DOMAIN history[c] : i < j => history[c][i] < history[c][j]
    <3>1. DOMAIN history[c] = 1..Len(history[c])
      BY TypeFacts, LenProperties
    <3> QED BY <3>1 DEF TurnsKept
  <2>3. /\ \A r \in RunIds : runs[r].status # "none" =>
              (runs[r].report <=> \E a \in artifacts : a.run = r)
        /\ \A a, b \in artifacts : a.run = b.run \/ a.message = b.message => a = b
    BY DEF ReportsKept, Exists
  <2> QED BY <2>1, <2>2, <2>3 DEF TurnsAndReportsKept
<1> QED BY <1>1, Safety, PTL

\* While a run is active, submitting its message again finds the same request, since
\* neither the context nor the last turns have moved, and is answered with the run.
THEOREM RepetitionsAreAnswered == Spec => RepeatReturnsTheRun
<1> DEFINE Answered ==
      \A r \in RunIds :
          /\ runs[r].status \in ActiveStatuses
          /\ answer' # answer
          /\ answer'.conv = runs[r].request.conv
          /\ answer'.message = runs[r].request.message
          /\ answer'.reply = runs[r].request.reply
          => answer'.result = "run"
<1>1. Inv /\ [Next]_vars => [Answered]_vars
  <2> SUFFICES ASSUME Inv, Next, NEW r \in RunIds, Active(r), answer' # answer,
                      answer'.conv = runs[r].request.conv,
                      answer'.message = runs[r].request.message,
                      answer'.reply = runs[r].request.reply
               PROVE  answer'.result = "run"
    BY DEF Active
  <2> USE DEF Inv
  <2>1. PICK c \in Convs, m \in Messages, reply \in 0..MaxRuns : CreateRun(c, m, reply)
    BY DEF Next, CreateConversation, UpdateTitle, DeleteConversation, FirstPage, Start, Fail,
           Cancel, Finalize, SetTrashed, OlderPage, ClosePager
  <2>2. PICK result : answer' = [conv |-> c, message |-> m, reply |-> reply, result |-> result]
    BY <2>1 DEF CreateRun, Reply
  <2>3. /\ runs[r].request.conv = c /\ runs[r].request.message = m
        /\ runs[r].request.reply = reply /\ answer'.result = result
    BY <2>2
  <2>4. Exists(r) /\ conv[c].state = "open" /\ runs[r].request \in Requests
    BY <2>3, TypeFacts DEF RunsAreOpen
  <2>5. /\ runs[r].request.context = conv[c].context
        /\ runs[r].request.recent = LastThree(history[c])
        /\ reply # 0 => reply = Pending(c)
    BY <2>3 DEF Writing, ActiveIsNewest, Pending
  <2>6. runs[r].request = Request(c, m, reply)
    BY <2>3, <2>4, <2>5 DEF Request, Requests
  <2>7. r \in Holders(m) /\ \A s \in Holders(m) : s = r
    BY <2>3, <2>4 DEF Holders, MessagesOnce, Exists
  <2>8. PICK s \in Holders(m) :
          \E x \in IF runs[s].request = Request(c, m, reply) THEN {"run"}
                   ELSE {"message_id_conflict"} \cup
                        {y \in {"conversation_busy"} : runs[s].request.conv # c} :
             Reply(c, m, reply, x)
    BY <2>1, <2>4, <2>5, <2>7 DEF CreateRun
  <2>9. Reply(c, m, reply, "run")
    BY <2>6, <2>7, <2>8
  <2> QED BY <2>9 DEF Reply
<1> QED BY <1>1, Safety, PTL DEF Spec, RepeatReturnsTheRun

-----------------------------------------------------------------------------
(* Paging back.                                                            *)

\* The numbers from a to b in ascending order.
Span(a, b) == [i \in 1..(b - a + 1) |-> a + i - 1]

\* A span is a sequence that begins at a.
LEMMA SpanFacts ==
    ASSUME NEW a \in Int, NEW b \in Int, a <= b + 1
    PROVE  /\ Span(a, b) \in Seq(Int) /\ Len(Span(a, b)) = b - a + 1
           /\ \A i \in 1..(b - a + 1) : Span(a, b)[i] = a + i - 1
           /\ a <= b => Head(Span(a, b)) = a
<1>1. PICK n \in Nat : n = b - a + 1
  OBVIOUS
<1>2. PICK s : s = Span(a, b)
  OBVIOUS
<1>3. s = [i \in 1..n |-> a + i - 1]
  BY <1>1, <1>2 DEF Span
<1>4. s \in Seq(Int) /\ Len(s) = n /\ \A i \in 1..n : s[i] = a + i - 1
  BY <1>3
<1>5. a <= b => Head(s) = a
  <2>1. ASSUME a <= b PROVE Head(s) = a
    <3>1. s # <<>> /\ 1 \in 1..n
      BY <1>1, <1>4, <2>1
    <3> QED BY <1>4, <3>1
  <2> QED BY <2>1
<1> QED BY <1>1, <1>2, <1>4, <1>5

\* Two spans that meet make one.
LEMMA SpanJoin ==
    ASSUME NEW a \in Int, NEW m \in Int, NEW b \in Int, a <= m, m <= b + 1
    PROVE  Span(a, m - 1) \o Span(m, b) = Span(a, b)
<1>1. PICK s, t, u : s = Span(a, m - 1) /\ t = Span(m, b) /\ u = Span(a, b)
  OBVIOUS
<1>2. PICK x \in Nat, y \in Nat : x = m - a /\ y = b - m + 1
  OBVIOUS
<1>3. /\ s \in Seq(Int) /\ Len(s) = x /\ \A i \in 1..x : s[i] = a + i - 1
      /\ t \in Seq(Int) /\ Len(t) = y /\ \A i \in 1..y : t[i] = m + i - 1
  <2>1. PICK e \in Int : e = m - 1
    OBVIOUS
  <2>2. a <= e + 1 /\ e - a + 1 = x /\ s = Span(a, e) /\ b - m + 1 = y
    BY <1>1, <1>2, <2>1
  <2>3. s \in Seq(Int) /\ Len(s) = x /\ \A i \in 1..x : s[i] = a + i - 1
    BY <2>2, SpanFacts
  <2>4. t \in Seq(Int) /\ Len(t) = y /\ \A i \in 1..y : t[i] = m + i - 1
    BY <1>1, <2>2, SpanFacts
  <2> QED BY <2>3, <2>4
<1>4. u \in Seq(Int) /\ Len(u) = x + y /\ \A i \in 1..(x + y) : u[i] = a + i - 1
  <2>1. a <= b + 1 /\ b - a + 1 = x + y
    BY <1>2
  <2> QED BY <1>1, <2>1, SpanFacts
<1>5. /\ s \o t \in Seq(Int) /\ Len(s \o t) = x + y
      /\ \A i \in 1..(x + y) : (s \o t)[i] = IF i <= x THEN s[i] ELSE t[i - x]
  BY <1>3, ConcatProperties
<1>6. ASSUME NEW i \in 1..(x + y) PROVE (s \o t)[i] = u[i]
  <2>1. CASE i <= x
    BY <1>3, <1>4, <1>5, <2>1
  <2>2. CASE ~(i <= x)
    <3>1. i - x \in 1..y /\ m + (i - x) - 1 = a + i - 1
      BY <1>2, <2>2
    <3>2. t[i - x] = m + (i - x) - 1
      BY <1>3, <3>1
    <3> QED BY <1>4, <1>5, <2>2, <3>1, <3>2
  <2> QED BY <2>1, <2>2
<1>7. s \o t = u
  BY <1>4, <1>5, <1>6, SeqEqual
<1> QED BY <1>1, <1>7

\* An interval in order is a span.
LEMMA InOrderLemma ==
    ASSUME NEW a \in Int, NEW b \in Int, a <= b + 1
    PROVE  InOrder(a..b) = Span(a, b)
<1>1. PICK S : S = a..b
  OBVIOUS
<1>2. Cardinality(S) = b - a + 1
  BY <1>1, FS_Interval
<1>3. ASSUME NEW k \in S PROVE Cardinality({j \in S : j < k}) = k - a
  <2>1. k \in Int /\ a <= k /\ k <= b
    BY <1>1
  <2>2. {j \in S : j < k} = a..(k - 1)
    BY <1>1, <2>1
  <2>3. PICK e \in Int : e = k - 1
    BY <2>1
  <2>4. Cardinality(a..e) = IF a > e THEN 0 ELSE e - a + 1
    BY FS_Interval
  <2>5. Cardinality(a..e) = k - a
    BY <2>1, <2>3, <2>4
  <2> QED BY <2>2, <2>3, <2>5
<1>4. ASSUME NEW n \in 1..(b - a + 1)
      PROVE  (CHOOSE k \in S : Cardinality({j \in S : j < k}) = n - 1) = a + n - 1
  <2>1. \A k \in S : Cardinality({j \in S : j < k}) = n - 1 <=> k = a + n - 1
    <3>1. \A k \in S : k - a = n - 1 <=> k = a + n - 1
      BY <1>1
    <3> QED BY <1>3, <3>1
  <2>2. a + n - 1 \in S
    BY <1>1
  <2> QED BY <2>1, <2>2
<1>5. InOrder(S) = [n \in 1..(b - a + 1) |->
                       CHOOSE k \in S : Cardinality({j \in S : j < k}) = n - 1]
  BY <1>2 DEF InOrder
<1>6. InOrder(S) = [n \in 1..(b - a + 1) |-> a + n - 1]
  BY <1>4, <1>5
<1> QED BY <1>1, <1>6 DEF Span

\* The messages before a cursor are those with a smaller number: within a turn the
\* question comes before the reply.
LEMMA BeforeLemma ==
    ASSUME NEW k \in Nat, NEW cursor \in Nat \ {0}
    PROVE  IsBefore(k, cursor) <=> k < cursor
<1>1. PICK q \in Int, x \in 0..1 : q = CreatedAt(k) /\ x = RoleOrder(k) /\ k + 1 = 2 * q + x
  BY DEF CreatedAt, RoleOrder
<1>2. PICK p \in Int, y \in 0..1 :
          p = CreatedAt(cursor) /\ y = RoleOrder(cursor) /\ cursor + 1 = 2 * p + y
  BY DEF CreatedAt, RoleOrder
<1>3. q < p \/ (q = p /\ x < y) <=> k < cursor
  BY <1>1, <1>2
<1> QED BY <1>1, <1>2, <1>3 DEF IsBefore

\* A page ends right before its cursor, and says whether it begins at the first message.
LEMMA PageLemma ==
    ASSUME NEW c, Len(history[c]) \in Nat, NEW cursor \in 0..(2 * Len(history[c])),
           NEW top \in Nat, top = IF cursor = 0 THEN 2 * Len(history[c]) ELSE cursor - 1
    PROVE  \E a \in 1..(top + 1) : /\ Page(c, cursor).items = Span(a, top)
                                   /\ Page(c, cursor).more <=> a > 1
                                   /\ a > 1 => a <= top
<1> DEFINE rows == {k \in MessagesOf(c) : IsBefore(k, cursor)}
           kept == {k \in rows : Cardinality({j \in rows : j > k}) < Limit}
<1>1. Limit \in Nat /\ Limit > 0
  BY BoundAssumption
<1>2. rows = 1..top
  <2>1. CASE cursor = 0
    BY <2>1 DEF IsBefore, MessagesOf
  <2>2. CASE cursor # 0
    <3>1. \A k \in MessagesOf(c) : IsBefore(k, cursor) <=> k < cursor
      BY <2>2, BeforeLemma DEF MessagesOf
    <3> QED BY <2>2, <3>1 DEF MessagesOf
  <2> QED BY <2>1, <2>2
<1>3. PICK a \in 1..(top + 1) : a = IF top >= Limit THEN top - Limit + 1 ELSE 1
  <2>1. CASE top >= Limit
    <3>1. top - Limit + 1 \in 1..(top + 1)
      BY <1>1, <2>1
    <3> QED BY <2>1, <3>1
  <2>2. CASE ~(top >= Limit)
    <3>1. 1 \in 1..(top + 1)
      OBVIOUS
    <3> QED BY <2>2, <3>1
  <2> QED BY <2>1, <2>2
<1>4. ASSUME NEW k \in 1..top PROVE Cardinality({j \in rows : j > k}) = top - k
  <2>1. {j \in rows : j > k} = (k + 1)..top
    BY <1>2
  <2>2. PICK e \in Int, t \in Int : e = k + 1 /\ e <= top + 1 /\ t = top
    OBVIOUS
  <2>3. Cardinality(e..t) = IF e > t THEN 0 ELSE t - e + 1
    BY FS_Interval
  <2>4. Cardinality(e..t) = top - k
    BY <2>2, <2>3
  <2> QED BY <2>1, <2>2, <2>4
<1>5. kept = a..top
  <2>1. \A k \in 1..top : top - k < Limit <=> k >= a
    BY <1>1, <1>3
  <2> QED BY <1>2, <1>3, <1>4, <2>1
<1>6. /\ Page(c, cursor).items = InOrder(kept)
      /\ Page(c, cursor).more <=> kept # rows
  BY DEF Page
<1> HIDE DEF rows, kept
<1>7. kept # rows <=> a > 1
  BY <1>2, <1>3, <1>5
<1>8. a > 1 => a <= top
  BY <1>1, <1>3
<1>9. InOrder(kept) = Span(a, top)
  BY <1>5, InOrderLemma
<1> QED BY <1>6, <1>7, <1>8, <1>9

\* What the client has read: all messages from its cursor to the end there was.
Read == LET low == IF pager.cursor = 0 THEN 1 ELSE pager.cursor
        IN  pager.seen = Span(low, pager.end)

PagerInv ==
    /\ pager \in [conv : Convs \cup {"none"}, cursor : Nat, end : Nat, seen : Seq(Int)]
    /\ pager.conv # "none" => pager.cursor <= pager.end /\ Read

\* The next page goes before what was read, whatever was added meanwhile.
LEMMA PagerStep ==
    ASSUME PagerInv, \A c \in Convs : Len(history[c]) \in Nat, [Next]_vars
    PROVE  PagerInv'
<1>1. NoPager \in [conv : Convs \cup {"none"}, cursor : Nat, end : Nat, seen : Seq(Int)]
      /\ NoPager.conv = "none"
  BY DEF NoPager
<1>2. CASE pager' = NoPager
  BY <1>1, <1>2 DEF PagerInv, Read
<1>3. CASE pager' = pager
  BY <1>3 DEF PagerInv, Read
<1>4. ASSUME NEW c \in Convs, FirstPage(c) PROVE PagerInv'
  <2>1. PICK n \in Nat : n = 2 * Len(history[c]) /\ n > 0
    BY <1>4 DEF FirstPage, MessagesOf
  <2>2. PICK a \in 1..(n + 1) : /\ Page(c, 0).items = Span(a, n)
                                /\ Page(c, 0).more <=> a > 1
                                /\ a > 1 => a <= n
    BY <2>1, PageLemma
  <2>3. /\ Span(a, n) \in Seq(Int)
        /\ a <= n => Head(Span(a, n)) = a
    BY SpanFacts
  <2>4. PICK low \in Nat : low = IF a > 1 THEN a ELSE 0
    OBVIOUS
  <2>5. pager' = [conv |-> c, cursor |-> low, end |-> n, seen |-> Span(a, n)]
    BY <1>4, <2>1, <2>2, <2>3, <2>4 DEF FirstPage
  <2>6. low <= n /\ a = IF low = 0 THEN 1 ELSE low
    BY <2>1, <2>2, <2>4
  <2> QED BY <2>3, <2>5, <2>6 DEF PagerInv, Read
<1>5. CASE OlderPage /\ pager' # NoPager
  <2>1. PICK c \in Convs, k \in Nat, end \in Nat :
            /\ c = pager.conv /\ k = pager.cursor /\ end = pager.end
            /\ k # 0 /\ k <= end /\ pager.seen = Span(k, end) /\ k \in MessagesOf(c)
    BY <1>5 DEF OlderPage, PagerInv, Read
  <2>2. PICK n \in Nat, top \in Nat : n = Len(history[c]) /\ top = k - 1 /\ k \in 0..(2 * n)
    BY <2>1 DEF MessagesOf
  <2>3. PICK a \in 1..(top + 1) : /\ Page(c, k).items = Span(a, top)
                                  /\ Page(c, k).more <=> a > 1
                                  /\ a > 1 => a <= top
    <3>1. Len(history[c]) \in Nat /\ k \in 0..(2 * Len(history[c]))
      BY <2>2
    <3>2. top = IF k = 0 THEN 2 * Len(history[c]) ELSE k - 1
      BY <2>1, <2>2
    <3> QED BY <3>1, <3>2, PageLemma
  <2>4. a <= top => Head(Span(a, top)) = a
    BY SpanFacts
  <2>5. Span(a, top) \o Span(k, end) = Span(a, end) /\ Span(a, end) \in Seq(Int)
    <3>1. PICK x \in Int, y \in Int, z \in Int : x = a /\ y = k /\ z = end
      OBVIOUS
    <3>2. x <= y /\ y <= z + 1 /\ x <= z + 1 /\ y - 1 = top
      BY <2>1, <2>2, <3>1
    <3>3. Span(x, y - 1) \o Span(y, z) = Span(x, z)
      BY <3>2, SpanJoin
    <3>4. Span(x, z) \in Seq(Int)
      BY <3>2, SpanFacts
    <3> QED BY <3>1, <3>2, <3>3, <3>4
  <2>6. PICK low \in Nat : low = IF a > 1 THEN a ELSE 0
    OBVIOUS
  <2>7. pager' = [pager EXCEPT !.cursor = low, !.seen = Span(a, end)]
    BY <1>5, <2>1, <2>3, <2>4, <2>5, <2>6 DEF OlderPage
  <2>8. /\ pager'.conv = c /\ pager'.cursor = low /\ pager'.end = end
        /\ pager'.seen = Span(a, end)
        /\ pager' \in [conv : Convs \cup {"none"}, cursor : Nat, end : Nat, seen : Seq(Int)]
    BY <2>1, <2>5, <2>7 DEF PagerInv
  <2>9. low <= end /\ a = IF low = 0 THEN 1 ELSE low
    BY <2>1, <2>2, <2>3, <2>6
  <2> QED BY <2>8, <2>9 DEF PagerInv, Read
<1>6. CASE OlderPage \/ ClosePager
  BY <1>2, <1>5, <1>6 DEF ClosePager
<1>7. CASE UNCHANGED vars
  BY <1>3, <1>7 DEF vars
<1>8. ASSUME NEW c \in Convs, CreateConversation(c) \/ UpdateTitle(c) \/ DeleteConversation(c)
      PROVE  pager' = pager
  BY <1>8 DEF CreateConversation, UpdateTitle, DeleteConversation
<1>9. ASSUME NEW c \in Convs, NEW m \in Messages, NEW reply \in 0..MaxRuns, CreateRun(c, m, reply)
      PROVE  pager' = pager
  BY <1>9 DEF CreateRun
<1>10. ASSUME NEW r \in RunIds, Start(r) \/ Fail(r) \/ Cancel(r) PROVE pager' = pager
  BY <1>10 DEF Start, Fail, Cancel
<1>11. ASSUME NEW r \in RunIds, NEW report, NEW asks, Finalize(r, report, asks)
       PROVE  pager' = pager
  BY <1>11 DEF Finalize
<1>12. ASSUME NEW a, NEW trashed, SetTrashed(a, trashed) PROVE pager' = pager
  BY <1>12 DEF SetTrashed
<1> QED BY <1>3, <1>4, <1>6, <1>7, <1>8, <1>9, <1>10, <1>11, <1>12 DEF Next

\* A client that has paged back to the start has every message there was when it
\* opened the conversation, once and in order, for every page size: the cursor of
\* list_messages is compared by created_at and role (postgres_conversation_repository.py).
THEOREM PagingMissesNothing == Spec => []PagesAreComplete
<1>1. Init => PagerInv
  BY DEF Init, PagerInv, NoPager
<1>2. Inv /\ PagerInv /\ [Next]_vars => PagerInv'
  <2> SUFFICES ASSUME Inv, PagerInv, [Next]_vars PROVE PagerInv'
    OBVIOUS
  <2>1. \A c \in Convs : history[c] \in Seq(RunIds)
    BY TypeFacts DEF Inv
  <2>2. \A c \in Convs : Len(history[c]) \in Nat
    BY <2>1, LenProperties
  <2> QED BY <2>2, PagerStep
<1>3. PagerInv => PagesAreComplete
  <2> SUFFICES ASSUME PagerInv, pager.conv # "none"
               PROVE  /\ pager.seen = [i \in 1..Len(pager.seen) |->
                                          pager.end - Len(pager.seen) + i]
                      /\ pager.cursor = 0 => Len(pager.seen) = pager.end
    BY DEF PagesAreComplete
  <2>1. PICK low \in Int, end \in Int :
            /\ low = IF pager.cursor = 0 THEN 1 ELSE pager.cursor
            /\ end = pager.end /\ pager.seen = Span(low, end) /\ low <= end + 1
    BY DEF PagerInv, Read
  <2>2. PICK n \in Int : n = end - low + 1
    OBVIOUS
  <2>3. Len(Span(low, end)) = n
    BY <2>1, <2>2, SpanFacts
  <2>4. \A i \in 1..n : low + i - 1 = end - n + i
    BY <2>2
  <2>5. Span(low, end) = [i \in 1..n |-> end - n + i]
    BY <2>2, <2>4 DEF Span
  <2>6. pager.cursor = 0 => n = end
    BY <2>1, <2>2
  <2> QED BY <2>1, <2>3, <2>5, <2>6
<1> QED BY <1>1, <1>2, <1>3, Safety, PTL DEF Spec
=============================================================================
