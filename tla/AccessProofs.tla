---------------------------- MODULE AccessProofs ----------------------------
(***************************************************************************)
(* Which scope a run reads with and what the audit events report, for      *)
(* every set of users, roles, scopes and catalogs and any number of        *)
(* governance changes that overlap.                                        *)
(*                                                                         *)
(* A change is never rewritten, so the scope of a principal after the      *)
(* first n changes stays what it was (KeptLemma), and the stored scope is  *)
(* the one after all of them (AppendLemma).                                *)
(*                                                                         *)
(* And that all read paths give a principal the same rows, for every       *)
(* catalog and page size: the order of a list is total (OrderLemma), so    *)
(* the number of rows before a row is a place no other row has             *)
(* (RankLemma), and every place is on one page (PlaceLemma).               *)
(*                                                                         *)
(* And that their figures agree, for every catalog whose rows carry the    *)
(* figures of their amounts: a sum over the batches of a period can be     *)
(* taken part by part (ByPartLemma) and group by group (AggregateLemma),   *)
(* a weighted mean that is rounded stays between the figures it is a mean  *)
(* of (MeanLemma), and rounding each group moves a sum of groups by at     *)
(* most a half for each (RoundingLemma).                                   *)
(***************************************************************************)
EXTENDS Access, FiniteSetTheorems, TLAPS

Change == [by : Users, kind : {"roles"}, target : Users, value : RoleSets]
          \cup [by : Users, kind : {"scope"}, target : Users, value : Scopes]

HistoryOK == /\ changes \in Seq(Change)
             /\ audit \in Seq([change : Nat, what : Change])

\* Nobody is restricted who is not a member (iam_service.py: the scope of a principal
\* that is no member is refused), although the look-up and the write are two transactions.
MembersOnly == \A u \in Users : scopes[u] # NoRow => roles[u] # NoRow

FoundOK == \A u \in Users : call[u].at = "found" =>
               call[u].target \in Users /\ roles[call[u].target] # NoRow

MemberInv == TypeOK /\ FoundOK /\ MembersOnly

\* Every event and every call that still has to write one names a change that was made.
Told ==
    /\ \A u \in Users : call[u].at = "written" => call[u].change \in DOMAIN changes
    /\ \A i \in DOMAIN audit : audit[i].change \in DOMAIN changes

AuditInv == Told /\ AuditTellsWhatHappened

StoredScopes == \A u \in Users : HasScope(u, Len(changes), ScopeOf(u))
ReadyScopes == \A u \in Users : call[u].at = "ready" =>
                   call[u].change <= Len(changes) /\ HasScope(u, call[u].change, call[u].scope)

Covered(scope, reads) ==
    \A r \in reads : CostScope([caps |-> {"cost_calculation"}, scope |-> scope], r.part, r.period)

RunOK == run # NoRow =>
    /\ run = [owner |-> run.owner, roles |-> run.roles, scope |-> run.scope,
              reads |-> run.reads, since |-> run.since]
    /\ run.owner \in Users /\ run.scope \in Scopes \cup {Unrestricted}
    /\ run.since \in 0..Len(changes) /\ HasScope(run.owner, run.since, run.scope)
    /\ Covered(run.scope, run.reads)

ScopeInv == StoredScopes /\ ReadyScopes /\ RunOK

\* Nobody is authorised without a role (auth/context.py).
RolesHeld == \A u \in Users : call[u].at # "idle" => call[u].roles # {}

Inv == MemberInv /\ HistoryOK /\ AuditInv /\ ScopeInv /\ RolesHeld

-----------------------------------------------------------------------------
(* Scopes over the history of changes *)

\* The scope after the first n changes depends on these alone.
LEMMA KeptLemma ==
    ASSUME HistoryOK, \A i \in 1..Len(changes) : changes'[i] = changes[i]
    PROVE  \A v \in Users, n \in 0..Len(changes) : \A s :
               HasScope(v, n, s) => HasScope(v, n, s)'
<1> SUFFICES ASSUME NEW v \in Users, NEW n \in 0..Len(changes), NEW s, HasScope(v, n, s)
             PROVE  HasScope(v, n, s)'
  OBVIOUS
<1>1. Len(changes) \in Nat
  BY DEF HistoryOK
<1>2. \A i \in 1..n : changes'[i] = changes[i] /\ SetsScope(i, v)' = SetsScope(i, v)
  BY <1>1 DEF SetsScope
<1>3. \A i \in 1..n : i + 1..n \subseteq 1..n
  BY <1>1
<1> QED BY <1>2, <1>3 DEF HasScope

\* One more change: of a scope, it is the target's; the other scopes stay.
LEMMA AppendLemma ==
    ASSUME HistoryOK, NEW c \in Change, changes' = Append(changes, c)
    PROVE  /\ changes' \in Seq(Change) /\ Len(changes') = Len(changes) + 1
           /\ Len(changes) \in Nat
           /\ \A i \in 1..Len(changes) : changes'[i] = changes[i]
           /\ changes'[Len(changes) + 1] = c
           /\ \A v \in Users : \A s :
                 HasScope(v, Len(changes), s) /\ ~(c.kind = "scope" /\ c.target = v) =>
                     HasScope(v, Len(changes), s)'
           /\ c.kind = "scope" => HasScope(c.target, Len(changes), c.value)'
<1>1. /\ changes' \in Seq(Change) /\ Len(changes') = Len(changes) + 1
      /\ Len(changes) \in Nat
      /\ \A i \in 1..Len(changes) : changes'[i] = changes[i]
      /\ changes'[Len(changes) + 1] = c
  BY DEF HistoryOK
<1>2. PICK n \in Nat : n = Len(changes)
  BY <1>1
<1>3. \A v : SetsScope(n + 1, v)' = (c.kind = "scope" /\ c.target = v)
  BY <1>1, <1>2 DEF SetsScope
<1>4. \A i \in 1..n : \A v : SetsScope(i, v)' = SetsScope(i, v)
  BY <1>1, <1>2 DEF SetsScope
<1>5. 1..n + 1 = (1..n) \cup {n + 1} /\ n + 1 \in 1..n + 1 /\ n + 1 + 1..n + 1 = {}
      /\ \A i \in 1..n : i + 1..n + 1 = (i + 1..n) \cup {n + 1} /\ i + 1..n \subseteq 1..n
  BY <1>2
<1>6. ASSUME NEW v \in Users, NEW s, HasScope(v, n, s), ~(c.kind = "scope" /\ c.target = v)
      PROVE  HasScope(v, n + 1, s)'
  <2>1. CASE s = Unrestricted /\ \A i \in 1..n : ~SetsScope(i, v)
    BY <1>3, <1>4, <1>5, <1>6, <2>1 DEF HasScope
  <2>2. CASE \E i \in 1..n : /\ SetsScope(i, v) /\ changes[i].value = s
                             /\ \A j \in i + 1..n : ~SetsScope(j, v)
    <3>1. PICK i \in 1..n : /\ SetsScope(i, v) /\ changes[i].value = s
                            /\ \A j \in i + 1..n : ~SetsScope(j, v)
      BY <2>2
    <3>2. i \in 1..n + 1 /\ SetsScope(i, v)' /\ changes'[i].value = s
      BY <1>1, <1>2, <1>4, <1>5, <3>1
    <3>3. \A j \in i + 1..n + 1 : ~SetsScope(j, v)'
      <4>1. ASSUME NEW j \in i + 1..n + 1 PROVE ~SetsScope(j, v)'
        <5>1. CASE j = n + 1
          BY <1>3, <1>6, <5>1
        <5>2. CASE j # n + 1
          <6>1. j \in i + 1..n /\ j \in 1..n
            BY <5>2
          <6> QED BY <1>4, <3>1, <6>1
        <5> QED BY <5>1, <5>2
      <4> QED BY <4>1
    <3> QED BY <3>2, <3>3 DEF HasScope
  <2> QED BY <1>6, <2>1, <2>2 DEF HasScope
<1>7. ASSUME c.kind = "scope" PROVE HasScope(c.target, n + 1, c.value)'
  BY <1>1, <1>2, <1>3, <1>5, <1>7 DEF HasScope
<1>8. \A v, s : HasScope(v, Len(changes), s) <=> HasScope(v, n, s)
  BY <1>2
<1>9. \A v, s : HasScope(v, Len(changes), s)' <=> HasScope(v, n + 1, s)'
  BY <1>1, <1>2
<1> QED BY <1>1, <1>6, <1>7, <1>8, <1>9

-----------------------------------------------------------------------------
(* Members, roles and types *)

\* The call that made a change goes on to report it.
LEMMA ChangedLemma ==
    ASSUME MemberInv, HistoryOK, NEW u \in Users, NEW kind, NEW target, NEW value,
           Changed(u, kind, target, value)
    PROVE  /\ call'[u] \in Call /\ call'[u].at = "written"
           /\ call'[u].change = Len(changes) + 1
           /\ \A v \in Users \ {u} : call'[v] = call[v]
           /\ call' \in [Users -> Call]
           /\ Len(changes') <= MaxChanges
           /\ changes' = Append(changes, [by |-> u, kind |-> kind, target |-> target,
                                          value |-> value])
<1>1. Len(changes) \in Nat /\ call \in [Users -> Call] /\ call[u] \in Call
  BY DEF HistoryOK, MemberInv, TypeOK
<1>2. /\ changes' = Append(changes, [by |-> u, kind |-> kind, target |-> target, value |-> value])
      /\ call' = [call EXCEPT ![u].at = "written", ![u].change = Len(changes) + 1]
      /\ Len(changes) < MaxChanges
  BY DEF Changed
<1>3. Len(changes') = Len(changes) + 1
  BY <1>2 DEF HistoryOK
<1>4. call'[u] = [call[u] EXCEPT !.at = "written", !.change = Len(changes) + 1]
  BY <1>1, <1>2
<1>5. call'[u] \in Call /\ call'[u].at = "written" /\ call'[u].change = Len(changes) + 1
  <2> DEFINE n == Len(changes) + 1
  <2>1. n \in Nat /\ call'[u] = [call[u] EXCEPT !.at = "written", !.change = n]
    BY <1>1, <1>4
  <2> HIDE DEF n
  <2>2. call'[u] \in Call /\ call'[u].at = "written" /\ call'[u].change = n
    BY <1>1, <2>1 DEF Call
  <2> QED BY <2>2 DEF n
<1>6. \A v \in Users \ {u} : call'[v] = call[v]
  BY <1>1, <1>2
<1>7. call' \in [Users -> Call]
  BY <1>1, <1>2, <1>5, <1>6
<1>8. Len(changes') <= MaxChanges
  BY <1>1, <1>2, <1>3, BoundAssumption
<1> QED BY <1>2, <1>5, <1>6, <1>7, <1>8

\* Every step of a request or of a run keeps types; only members are restricted.
LEMMA MemberStep ==
    ASSUME MemberInv, HistoryOK, [Next]_vars
    PROVE  MemberInv'
<1>1. Len(changes) \in Nat
  BY DEF HistoryOK
<1>2. \A u \in Users : call[u] \in Call
  BY DEF MemberInv, TypeOK
<1>3. ASSUME NEW u \in Users, Authenticate(u) PROVE MemberInv'
  <2>1. Claims[u] \cap roles[u] \in SUBSET RoleId
    BY RoleAssumption
  <2>2. call'[u] \in Call /\ call'[u].at = "member" /\ \A v \in Users \ {u} : call'[v] = call[v]
    BY <1>2, <1>3, <2>1 DEF Authenticate, MemberInv, TypeOK, Call
  <2> QED BY <1>3, <2>2 DEF Authenticate, MemberInv, TypeOK, FoundOK, MembersOnly
<1>4. ASSUME NEW u \in Users, ReadScope(u) PROVE MemberInv'
  <2>1. call'[u] \in Call /\ call'[u].at = "ready" /\ \A v \in Users \ {u} : call'[v] = call[v]
    BY <1>1, <1>2, <1>4 DEF ReadScope, ScopeOf, MemberInv, TypeOK, Call
  <2> QED BY <1>4, <2>1 DEF ReadScope, MemberInv, TypeOK, FoundOK, MembersOnly
<1>5. NoCall \in Call /\ NoCall.at = "idle"
  BY DEF NoCall, Call
<1>6. ASSUME NEW u \in Users, call' = [call EXCEPT ![u] = NoCall],
             UNCHANGED <<roles, scopes, cat, server, changes>>
      PROVE  MemberInv'
  <2>1. call'[u] = NoCall /\ \A v \in Users \ {u} : call'[v] = call[v]
    BY <1>6 DEF MemberInv, TypeOK
  <2> QED BY <1>5, <1>6, <2>1 DEF MemberInv, TypeOK, FoundOK, MembersOnly
<1>7. ASSUME NEW u \in Users, NEW target \in Users, NEW held \in RoleSets, SetRoles(u, target, held)
      PROVE  MemberInv'
  <2>1. held \in SUBSET RoleId /\ held # NoRow
    BY RoleAssumption
  <2>2. /\ \A v \in Users : roles'[v] = IF v = target THEN held ELSE roles[v]
        /\ roles' \in [Users -> (SUBSET RoleId) \cup {NoRow}]
    BY <1>7, <2>1 DEF SetRoles, MemberInv, TypeOK
  <2>3. /\ call'[u].at = "written" /\ \A v \in Users \ {u} : call'[v] = call[v]
        /\ call' \in [Users -> Call] /\ Len(changes') <= MaxChanges
    BY <1>7, ChangedLemma DEF SetRoles
  <2>4. FoundOK'
    BY <2>1, <2>2, <2>3 DEF MemberInv, FoundOK
  <2>5. MembersOnly'
    BY <1>7, <2>1, <2>2 DEF SetRoles, MemberInv, MembersOnly
  <2> QED BY <1>7, <2>2, <2>3, <2>4, <2>5 DEF SetRoles, MemberInv, TypeOK
<1>8. ASSUME NEW u \in Users, NEW target \in Users, FindTarget(u, target) PROVE MemberInv'
  <2>1. /\ call'[u] \in Call /\ call'[u].target = target /\ roles[target] # NoRow
        /\ \A v \in Users \ {u} : call'[v] = call[v]
    BY <1>2, <1>8 DEF FindTarget, MemberInv, TypeOK, Call
  <2> QED BY <1>8, <2>1 DEF FindTarget, MemberInv, TypeOK, FoundOK, MembersOnly
<1>9. ASSUME NEW u \in Users, NEW scope \in Scopes, SetScope(u, scope) PROVE MemberInv'
  <2>1. PICK t \in Users : t = call[u].target /\ roles[t] # NoRow
    BY <1>9 DEF SetScope, MemberInv, FoundOK
  <2>2. /\ \A v \in Users : scopes'[v] = IF v = t THEN scope ELSE scopes[v]
        /\ scopes' \in [Users -> Scopes \cup {NoRow}]
    BY <1>9, <2>1 DEF SetScope, MemberInv, TypeOK
  <2>3. /\ call'[u].at = "written" /\ \A v \in Users \ {u} : call'[v] = call[v]
        /\ call' \in [Users -> Call] /\ Len(changes') <= MaxChanges
    BY <1>9, ChangedLemma DEF SetScope
  <2>4. FoundOK'
    BY <1>9, <2>3 DEF SetScope, MemberInv, FoundOK
  <2>5. MembersOnly'
    BY <1>9, <2>1, <2>2 DEF SetScope, MemberInv, MembersOnly
  <2> QED BY <1>9, <2>2, <2>3, <2>4, <2>5 DEF SetScope, MemberInv, TypeOK
<1>10. CASE UNCHANGED <<roles, scopes, server, call, changes>> /\ cat' \in Catalogs
  BY <1>10 DEF MemberInv, TypeOK, FoundOK, MembersOnly
<1> QED BY <1>3, <1>4, <1>6, <1>7, <1>8, <1>9, <1>10
        DEF Next, Answer, SubmitRun, AppendAudit, Abort, RunReads, EndRun, Publish, vars,
            MemberInv, TypeOK

-----------------------------------------------------------------------------
(* Changes and the events that report them *)

\* A change is new, and only its own call may report it.
LEMMA ChangeStep ==
    ASSUME MemberInv, HistoryOK, AuditInv, NEW u \in Users, NEW kind, NEW target, NEW value,
           [by |-> u, kind |-> kind, target |-> target, value |-> value] \in Change,
           Changed(u, kind, target, value), audit' = audit
    PROVE  HistoryOK' /\ AuditInv'
<1> DEFINE c == [by |-> u, kind |-> kind, target |-> target, value |-> value]
<1>1. PICK n \in Nat : n = Len(changes)
  BY DEF HistoryOK
<1>2. /\ changes' \in Seq(Change) /\ Len(changes') = n + 1
      /\ \A i \in 1..n : changes'[i] = changes[i]
      /\ changes'[n + 1] = c
  BY <1>1, AppendLemma, ChangedLemma
<1>3. /\ call'[u].at = "written" /\ call'[u].change = n + 1
      /\ \A v \in Users \ {u} : call'[v] = call[v]
  BY <1>1, ChangedLemma
<1>4. DOMAIN changes = 1..n /\ DOMAIN changes' = 1..n + 1
  BY <1>1, <1>2 DEF HistoryOK
<1>5. \A i \in DOMAIN audit : audit[i].change \in 1..n
  BY <1>4 DEF AuditInv, Told
<1>6. HistoryOK'
  BY <1>2 DEF HistoryOK
<1>7. Told'
  BY <1>3, <1>4 DEF AuditInv, Told
<1>8. \A i \in DOMAIN audit : audit[i].what = changes'[audit[i].change]
  BY <1>2, <1>5 DEF AuditInv, AuditTellsWhatHappened
<1>9. changes'[call'[u].change].by = u /\ \A i \in DOMAIN audit : audit[i].change # call'[u].change
  BY <1>2, <1>3, <1>5
<1>10. ASSUME NEW v \in Users \ {u}, call[v].at = "written"
       PROVE  /\ changes'[call[v].change].by = v
              /\ \A i \in DOMAIN audit : audit[i].change # call[v].change
  BY <1>2, <1>4, <1>10 DEF AuditInv, Told, AuditTellsWhatHappened
<1>11. AuditTellsWhatHappened'
  BY <1>3, <1>8, <1>9, <1>10 DEF AuditInv, AuditTellsWhatHappened
<1> QED BY <1>6, <1>7, <1>11 DEF AuditInv

\* The event reports the call's own change, and none has done so before.
LEMMA EventStep ==
    ASSUME MemberInv, HistoryOK, AuditInv, NEW u \in Users, AppendAudit(u)
    PROVE  HistoryOK' /\ AuditInv'
<1>1. PICK n \in Nat, m \in Nat : n = call[u].change /\ m = Len(audit)
  BY DEF MemberInv, TypeOK, Call, HistoryOK
<1>2. n \in DOMAIN changes /\ changes[n] \in Change /\ changes' = changes
  BY <1>1 DEF AppendAudit, AuditInv, Told, HistoryOK
<1>3. audit' = Append(audit, [change |-> n, what |-> changes[n]])
  BY <1>1 DEF AppendAudit
<1>4. [change |-> n, what |-> changes[n]] \in [change : Nat, what : Change]
  BY <1>2
<1>5. /\ audit' \in Seq([change : Nat, what : Change])
      /\ DOMAIN audit = 1..m /\ DOMAIN audit' = 1..m + 1
      /\ \A i \in 1..m : audit'[i] = audit[i]
      /\ audit'[m + 1] = [change |-> n, what |-> changes[n]]
  BY <1>1, <1>3, <1>4 DEF HistoryOK
<1>6. call'[u].at = "idle" /\ \A v \in Users \ {u} : call'[v] = call[v]
  BY DEF AppendAudit, NoCall, MemberInv, TypeOK
<1>7. ASSUME NEW v \in Users \ {u}, call[v].at = "written" PROVE call[v].change # n
  BY <1>1, <1>7 DEF AppendAudit, AuditInv, AuditTellsWhatHappened
<1>8. \A i \in 1..m : audit[i].change # n
  BY <1>1, <1>5 DEF AppendAudit, AuditInv, AuditTellsWhatHappened
<1>9. Told'
  BY <1>2, <1>5, <1>6 DEF AuditInv, Told
<1>10. AuditTellsWhatHappened'
  <2>1. \A i \in 1..m + 1 : i \in 1..m \/ i = m + 1
    OBVIOUS
  <2>2. \A i \in 1..m : audit[i].what = changes[audit[i].change]
        /\ \A j \in 1..m : i # j => audit[i].change # audit[j].change
    BY <1>5 DEF AuditInv, AuditTellsWhatHappened
  <2>3. \A i \in DOMAIN audit' : audit'[i].what = changes'[audit'[i].change]
    BY <1>2, <1>5, <2>1, <2>2
  <2>4. \A i, j \in DOMAIN audit' : i # j => audit'[i].change # audit'[j].change
    BY <1>5, <1>8, <2>1, <2>2
  <2>5. ASSUME NEW v \in Users, call'[v].at = "written"
        PROVE  /\ changes'[call'[v].change].by = v
               /\ \A i \in DOMAIN audit' : audit'[i].change # call'[v].change
    <3>1. v # u /\ call'[v] = call[v] /\ call[v].change # n
      BY <1>6, <1>7, <2>5
    <3>2. changes[call[v].change].by = v /\ \A i \in 1..m : audit[i].change # call[v].change
      BY <1>5, <2>5, <3>1 DEF AuditInv, AuditTellsWhatHappened
    <3> QED BY <1>2, <1>5, <2>1, <3>1, <3>2
  <2> QED BY <2>3, <2>4, <2>5 DEF AuditTellsWhatHappened
<1> QED BY <1>2, <1>5, <1>9, <1>10 DEF HistoryOK, AuditInv

\* The change a step makes has its type.
LEMMA ChangeType ==
    /\ \A u, target \in Users, held \in RoleSets :
          [by |-> u, kind |-> "roles", target |-> target, value |-> held] \in Change
    /\ \A u, target \in Users, scope \in Scopes :
          [by |-> u, kind |-> "scope", target |-> target, value |-> scope] \in Change
  BY DEF Change

\* Every step keeps the history and its events.
LEMMA AuditStep ==
    ASSUME MemberInv, HistoryOK, AuditInv, [Next]_vars
    PROVE  HistoryOK' /\ AuditInv'
<1>1. ASSUME NEW u \in Users, NEW target \in Users, NEW held \in RoleSets, SetRoles(u, target, held)
      PROVE  HistoryOK' /\ AuditInv'
  BY <1>1, ChangeStep, ChangeType DEF SetRoles
<1>2. ASSUME NEW u \in Users, NEW scope \in Scopes, SetScope(u, scope) PROVE HistoryOK' /\ AuditInv'
  <2>1. PICK t \in Users : t = call[u].target
    BY <1>2 DEF SetScope, MemberInv, FoundOK
  <2> QED BY <1>2, <2>1, ChangeStep, ChangeType DEF SetScope
<1>3. ASSUME UNCHANGED <<changes, audit>>,
             \A u \in Users : call'[u].at = "written" => call'[u] = call[u]
      PROVE  HistoryOK' /\ AuditInv'
  <2>1. HistoryOK' /\ Told'
    BY <1>3 DEF HistoryOK, AuditInv, Told
  <2>2. AuditTellsWhatHappened'
    BY <1>3 DEF AuditInv, AuditTellsWhatHappened
  <2> QED BY <2>1, <2>2 DEF AuditInv
<1>4. ASSUME NEW u \in Users,
             Authenticate(u) \/ ReadScope(u) \/ Answer(u) \/ SubmitRun(u) \/ Abort(u)
               \/ \E target \in Users : FindTarget(u, target)
      PROVE  /\ UNCHANGED <<changes, audit>>
             /\ \A v \in Users : call'[v].at = "written" => call'[v] = call[v]
  BY <1>4 DEF Authenticate, ReadScope, Answer, SubmitRun, Abort, FindTarget, NoCall,
              MemberInv, TypeOK, Call
<1>5. CASE UNCHANGED <<call, changes, audit>>
  BY <1>3, <1>5
<1> QED BY <1>1, <1>2, <1>3, <1>4, <1>5, EventStep DEF Next, RunReads, EndRun, Publish, vars

-----------------------------------------------------------------------------
(* Scopes of principals, requests and the run *)

\* What is stored and frozen names a past state of the history, which is not rewritten.
LEMMA FrameLemma ==
    ASSUME MemberInv, HistoryOK, ScopeInv, Len(changes) <= Len(changes'), Len(changes') \in Nat,
           \A i \in 1..Len(changes) : changes'[i] = changes[i]
    PROVE  /\ (\A u \in Users : call'[u].at = "ready" => call'[u] = call[u]) => ReadyScopes'
           /\ run' = run => RunOK'
<1>1. \A v \in Users, n \in 0..Len(changes) : \A s : HasScope(v, n, s) => HasScope(v, n, s)'
  BY KeptLemma
<1>2. ASSUME NEW u \in Users, call'[u].at = "ready", call'[u] = call[u]
      PROVE  call'[u].change <= Len(changes') /\ HasScope(u, call[u].change, call[u].scope)'
  <2>1. PICK n, s : n \in Nat /\ n = call[u].change /\ s = call[u].scope
    BY DEF MemberInv, TypeOK, Call
  <2>2. n \in 0..Len(changes) /\ HasScope(u, n, s)
    BY <1>2, <2>1 DEF ScopeInv, ReadyScopes, HistoryOK
  <2> QED BY <1>1, <1>2, <2>1, <2>2 DEF HistoryOK
<1>3. ASSUME run' = run, run # NoRow PROVE HasScope(run.owner, run.since, run.scope)'
                                           /\ run.since \in 0..Len(changes')
  <2>1. PICK u, n, s :
            u \in Users /\ n \in 0..Len(changes) /\ u = run.owner /\ n = run.since /\ s = run.scope /\ HasScope(u, n, s)
    BY <1>3 DEF ScopeInv, RunOK
  <2> QED BY <1>1, <1>3, <2>1 DEF HistoryOK
<1> QED BY <1>2, <1>3 DEF ScopeInv, ReadyScopes, RunOK

\* A change of a scope makes it the stored one of its target; one of roles makes none.
LEMMA StoredStep ==
    ASSUME MemberInv, HistoryOK, ScopeInv, NEW u \in Users, NEW kind, NEW target \in Users, NEW value,
           [by |-> u, kind |-> kind, target |-> target, value |-> value] \in Change,
           Changed(u, kind, target, value), run' = run,
           \A v \in Users : scopes'[v] = IF kind = "scope" /\ v = target THEN value ELSE scopes[v]
    PROVE  ScopeInv'
<1> DEFINE c == [by |-> u, kind |-> kind, target |-> target, value |-> value]
<1>1. /\ changes' = Append(changes, c) /\ call'[u].at = "written"
      /\ \A v \in Users \ {u} : call'[v] = call[v]
  BY ChangedLemma
<1>2. /\ Len(changes') = Len(changes) + 1 /\ Len(changes) \in Nat
      /\ \A i \in 1..Len(changes) : changes'[i] = changes[i]
      /\ \A v \in Users : \A s : HasScope(v, Len(changes), s) /\ ~(kind = "scope" /\ target = v) =>
                                 HasScope(v, Len(changes), s)'
      /\ kind = "scope" => HasScope(target, Len(changes), value)'
  BY <1>1, AppendLemma
<1>3. ReadyScopes' /\ RunOK'
  BY <1>1, <1>2, FrameLemma
<1>4. ASSUME NEW v \in Users PROVE HasScope(v, Len(changes), ScopeOf(v))'
  <2>1. CASE kind = "scope" /\ target = v
    <3>1. value # NoRow /\ scopes'[v] = value
      BY <2>1, ScopeAssumption DEF Change
    <3>2. ScopeOf(v)' = value
      BY <3>1 DEF ScopeOf
    <3> QED BY <1>2, <2>1, <3>2
  <2>2. CASE ~(kind = "scope" /\ target = v)
    <3>1. PICK s : s = ScopeOf(v) /\ HasScope(v, Len(changes), s)
      BY DEF ScopeInv, StoredScopes
    <3>2. ScopeOf(v)' = s
      BY <2>2, <3>1 DEF ScopeOf
    <3> QED BY <1>2, <2>2, <3>1, <3>2
  <2> QED BY <2>1, <2>2
<1> QED BY <1>3, <1>4 DEF ScopeInv, StoredScopes

\* What a tool of the run answers with is in the scope it checks.
LEMMA ToolLemma ==
    ASSUME NEW ctx, NEW part, NEW period, NEW r \in ToolRows(ctx, part, period)
    PROVE  CostScope([caps |-> {"cost_calculation"}, scope |-> ctx.scope], r.part, r.period)
<1>1. r \in PartPeriod(ctx, part, period)
  BY DEF ToolRows
<1>2. CostScope(ctx, part, period) /\ r.part = part /\ r.period = period
  BY <1>1 DEF PartPeriod
<1> QED BY <1>2 DEF CostScope, PartAllowed, PeriodAllowed

\* Every step keeps the scopes and what the run has read within its own.
LEMMA ScopeStep ==
    ASSUME MemberInv, HistoryOK, ScopeInv, [Next]_vars
    PROVE  ScopeInv'
<1>1. ASSUME NEW u \in Users, NEW target \in Users, NEW held \in RoleSets, SetRoles(u, target, held)
      PROVE  ScopeInv'
  <2>1. /\ Changed(u, "roles", target, held) /\ run' = run
        /\ [by |-> u, kind |-> "roles", target |-> target, value |-> held] \in Change
        /\ \A v \in Users :
              scopes'[v] = IF "roles" = "scope" /\ v = target THEN held ELSE scopes[v]
    BY <1>1, ChangeType DEF SetRoles
  <2> QED BY <2>1, StoredStep
<1>2. ASSUME NEW u \in Users, NEW scope \in Scopes, SetScope(u, scope) PROVE ScopeInv'
  <2>1. PICK t \in Users : t = call[u].target
    BY <1>2 DEF SetScope, MemberInv, FoundOK
  <2>2. /\ Changed(u, "scope", t, scope) /\ run' = run
        /\ [by |-> u, kind |-> "scope", target |-> t, value |-> scope] \in Change
    BY <1>2, <2>1, ChangeType DEF SetScope
  <2>3. \A v \in Users :
            scopes'[v] = IF "scope" = "scope" /\ v = t THEN scope ELSE scopes[v]
    BY <1>2, <2>1 DEF SetScope, MemberInv, TypeOK
  <2> QED BY <2>2, <2>3, StoredStep
<1>3. ASSUME UNCHANGED <<scopes, changes>> PROVE StoredScopes'
  BY <1>3 DEF ScopeInv, StoredScopes, HasScope, SetsScope, ScopeOf
<1>4. ASSUME UNCHANGED changes
      PROVE  /\ (\A u \in Users : call'[u].at = "ready" => call'[u] = call[u]) => ReadyScopes'
             /\ run' = run => RunOK'
  BY <1>4, FrameLemma DEF HistoryOK
<1>5. ASSUME NEW u \in Users, ReadScope(u) PROVE ScopeInv'
  <2>1. PICK n, s : n \in Nat /\ n = Len(changes) /\ s = ScopeOf(u) /\ HasScope(u, n, s)
    BY DEF HistoryOK, ScopeInv, StoredScopes
  <2>2. /\ call'[u].change = n /\ call'[u].scope = s
        /\ \A v \in Users \ {u} : call'[v] = call[v]
    BY <1>5, <2>1 DEF ReadScope, MemberInv, TypeOK, Call
  <2>3. \A v \in Users : \A m, t : HasScope(v, m, t)' = HasScope(v, m, t)
    BY <1>5 DEF ReadScope, HasScope, SetsScope
  <2>4. ASSUME NEW v \in Users, call'[v].at = "ready"
        PROVE  call'[v].change <= Len(changes') /\ HasScope(v, call[v].change, call[v].scope)'
    <3>1. CASE v = u
      BY <1>5, <2>1, <2>2, <2>3, <3>1 DEF ReadScope
    <3>2. CASE v # u
      <4>1. PICK m, t : m = call[v].change /\ t = call[v].scope
        OBVIOUS
      <4>2. m <= Len(changes) /\ HasScope(v, m, t)
        BY <2>2, <2>4, <3>2, <4>1 DEF ScopeInv, ReadyScopes
      <4>3. call'[v].change = m /\ call'[v].scope = t /\ changes' = changes
        BY <1>5, <2>2, <3>2, <4>1 DEF ReadScope
      <4>4. HasScope(v, m, t)'
        BY <2>3, <4>2
      <4> QED BY <4>2, <4>3, <4>4
    <3> QED BY <3>1, <3>2
  <2> QED BY <1>3, <1>4, <1>5, <2>4 DEF ReadScope, ReadyScopes, ScopeInv
<1>6. ASSUME NEW u \in Users,
             Authenticate(u) \/ Answer(u) \/ AppendAudit(u) \/ Abort(u)
               \/ \E target \in Users : FindTarget(u, target)
      PROVE  ScopeInv'
  <2>1. /\ UNCHANGED <<scopes, changes, run>>
        /\ \A v \in Users : call'[v].at = "ready" => call'[v] = call[v]
    BY <1>6 DEF Authenticate, Answer, AppendAudit, Abort, FindTarget, NoCall, MemberInv, TypeOK, Call
  <2> QED BY <1>3, <1>4, <2>1 DEF ScopeInv
<1>7. ASSUME NEW u \in Users, SubmitRun(u) PROVE ScopeInv'
  <2>1. PICK n, s : n = call[u].change /\ s = call[u].scope
    OBVIOUS
  <2>2. /\ n \in 0..Len(changes) /\ s \in Scopes \cup {Unrestricted}
        /\ HasScope(u, n, s)
    BY <1>7, <2>1 DEF SubmitRun, ScopeInv, ReadyScopes, MemberInv, TypeOK, Call, HistoryOK
  <2>3. /\ run' = [owner |-> u, roles |-> call[u].roles, scope |-> s, reads |-> {}, since |-> n]
        /\ UNCHANGED <<scopes, changes>>
        /\ \A v \in Users : call'[v].at = "ready" => call'[v] = call[v]
    BY <1>7, <2>1 DEF SubmitRun, NoCall, MemberInv, TypeOK
  <2>4. \A v \in Users : \A m, t : HasScope(v, m, t)' = HasScope(v, m, t)
    BY <2>3 DEF HasScope, SetsScope
  <2>5. RunOK'
    BY <2>2, <2>3, <2>4 DEF RunOK, Covered
  <2> QED BY <1>3, <1>4, <2>3, <2>5 DEF ScopeInv
<1>8. ASSUME NEW part, NEW period, RunReads(part, period) PROVE ScopeInv'
  <2>1. PICK o, n, s, held, reads :
            o \in Users /\ n \in 0..Len(changes) /\ s \in Scopes \cup {Unrestricted}
            /\ run = [owner |-> o, roles |-> held, scope |-> s, reads |-> reads, since |-> n]
            /\ HasScope(o, n, s)
    BY <1>8 DEF RunReads, ScopeInv, RunOK
  <2>2. PICK seen : seen = {[part |-> r.part, period |-> r.period] :
                               r \in ToolRows(RunContext, part, period)}
    OBVIOUS
  <2>3. run' = [owner |-> o, roles |-> held, scope |-> s, reads |-> seen, since |-> n]
        /\ UNCHANGED <<scopes, changes, call>>
    BY <1>8, <2>1, <2>2 DEF RunReads
  <2>4. PICK ctx : ctx = RunContext
    OBVIOUS
  <2>5. Covered(s, seen)
    <3>1. ctx.scope = s
      BY <2>1, <2>4 DEF RunContext, Context
    <3>2. ASSUME NEW x \in seen
          PROVE  CostScope([caps |-> {"cost_calculation"}, scope |-> s], x.part, x.period)
      <4>1. PICK r \in ToolRows(ctx, part, period) : x = [part |-> r.part, period |-> r.period]
        BY <2>2, <2>4, <3>2
      <4>2. CostScope([caps |-> {"cost_calculation"}, scope |-> ctx.scope], r.part, r.period)
        BY ToolLemma
      <4> QED BY <3>1, <4>1, <4>2
    <3> QED BY <3>2 DEF Covered
  <2>6. \A v \in Users : \A m, t : HasScope(v, m, t)' = HasScope(v, m, t)
    BY <2>3 DEF HasScope, SetsScope
  <2>7. RunOK'
    BY <2>1, <2>3, <2>5, <2>6 DEF RunOK
  <2> QED BY <1>3, <1>4, <2>3, <2>7 DEF ScopeInv
<1>9. CASE EndRun
  BY <1>3, <1>4, <1>9 DEF EndRun, ScopeInv, RunOK
<1>10. CASE UNCHANGED <<scopes, call, run, changes>>
  BY <1>3, <1>4, <1>10 DEF ScopeInv
<1> QED BY <1>1, <1>2, <1>5, <1>6, <1>7, <1>8, <1>9, <1>10 DEF Next, Publish, vars

-----------------------------------------------------------------------------
(* The read paths *)

\* A set of finished batches: one per identifier, with comparable sort keys.
Batches(S) ==
    /\ IsFiniteSet(S)
    /\ \A r \in S : \A key \in {"batch", "period", "done", "cost"} : r[key] \in Int
    /\ \A r, s \in S : r.batch = s.batch => r = s

\* The rows of S before r, in the order of a list.
Before(S, r, key) == {s \in S : Precedes(s, r, key)}

\* The order of a list is total: ties in the sort key are broken by the batch.
LEMMA OrderLemma ==
    ASSUME NEW S, Batches(S), NEW key \in {"done", "cost"}
    PROVE  /\ \A r \in S : ~Precedes(r, r, key)
           /\ \A r, s \in S : r # s => Precedes(r, s, key) \/ Precedes(s, r, key)
           /\ \A r, s, t \in S :
                 Precedes(r, s, key) => (Precedes(s, t, key) => Precedes(r, t, key))
<1>1. \A r \in S : r[key] \in Int /\ r.batch \in Int
  <2> SUFFICES ASSUME NEW r \in S PROVE r[key] \in Int /\ r["batch"] \in Int
    OBVIOUS
  <2>1. \A k \in {"batch", "period", "done", "cost"} : r[k] \in Int
    BY DEF Batches
  <2> QED BY <2>1
<1>2. \A r \in S : ~Precedes(r, r, key)
  BY <1>1 DEF Precedes
<1>3. ASSUME NEW r \in S, NEW s \in S, r # s PROVE Precedes(r, s, key) \/ Precedes(s, r, key)
  <2>1. r.batch # s.batch
    BY <1>3 DEF Batches
  <2> QED BY <1>1, <2>1 DEF Precedes
<1>4. ASSUME NEW r \in S, NEW s \in S, NEW t \in S, Precedes(r, s, key), Precedes(s, t, key)
      PROVE  Precedes(r, t, key)
  <2>1. PICK a \in Int, b \in Int, c \in Int, i \in Int, j \in Int, k \in Int :
            a = r[key] /\ b = s[key] /\ c = t[key] /\ i = r.batch /\ j = s.batch /\ k = t.batch
    BY <1>1
  <2>2. (a < b \/ (a = b /\ i < j)) /\ (b < c \/ (b = c /\ j < k))
    BY <1>4, <2>1 DEF Precedes
  <2>3. a < c \/ (a = c /\ i < k)
    BY <2>2
  <2> QED BY <2>1, <2>3 DEF Precedes
<1> QED BY <1>2, <1>3, <1>4

\* The number of rows before a row is its place: below the number of rows, and
\* no two rows have the same.
LEMMA RankLemma ==
    ASSUME NEW S, Batches(S), NEW key \in {"done", "cost"}
    PROVE  /\ \A r \in S : Cardinality(Before(S, r, key)) \in 0..Cardinality(S) - 1
           /\ \A r, s \in S : r # s =>
                 Cardinality(Before(S, r, key)) # Cardinality(Before(S, s, key))
<1>1. \A T \in SUBSET S : IsFiniteSet(T) /\ Cardinality(T) \in Nat
  BY FS_Subset, FS_CardinalityType DEF Batches
<1>2. ASSUME NEW T \in SUBSET S, NEW U \in SUBSET T, NEW x \in T, x \notin U
      PROVE  Cardinality(U) < Cardinality(T)
  <2>1. IsFiniteSet(T) /\ Cardinality(T) \in Nat /\ Cardinality(U) \in Nat
    BY <1>1
  <2>2. Cardinality(U) <= Cardinality(T) /\ (Cardinality(T) = Cardinality(U) => T = U)
    BY <2>1, FS_Subset
  <2> QED BY <1>2, <2>1, <2>2
<1>3. \A r \in S : Before(S, r, key) \in SUBSET S
  BY DEF Before
<1>4. ASSUME NEW r \in S PROVE Cardinality(Before(S, r, key)) \in 0..Cardinality(S) - 1
  <2>1. r \notin Before(S, r, key)
    BY OrderLemma DEF Before
  <2>2. PICK B \in SUBSET S : B = Before(S, r, key)
    BY <1>3
  <2>3. Cardinality(B) < Cardinality(S)
    BY <1>2, <2>1, <2>2
  <2>4. Cardinality(B) \in Nat /\ Cardinality(S) \in Nat
    BY <1>1
  <2> QED BY <2>2, <2>3, <2>4
<1>5. ASSUME NEW r \in S, NEW s \in S, Precedes(r, s, key)
      PROVE  Cardinality(Before(S, r, key)) < Cardinality(Before(S, s, key))
  <2>1. PICK B \in SUBSET S : B = Before(S, r, key)
    BY <1>3
  <2>2. PICK C \in SUBSET S : C = Before(S, s, key)
    BY <1>3
  <2>3. r \in C /\ r \notin B
    BY <1>5, <2>1, <2>2, OrderLemma DEF Before
  <2>4. \A t \in S : Precedes(t, r, key) => Precedes(t, s, key)
    BY <1>5, OrderLemma
  <2>5. B \in SUBSET C
    BY <2>1, <2>2, <2>4 DEF Before
  <2>6. Cardinality(B) < Cardinality(C)
    BY <1>2, <2>3, <2>5
  <2> QED BY <2>1, <2>2, <2>6
<1>6. ASSUME NEW r \in S, NEW s \in S, r # s
      PROVE  Cardinality(Before(S, r, key)) # Cardinality(Before(S, s, key))
  <2>1. PICK i \in Nat, j \in Nat : i = Cardinality(Before(S, r, key))
                                    /\ j = Cardinality(Before(S, s, key))
    BY <1>1, <1>3
  <2>2. i < j \/ j < i
    BY <1>5, <1>6, <2>1, OrderLemma
  <2> QED BY <2>1, <2>2
<1> QED BY <1>4, <1>6

\* Multiplication keeps an order.
LEMMA TimesLemma ==
    ASSUME NEW P \in Nat, NEW a \in Int, NEW b \in Int, a <= b
    PROVE  a * P <= b * P
<1>1. PICK d \in Nat : d = b - a
  OBVIOUS
<1>2. d * P >= 0
  OBVIOUS
<1>3. b * P = a * P + d * P
  BY <1>1
<1> QED BY <1>2, <1>3

\* The place k is on page n.
On(k, n, P) == (n - 1) * P <= k /\ k < n * P

\* Every place is on exactly one page of P places.
LEMMA PlaceLemma ==
    ASSUME NEW P \in Nat \ {0}, NEW k \in Nat
    PROVE  /\ \E n \in 1..k + 1 : On(k, n, P)
           /\ \A n, m \in Nat : On(k, n, P) /\ On(k, m, P) => n = m
<1>1. PICK q \in Int : q = k \div P
  OBVIOUS
<1>2. q * P <= k /\ k < q * P + P
  BY <1>1
<1>3. q >= 0
  <2>1. ASSUME q <= -1 PROVE FALSE
    <3>1. q * P <= (-1) * P
      BY <2>1, TimesLemma
    <3>2. (-1) * P = -P
      OBVIOUS
    <3> QED BY <1>2, <3>1, <3>2
  <2> QED BY <2>1
<1>4. q <= k
  <2>1. q * 1 <= q * P
    <3>1. 1 * q <= P * q
      BY <1>3, TimesLemma
    <3>2. 1 * q = q * 1 /\ P * q = q * P
      OBVIOUS
    <3> QED BY <3>1, <3>2
  <2> QED BY <1>2, <2>1
<1>5. (q + 1 - 1) * P = q * P /\ (q + 1) * P = q * P + P
  BY SMT
<1>6. \E n \in 1..k + 1 : On(k, n, P)
  <2>1. On(k, q + 1, P)
    BY <1>2, <1>5 DEF On
  <2>2. q + 1 \in 1..k + 1
    BY <1>3, <1>4
  <2> QED BY <2>1, <2>2
<1>7. ASSUME NEW n \in Nat, NEW m \in Nat, n < m PROVE n * P <= (m - 1) * P
  <2>1. m - 1 \in Int /\ n <= m - 1
    BY <1>7
  <2> QED BY <2>1, TimesLemma
<1>8. ASSUME NEW n \in Nat, NEW m \in Nat, On(k, n, P), On(k, m, P)
      PROVE  n = m
  <2>1. PICK a, b, c, d \in Int : a = n * P /\ b = (n - 1) * P /\ c = m * P /\ d = (m - 1) * P
    OBVIOUS
  <2>2. k < a /\ b <= k /\ k < c /\ d <= k
    BY <1>8, <2>1 DEF On
  <2>3. ~(n < m) /\ ~(m < n)
    BY <1>7, <2>1, <2>2
  <2> QED BY <2>3
<1> QED BY <1>6, <1>8

\* A page of the rows S.
PageOf(S, key, n) == {r \in S : On(Cardinality(Before(S, r, key)), n, PageSize)}

\* Pages share no row, have no more than PageSize of them, and as many pages as
\* there are rows hold all.
LEMMA PageLemma ==
    ASSUME NEW S, Batches(S), NEW key \in {"done", "cost"}, NEW N \in Nat, Cardinality(S) <= N
    PROVE  /\ UNION {PageOf(S, key, n) : n \in 1..N} = S
           /\ \A n \in 1..N : Cardinality(PageOf(S, key, n)) <= PageSize
           /\ \A n, m \in 1..N : n # m => PageOf(S, key, n) \cap PageOf(S, key, m) = {}
<1> DEFINE rank(r) == Cardinality(Before(S, r, key))
<1>1. Cardinality(S) \in Nat
  BY FS_CardinalityType DEF Batches
<1>2. PageSize \in Nat \ {0}
  BY BoundAssumption
<1>3. \A r \in S : rank(r) \in Nat /\ rank(r) + 1 <= N
  BY <1>1, RankLemma
<1>4. \A r, s \in S : rank(r) = rank(s) => r = s
  BY RankLemma
<1>5. \A n : \A r : r \in PageOf(S, key, n) <=> r \in S /\ On(rank(r), n, PageSize)
  BY DEF PageOf
<1> HIDE DEF rank
<1>6. ASSUME NEW r \in S PROVE \E n \in 1..N : r \in PageOf(S, key, n)
  <2>1. PICK k \in Nat : k = rank(r) /\ k + 1 <= N
    BY <1>3
  <2>2. PICK n \in 1..k + 1 : On(k, n, PageSize)
    BY <1>2, PlaceLemma
  <2>3. n \in 1..N
    BY <2>1
  <2> QED BY <1>5, <2>1, <2>2, <2>3
<1>7. UNION {PageOf(S, key, n) : n \in 1..N} = S
  <2>1. \A n : PageOf(S, key, n) \subseteq S
    BY DEF PageOf
  <2> QED BY <1>6, <2>1
<1>8. ASSUME NEW n \in 1..N, NEW m \in 1..N, NEW r, r \in PageOf(S, key, n), r \in PageOf(S, key, m)
      PROVE  n = m
  <2>1. PICK k \in Nat : k = rank(r) /\ On(k, n, PageSize) /\ On(k, m, PageSize)
    BY <1>3, <1>5, <1>8
  <2>2. n \in Nat /\ m \in Nat
    OBVIOUS
  <2> QED BY <1>2, <2>1, <2>2, PlaceLemma
<1>9. ASSUME NEW n \in 1..N PROVE Cardinality(PageOf(S, key, n)) <= PageSize
  <2>1. PICK a \in Int, b \in Int : a = (n - 1) * PageSize /\ b = n * PageSize
    BY <1>2
  <2>2. b = a + PageSize
    BY <1>2, <2>1
  <2>3. PICK T : T = PageOf(S, key, n)
    OBVIOUS
  <2>4. \A r \in T : r \in S /\ rank(r) \in a..b - 1
    BY <1>3, <1>5, <2>1, <2>3 DEF On
  <2>5. PICK f : f = [r \in T |-> rank(r)]
    OBVIOUS
  <2>6. PICK I : I = a..b - 1
    OBVIOUS
  <2>7. f \in Injection(T, I)
    <3>1. f \in [T -> I] /\ \A r \in T : f[r] = rank(r)
      BY <2>4, <2>5, <2>6
    <3>2. \A r, s \in T : f[r] = f[s] => r = s
      BY <1>4, <2>4, <3>1
    <3> QED BY <3>1, <3>2 DEF Injection, IsInjective
  <2>8. IsFiniteSet(I) /\ Cardinality(I) = PageSize
    BY <1>2, <2>2, <2>6, FS_Interval
  <2>9. Cardinality(T) <= Cardinality(I)
    BY <2>7, <2>8, FS_Injection
  <2> QED BY <2>3, <2>8, <2>9
<1> QED BY <1>7, <1>8, <1>9

\* With a role, the capability for costs is the server's alone.
LEMMA CapsLemma ==
    ASSUME NEW held \in SUBSET RoleId, held # {}, NEW scope
    PROVE  /\ Context(held, scope).scope = scope
           /\ "cost_calculation" \in Context(held, scope).caps <=> "cost_calculation" \in server
           /\ Context(held, scope).caps \subseteq {"cost_calculation"}
<1>1. PICK r \in RoleId : r \in held
  OBVIOUS
<1>2. \A q \in held : ROLE_CAPABILITIES[q] = Capabilities
  BY DEF ROLE_CAPABILITIES
<1>3. "cost_calculation" \in UNION {ROLE_CAPABILITIES[q] : q \in held}
  BY <1>1, <1>2 DEF Capabilities
<1> DEFINE e == {"cost_calculation"} \cap (UNION {ROLE_CAPABILITIES[q] : q \in held}) \cap server
<1>4. e \subseteq {"cost_calculation"}
  OBVIOUS
<1>5. "cost_calculation" \in e <=> "cost_calculation" \in server
  BY <1>3
<1>6. "report_generation" \notin e
  BY <1>4
<1>7. Effective({"cost_calculation"}, held) = e
  <2>1. Effective({"cost_calculation"}, held) =
            IF "cost_calculation" \in e THEN e ELSE e \ {"report_generation"}
    BY DEF Effective
  <2> HIDE DEF e
  <2> QED BY <1>6, <2>1
<1> QED BY <1>4, <1>5, <1>7 DEF Context

\* The rows of the published snapshot are batches of its parts, listed in the catalogs.
LEMMA RowsLemma ==
    ASSUME cat \in Catalogs
    PROVE  /\ Batches(Rows)
           /\ \A r \in Rows : /\ cat # NoRow /\ r.part \in cat.parts
                              /\ r.part \in PartsOf /\ r.period \in Periods /\ r.batch \in BatchIds
<1>1. CASE Rows = {}
  BY <1>1, FS_EmptySet DEF Batches
<1>2. CASE Rows # {}
  <2>1. cat \in Catalogs \ {NoRow} /\ Rows = cat.rows
    BY <1>2 DEF Rows
  <2>2. /\ IsFiniteSet(cat.rows)
        /\ \A r \in cat.rows :
              /\ r.part \in cat.parts
              /\ \A key \in {"batch", "period", "done", "cost"} : r[key] \in Int
        /\ \A r, s \in cat.rows : r.batch = s.batch => r = s
    BY <2>1, CatalogAssumption
  <2>3. Batches(Rows)
    BY <2>1, <2>2 DEF Batches
  <2>4. cat.parts \subseteq PartsOf
    BY <2>1 DEF PartsOf
  <2>5. \A r \in cat.rows : r.period \in Periods
    BY <2>1 DEF Periods
  <2>6. \A r \in cat.rows : r.batch \in BatchIds
    BY <2>1 DEF BatchIds
  <2> QED BY <2>1, <2>2, <2>3, <2>4, <2>5, <2>6
<1> QED BY <1>1, <1>2

\* A row is granted if the part and the period of its own are.
LEMMA GrantedLemma ==
    ASSUME NEW held \in SUBSET RoleId, held # {}, NEW s
    PROVE  \A r : r \in Granted(s) <=>
               /\ r \in Rows
               /\ "cost_calculation" \in Context(held, s).caps
               /\ PartAllowed(Context(held, s), r.part)
               /\ PeriodAllowed(Context(held, s), r.period)
  BY CapsLemma DEF Granted, PartAllowed, PeriodAllowed

\* The overviews, the details, the aggregates and the tools give what is granted.
LEMMA PathsLemma ==
    ASSUME cat \in Catalogs, NEW held \in SUBSET RoleId, held # {}, NEW s, NEW ctx, ctx = Context(held, s)
    PROVE  QueriesGive(ctx, Granted(s))
<1>1. \A r \in Rows : /\ cat # NoRow /\ r.part \in cat.parts
                      /\ r.part \in PartsOf /\ r.period \in Periods /\ r.batch \in BatchIds
  BY RowsLemma
<1>2. \A r : r \in Granted(s) <=>
          /\ r \in Rows /\ "cost_calculation" \in ctx.caps
          /\ PartAllowed(ctx, r.part) /\ PeriodAllowed(ctx, r.period)
  BY GrantedLemma
<1>3. UNION {Overview(ctx, p) : p \in Periods} = Granted(s)
  <2>1. \A p : \A r : r \in Overview(ctx, p) <=> r \in Granted(s) /\ r.period = p
    BY <1>2 DEF Overview
  <2>2. \A r \in Granted(s) : r.period \in Periods
    BY <1>1, <1>2
  <2> QED BY <2>1, <2>2
<1>4. UNION {Detail(ctx, b) : b \in BatchIds} = Granted(s)
  <2>1. \A b : \A r : r \in Detail(ctx, b) <=> r \in Granted(s) /\ r.batch = b
    BY <1>2 DEF Detail
  <2>2. \A r \in Granted(s) : r.batch \in BatchIds
    BY <1>1, <1>2
  <2> QED BY <2>1, <2>2
<1>5. \A x, p : \A r : r \in PartPeriod(ctx, x, p) <=> r \in Granted(s) /\ r.part = x /\ r.period = p
  BY <1>2 DEF PartPeriod, CostScope
<1>6. \A r \in Granted(s) : r.part \in PartsOf /\ r.period \in Periods
  BY <1>1, <1>2
<1>7. UNION {PartPeriod(ctx, x, p) : x \in PartsOf, p \in Periods} = Granted(s)
  BY <1>5, <1>6
<1>8. \A x, p : \A r : r \in ToolRows(ctx, x, p) <=> r \in PartPeriod(ctx, x, p)
  <2>1. ASSUME NEW x, NEW p, NEW r, r \in PartPeriod(ctx, x, p) PROVE r \in ToolRows(ctx, x, p)
    <3>1. /\ r \in Rows /\ r.part = x /\ r.period = p /\ "cost_calculation" \in ctx.caps
          /\ PartAllowed(ctx, x) /\ PeriodAllowed(ctx, p)
      BY <1>2, <1>5, <2>1
    <3>2. \A tool \in {"resolve_part_candidates", "load_finished_batches", "build_report"} :
              ToolSpecs[tool].needs = {"cost_calculation"}
      BY DEF ToolSpecs
    <3>3. /\ ToolAllowed(ctx, "resolve_part_candidates", NoRow, NoRow)
          /\ ToolAllowed(ctx, "build_report", NoRow, NoRow)
          /\ ToolAllowed(ctx, "load_finished_batches", x, p)
      BY <3>1, <3>2 DEF ToolAllowed, ArgumentsInScope
    <3>4. x \in ListParts(ctx)
      BY <1>1, <3>1 DEF ListParts
    <3> QED BY <2>1, <3>3, <3>4 DEF ToolRows
  <2>2. \A x, p : ToolRows(ctx, x, p) \subseteq PartPeriod(ctx, x, p)
    BY DEF ToolRows
  <2> QED BY <2>1, <2>2
<1>9. UNION {ToolRows(ctx, x, p) : x \in PartsOf, p \in Periods} = Granted(s)
  BY <1>5, <1>6, <1>8
<1> QED BY <1>3, <1>4, <1>7, <1>9 DEF QueriesGive

\* The pages of the list of a period.
LEMMA ListLemma ==
    ASSUME cat \in Catalogs, NEW ctx, NEW p, NEW key \in {"done", "cost"}
    PROVE  PagesSplit(ctx, p, key, 1..Cardinality(Rows))
<1>1. PICK S : S = Overview(ctx, p)
  OBVIOUS
<1>2. Batches(Rows) /\ S \in SUBSET Rows
  BY <1>1, RowsLemma DEF Overview
<1>3. Batches(S)
  BY <1>2, FS_Subset DEF Batches
<1>4. PICK N \in Nat : N = Cardinality(Rows) /\ Cardinality(S) <= N
  BY <1>2, FS_Subset, FS_CardinalityType DEF Batches
<1>5. \A n : Page(ctx, p, key, n) = PageOf(S, key, n)
  BY <1>1 DEF Page, PageOf, On, Before
<1>6. /\ UNION {PageOf(S, key, n) : n \in 1..N} = S
      /\ \A n \in 1..N : Cardinality(PageOf(S, key, n)) <= PageSize
      /\ \A n, m \in 1..N : n # m => PageOf(S, key, n) \cap PageOf(S, key, m) = {}
  BY <1>3, <1>4, PageLemma
<1>7. UNION {Page(ctx, p, key, n) : n \in 1..N} = S
  BY <1>5, <1>6
<1>8. \A n, m \in 1..N : n # m => Page(ctx, p, key, n) \cap Page(ctx, p, key, m) = {}
  BY <1>5, <1>6
<1>9. \A n \in 1..N : Cardinality(Page(ctx, p, key, n)) <= PageSize
  BY <1>5, <1>6
<1> QED BY <1>1, <1>4, <1>7, <1>8, <1>9 DEF PagesSplit

\* Every request goes on with the roles it was authorised with.
LEMMA RolesStep ==
    ASSUME MemberInv, RolesHeld, [Next]_vars
    PROVE  RolesHeld'
<1>1. call \in [Users -> Call]
  BY DEF MemberInv, TypeOK
<1>2. NoCall.at = "idle"
  BY DEF NoCall
<1>3. ASSUME NEW u \in Users, Authenticate(u) PROVE RolesHeld'
  <2>1. call'[u].roles # {} /\ \A v \in Users \ {u} : call'[v] = call[v]
    BY <1>1, <1>3 DEF Authenticate, Call
  <2> QED BY <2>1 DEF RolesHeld
<1>4. ASSUME NEW u \in Users, call' = [call EXCEPT ![u] = NoCall] PROVE RolesHeld'
  <2>1. call'[u].at = "idle" /\ \A v \in Users \ {u} : call'[v] = call[v]
    BY <1>1, <1>2, <1>4
  <2> QED BY <2>1 DEF RolesHeld
<1>5. ASSUME NEW u \in Users, call[u].at # "idle", call'[u].roles = call[u].roles,
             \A v \in Users \ {u} : call'[v] = call[v]
      PROVE  RolesHeld'
  BY <1>5 DEF RolesHeld
<1>6. ASSUME NEW u \in Users, ReadScope(u) \/ \E target \in Users : FindTarget(u, target)
      PROVE  RolesHeld'
  <2>1. /\ call[u].at # "idle" /\ call'[u].roles = call[u].roles
        /\ \A v \in Users \ {u} : call'[v] = call[v]
    BY <1>1, <1>6 DEF ReadScope, FindTarget, Call
  <2> QED BY <1>5, <2>1
<1>7. CASE call' = call
  BY <1>7 DEF RolesHeld
<1>8. ASSUME NEW u \in Users, NEW kind, NEW target, NEW value, Changed(u, kind, target, value),
             call[u].at # "idle"
      PROVE  RolesHeld'
  <2>1. call' = [call EXCEPT ![u].at = "written", ![u].change = Len(changes) + 1]
    BY <1>8 DEF Changed
  <2>2. call'[u].roles = call[u].roles /\ \A v \in Users \ {u} : call'[v] = call[v]
    BY <1>1, <2>1 DEF Call
  <2> QED BY <1>5, <1>8, <2>2
<1>9. ASSUME NEW u \in Users, \/ \E target \in Users, held \in RoleSets : SetRoles(u, target, held)
                              \/ \E scope \in Scopes : SetScope(u, scope)
      PROVE  RolesHeld'
  BY <1>8, <1>9 DEF SetRoles, SetScope
<1> QED BY <1>3, <1>4, <1>6, <1>7, <1>9
        DEF Next, Answer, SubmitRun, AppendAudit, Abort, RunReads, EndRun, Publish, vars

-----------------------------------------------------------------------------
(* Sums over finite sets *)

\* Some set in a family of subsets of a finite set has none of the others in it.
LEMMA MinimalSubset ==
  ASSUME NEW S, IsFiniteSet(S), NEW T, T \subseteq SUBSET S, T # {}
  PROVE  \E U \in T : \A V \in T : ~(V \subseteq U /\ V # U)
<1>1. T \subseteq FiniteSubsetsOf(S)
  BY FS_Subset DEF FiniteSubsetsOf
<1>2. IsWellFoundedOn(StrictSubsetOrdering(S), FiniteSubsetsOf(S))
  BY FS_StrictSubsetOrderingWellFounded
<1>3. PICK U \in T : \A V \in T : ~(<<V, U>> \in StrictSubsetOrdering(S))
  BY <1>1, <1>2, WFMin, Zenon
<1> QED BY <1>1, <1>3 DEF StrictSubsetOrdering, FiniteSubsetsOf

\* A family with the empty set, and with every set whose smaller ones by an element it
\* has, has a finite set.
LEMMA SetInduction ==
  ASSUME NEW S, IsFiniteSet(S), NEW T, {} \in T,
         \A U \in SUBSET S : U # {} => ((\A y \in U : U \ {y} \in T) => U \in T)
  PROVE  S \in T
<1> DEFINE Bad == {U \in SUBSET S : U \notin T}
<1>1. SUFFICES ASSUME Bad # {} PROVE FALSE
  OBVIOUS
<1>2. PICK U \in Bad : \A V \in Bad : ~(V \subseteq U /\ V # U)
  <2>1. Bad \subseteq SUBSET S OBVIOUS
  <2> HIDE DEF Bad
  <2> QED BY <1>1, <2>1, MinimalSubset
<1>3. U \in SUBSET S /\ U \notin T /\ U # {}
  BY <1>2
<1>4. ASSUME NEW y \in U PROVE U \ {y} \in T
  <2>1. U \ {y} \in SUBSET S /\ U \ {y} \subseteq U /\ U \ {y} # U
    BY <1>3
  <2> QED BY <1>2, <2>1
<1> QED BY <1>3, <1>4

\* The function that adds up the values of f over each subset of S.
pick(s) == CHOOSE x \in s : TRUE
Adds(g, f, S) ==
    g = [s \in SUBSET S |-> IF s = {} THEN 0 ELSE f[pick(s)] + g[s \ {pick(s)}]]

\* The element that the recursion takes out belongs to the set.
LEMMA PickLemma == \A s : s # {} => pick(s) \in s
BY DEF pick

\* Two such functions agree where both are defined.
LEMMA AddsAgree ==
  ASSUME NEW f, NEW g, NEW h, NEW S, NEW T, IsFiniteSet(T), T \subseteq S,
         Adds(g, f, S), Adds(h, f, T)
  PROVE  g[T] = h[T]
<1> DEFINE Bad == {U \in SUBSET T : g[U] # h[U]}
<1>1. SUFFICES ASSUME Bad # {} PROVE FALSE
  OBVIOUS
<1>2. PICK U \in Bad : \A V \in Bad : ~(V \subseteq U /\ V # U)
  <2>1. Bad \subseteq SUBSET T OBVIOUS
  <2> HIDE DEF Bad
  <2> QED BY <1>1, <2>1, MinimalSubset
<1>3. U \in SUBSET T /\ U \in SUBSET S /\ g[U] # h[U]
  BY <1>2
<1>4. /\ g[U] = IF U = {} THEN 0 ELSE f[pick(U)] + g[U \ {pick(U)}]
      /\ h[U] = IF U = {} THEN 0 ELSE f[pick(U)] + h[U \ {pick(U)}]
  <2>1. g[U] = [s \in SUBSET S |-> IF s = {} THEN 0 ELSE f[pick(s)] + g[s \ {pick(s)}]][U]
    BY Zenon DEF Adds
  <2>2. h[U] = [s \in SUBSET T |-> IF s = {} THEN 0 ELSE f[pick(s)] + h[s \ {pick(s)}]][U]
    BY Zenon DEF Adds
  <2> QED BY <1>3, <2>1, <2>2
<1>5. U # {}
  BY <1>3, <1>4
<1>6. U \ {pick(U)} \in SUBSET T /\ U \ {pick(U)} # U
  BY <1>3, <1>5, PickLemma
<1>7. g[U \ {pick(U)}] = h[U \ {pick(U)}]
  BY <1>2, <1>6
<1> QED BY <1>3, <1>4, <1>7

\* There is such a function for every finite set.
LEMMA AddsExists ==
  ASSUME NEW f, NEW S, IsFiniteSet(S)
  PROVE  \E g : Adds(g, f, S)
<1> DEFINE Bad == {U \in SUBSET S : ~\E g : Adds(g, f, U)}
           at(s) == (CHOOSE g : Adds(g, f, s))[s]
<1>1. SUFFICES ASSUME Bad # {} PROVE FALSE
  OBVIOUS
<1>2. PICK U \in Bad : \A V \in Bad : ~(V \subseteq U /\ V # U)
  <2>1. Bad \subseteq SUBSET S OBVIOUS
  <2> HIDE DEF Bad
  <2> QED BY <1>1, <2>1, MinimalSubset
<1> DEFINE G == [s \in SUBSET U |-> IF s = {} THEN 0 ELSE f[pick(s)] + at(s \ {pick(s)})]
<1>3. \A s \in SUBSET U : s # U => G[s] = at(s)
  <2> SUFFICES ASSUME NEW s \in SUBSET U, s # U PROVE G[s] = at(s)
    OBVIOUS
  <2>1. PICK h : h = CHOOSE g : Adds(g, f, s)
    OBVIOUS
  <2>2. Adds(h, f, s)
    <3>1. \E g : Adds(g, f, s)
      BY <1>2
    <3> QED BY <2>1, <3>1, Zenon
  <2>3. at(s) = h[s]
    BY <2>1
  <2>4. h[s] = IF s = {} THEN 0 ELSE f[pick(s)] + h[s \ {pick(s)}]
    <3>1. h[s] = [t \in SUBSET s |-> IF t = {} THEN 0 ELSE f[pick(t)] + h[t \ {pick(t)}]][s]
      BY <2>2, Zenon DEF Adds
    <3> QED BY <3>1
  <2>5. CASE s = {}
    BY <2>3, <2>4, <2>5
  <2>6. CASE s # {}
    <3> DEFINE t == s \ {pick(s)}
    <3>1. PICK k : k = CHOOSE g : Adds(g, f, t)
      OBVIOUS
    <3>2. pick(s) \in s
      BY <2>6, PickLemma
    <3>3. \E g : Adds(g, f, t)
      BY <1>2, <3>2
    <3>4. Adds(k, f, t)
      BY <3>1, <3>3, Zenon
    <3>5. IsFiniteSet(t)
      BY FS_Subset
    <3>6. h[t] = k[t]
      <4>1. t \subseteq s OBVIOUS
      <4> HIDE DEF t
      <4> QED BY <2>2, <3>4, <3>5, <4>1, AddsAgree
    <3>7. at(t) = k[t]
      BY <3>1
    <3>8. G[s] = f[pick(s)] + at(t)
      BY <2>6
    <3> QED BY <2>3, <2>4, <2>6, <3>6, <3>7, <3>8
  <2> QED BY <2>5, <2>6
<1>4. Adds(G, f, U)
  <2>1. \A s \in SUBSET U : s # {} => at(s \ {pick(s)}) = G[s \ {pick(s)}]
    BY <1>3, PickLemma
  <2>2. G = [s \in SUBSET U |-> IF s = {} THEN 0 ELSE f[pick(s)] + G[s \ {pick(s)}]]
    <3> HIDE DEF at
    <3> QED BY <2>1
  <2> QED BY <2>2, Zenon DEF Adds
<1> QED BY <1>2, <1>4

\* The recursive definition of the library gives its value.
LEMMA SumIsAdded ==
  ASSUME NEW f, NEW S, IsFiniteSet(S)
  PROVE  \E g : Adds(g, f, S) /\ Total(f, S) = g[S]
<1> DEFINE h == CHOOSE g : g = [s \in SUBSET S |->
                    IF s = {} THEN 0
                    ELSE f[CHOOSE x \in s : TRUE] + g[s \ {CHOOSE x \in s : TRUE}]]
<1>1. Total(f, S) = h[S]
  BY Zenon DEF Total, SumFunctionOnSet, FoldFunctionOnSet, MapThenFoldSet
<1>2. Adds(h, f, S)
  <2>1. \E g : Adds(g, f, S)
    BY AddsExists
  <2> QED BY <2>1, Zenon DEF Adds, pick
<1> QED BY <1>1, <1>2

\* The equation of the recursion.
LEMMA SumEquation ==
  ASSUME NEW f, NEW S, IsFiniteSet(S)
  PROVE  Total(f, S) =
             IF S = {} THEN 0 ELSE f[pick(S)] + Total(f, S \ {pick(S)})
<1>1. PICK g : Adds(g, f, S) /\ Total(f, S) = g[S]
  BY SumIsAdded
<1>2. g[S] = IF S = {} THEN 0 ELSE f[pick(S)] + g[S \ {pick(S)}]
    <3>1. g[S] = [t \in SUBSET S |-> IF t = {} THEN 0 ELSE f[pick(t)] + g[t \ {pick(t)}]][S]
      BY <1>1, Zenon DEF Adds
    <3> QED BY <3>1
<1>3. IsFiniteSet(S \ {pick(S)})
  BY FS_Subset
<1>4. PICK h : /\ Adds(h, f, S \ {pick(S)})
               /\ Total(f, S \ {pick(S)}) = h[S \ {pick(S)}]
  BY <1>3, SumIsAdded
<1>5. g[S \ {pick(S)}] = h[S \ {pick(S)}]
  <2> DEFINE T == S \ {pick(S)}
  <2>1. T \subseteq S OBVIOUS
  <2>2. IsFiniteSet(T) /\ Adds(h, f, T) BY <1>3, <1>4
  <2> HIDE DEF T
  <2>3. g[T] = h[T] BY <1>1, <2>1, <2>2, AddsAgree
  <2> QED BY <2>3 DEF T
<1> QED BY <1>1, <1>2, <1>4, <1>5

\* The sum over nothing.
LEMMA SumEmpty == ASSUME NEW f PROVE Total(f, {}) = 0
<1>1. PICK S : S = {}
  OBVIOUS
<1>2. Total(f, S) = 0
  BY <1>1, FS_EmptySet, SumEquation
<1> QED BY <1>1, <1>2

\* A sum of integers is one.
LEMMA SumType ==
  ASSUME NEW f, NEW S, IsFiniteSet(S), \A x \in S : f[x] \in Int
  PROVE  Total(f, S) \in Int
<1> DEFINE T == {U \in SUBSET S : Total(f, U) \in Int}
<1>1. {} \in T
  BY SumEmpty
<1>2. ASSUME NEW U \in SUBSET S, U # {}, \A y \in U : U \ {y} \in T PROVE U \in T
  <2>1. Total(f, U) = f[pick(U)] + Total(f, U \ {pick(U)})
    BY <1>2, FS_Subset, SumEquation
  <2> QED BY <1>2, <2>1, PickLemma
<1>3. S \in T
  <2> HIDE DEF T
  <2> QED BY <1>1, <1>2, SetInduction
<1> QED BY <1>3

\* Any summand can be taken out first, not only the one the recursion takes.
LEMMA SumSplit ==
  ASSUME NEW f, NEW S, IsFiniteSet(S), \A x \in S : f[x] \in Int
  PROVE  \A x \in S : Total(f, S) = f[x] + Total(f, S \ {x})
<1> DEFINE T == {U \in SUBSET S : \A x \in U : Total(f, U) = f[x] + Total(f, U \ {x})}
<1>1. {} \in T
  OBVIOUS
<1>2. ASSUME NEW U \in SUBSET S, U # {}, \A y \in U : U \ {y} \in T PROVE U \in T
  <2>1. SUFFICES ASSUME NEW x \in U PROVE Total(f, U) = f[x] + Total(f, U \ {x})
    OBVIOUS
  <2>2. PICK y \in U : Total(f, U) = f[y] + Total(f, U \ {y})
    BY <1>2, FS_Subset, SumEquation, PickLemma
  <2>3. CASE x = y
    BY <2>2, <2>3
  <2>4. CASE x # y
    <3>1. /\ Total(f, U \ {y}) = f[x] + Total(f, (U \ {y}) \ {x})
          /\ Total(f, U \ {x}) = f[y] + Total(f, (U \ {x}) \ {y})
      BY <1>2, <2>4
    <3>2. PICK W \in SUBSET S : W = (U \ {y}) \ {x} /\ W = (U \ {x}) \ {y}
      OBVIOUS
    <3>3. /\ Total(f, U \ {y}) = f[x] + Total(f, W)
          /\ Total(f, U \ {x}) = f[y] + Total(f, W)
      BY <3>1, <3>2
    <3>4. IsFiniteSet(W) /\ \A z \in W : f[z] \in Int
      BY FS_Subset
    <3>5. Total(f, W) \in Int /\ f[x] \in Int /\ f[y] \in Int
      BY <3>4, SumType
    <3> QED BY <2>2, <3>3, <3>5
  <2> QED BY <2>3, <2>4
<1>3. S \in T
  <2> HIDE DEF T
  <2> QED BY <1>1, <1>2, SetInduction
<1> QED BY <1>3

\* A summand taken out of the sum over a part of S.
LEMMA SumStep ==
  ASSUME NEW f, NEW S, IsFiniteSet(S), \A x \in S : f[x] \in Int
  PROVE  \A U \in SUBSET S : \A y \in U :
            /\ IsFiniteSet(U \ {y}) /\ f[y] \in Int /\ Total(f, U \ {y}) \in Int
            /\ Total(f, U) = f[y] + Total(f, U \ {y})
<1> SUFFICES ASSUME NEW U \in SUBSET S, NEW y \in U
             PROVE  /\ IsFiniteSet(U \ {y}) /\ f[y] \in Int /\ Total(f, U \ {y}) \in Int
                    /\ Total(f, U) = f[y] + Total(f, U \ {y})
  OBVIOUS
<1>1. IsFiniteSet(U) /\ IsFiniteSet(U \ {y})
  BY FS_Subset
<1>2. Total(f, U) = f[y] + Total(f, U \ {y})
  BY <1>1, SumSplit
<1>3. Total(f, U \ {y}) \in Int
  <2>1. \A x \in U \ {y} : f[x] \in Int
    OBVIOUS
  <2> QED BY <1>1, <2>1, SumType
<1> QED BY <1>1, <1>2, <1>3

\* Two functions that agree on S have the same sum over it.
LEMMA SumSame ==
  ASSUME NEW f, NEW g, NEW S, IsFiniteSet(S), \A x \in S : f[x] = g[x]
  PROVE  Total(f, S) = Total(g, S)
<1> DEFINE T == {U \in SUBSET S : Total(f, U) = Total(g, U)}
<1>1. {} \in T
  BY SumEmpty
<1>2. ASSUME NEW U \in SUBSET S, U # {}, \A y \in U : U \ {y} \in T PROVE U \in T
  <2>1. /\ Total(f, U) = f[pick(U)] + Total(f, U \ {pick(U)})
        /\ Total(g, U) = g[pick(U)] + Total(g, U \ {pick(U)})
    BY <1>2, FS_Subset, SumEquation
  <2> QED BY <1>2, <2>1, PickLemma
<1>3. S \in T
  <2> HIDE DEF T
  <2> QED BY <1>1, <1>2, SetInduction
<1> QED BY <1>3

\* The sum over two sets without a common element.
LEMMA SumUnion ==
  ASSUME NEW f, NEW S, NEW R, IsFiniteSet(S), IsFiniteSet(R), S \cap R = {},
         \A x \in S \cup R : f[x] \in Int
  PROVE  Total(f, S \cup R) = Total(f, S) + Total(f, R)
<1> DEFINE T == {U \in SUBSET S : Total(f, U \cup R) = Total(f, U) + Total(f, R)}
<1>1. IsFiniteSet(S \cup R) /\ Total(f, R) \in Int
  BY FS_Union, SumType
<1>2. {} \in T
  BY <1>1, SumEmpty
<1>3. ASSUME NEW U \in SUBSET S, U # {}, \A y \in U : U \ {y} \in T PROVE U \in T
  <2>1. PICK y \in U : Total(f, (U \ {y}) \cup R) = Total(f, U \ {y}) + Total(f, R)
    BY <1>3
  <2>2. (U \cup R) \ {y} = (U \ {y}) \cup R
    OBVIOUS
  <2>3. /\ Total(f, U) = f[y] + Total(f, U \ {y})
        /\ Total(f, U \ {y}) \in Int /\ f[y] \in Int
    BY SumStep
  <2>4. Total(f, U \cup R) = f[y] + Total(f, (U \cup R) \ {y})
    <3>1. U \cup R \in SUBSET (S \cup R) /\ y \in U \cup R
      OBVIOUS
    <3> QED BY <1>1, <3>1, SumStep
  <2>5. Total(f, U \cup R) = f[y] + Total(f, (U \ {y}) \cup R)
    BY <2>2, <2>4
  <2>6. Total(f, U \cup R) = Total(f, U) + Total(f, R)
    BY <1>1, <2>1, <2>3, <2>5
  <2> QED BY <2>6
<1>4. S \in T
  <2> HIDE DEF T
  <2> QED BY <1>2, <1>3, SetInduction
<1> QED BY <1>4

\* On S the function h is the combination a f + b g.
Combines(h, a, f, b, g, S) ==
    \A x \in S : f[x] \in Int /\ g[x] \in Int /\ h[x] = a * f[x] + b * g[x]

\* A linear combination of sums, summand by summand.
LEMMA SumLinear ==
  ASSUME NEW f, NEW g, NEW h, NEW S, IsFiniteSet(S), NEW a \in Int, NEW b \in Int,
         Combines(h, a, f, b, g, S)
  PROVE  Total(h, S) = a * Total(f, S) + b * Total(g, S)
<1>1. \A x \in S : /\ f[x] \in Int /\ g[x] \in Int /\ h[x] \in Int
                   /\ h[x] = a * f[x] + b * g[x]
  BY DEF Combines
<1>0. /\ \A x \in S : f[x] \in Int
      /\ \A x \in S : g[x] \in Int
      /\ \A x \in S : h[x] \in Int
  BY <1>1
<1> DEFINE T == {U \in SUBSET S : Total(h, U) = a * Total(f, U) + b * Total(g, U)}
<1>2. {} \in T
  BY SumEmpty
<1>3. ASSUME NEW U \in SUBSET S, U # {}, \A y \in U : U \ {y} \in T PROVE U \in T
  <2>1. PICK y \in U : Total(h, U \ {y}) = a * Total(f, U \ {y}) + b * Total(g, U \ {y})
    BY <1>3
  <2>2. /\ f[y] \in Int /\ Total(f, U \ {y}) \in Int
        /\ Total(f, U) = f[y] + Total(f, U \ {y})
    <3>1. \A x \in S : f[x] \in Int
      BY <1>0
    <3> HIDE DEF T
    <3> QED BY <3>1, SumStep
  <2>3. /\ g[y] \in Int /\ Total(g, U \ {y}) \in Int
        /\ Total(g, U) = g[y] + Total(g, U \ {y})
    BY <1>0, SumStep
  <2>4. Total(h, U) = h[y] + Total(h, U \ {y}) /\ h[y] = a * f[y] + b * g[y]
    BY <1>0, <1>1, SumStep
  <2>5. \A m, n, k, l \in Int : a * (m + n) + b * (k + l) = (a * m + b * k) + (a * n + b * l)
    OBVIOUS
  <2> QED BY <2>1, <2>2, <2>3, <2>4, <2>5
<1>4. S \in T
  <2> HIDE DEF T
  <2> QED BY <1>2, <1>3, SetInduction
<1> QED BY <1>4

\* The same summand everywhere.
LEMMA SumConstant ==
  ASSUME NEW f, NEW S, IsFiniteSet(S), NEW k \in Int, \A x \in S : f[x] = k
  PROVE  Total(f, S) = k * Cardinality(S)
<1> DEFINE T == {U \in SUBSET S : Total(f, U) = k * Cardinality(U)}
<1>1. {} \in T
  BY SumEmpty, FS_EmptySet
<1>2. ASSUME NEW U \in SUBSET S, U # {}, \A y \in U : U \ {y} \in T PROVE U \in T
  <2>1. PICK y \in U : Total(f, U \ {y}) = k * Cardinality(U \ {y})
    BY <1>2
  <2>2. Total(f, U) = k + Total(f, U \ {y})
    BY SumStep
  <2>3. IsFiniteSet(U)
    BY FS_Subset
  <2>4. PICK n \in Nat : n = Cardinality(U) /\ Cardinality(U \ {y}) = n - 1
    BY <2>3, FS_RemoveElement, FS_CardinalityType
  <2>5. k * n = k + k * (n - 1)
    OBVIOUS
  <2> QED BY <2>1, <2>2, <2>4, <2>5
<1>3. S \in T
  <2> HIDE DEF T
  <2> QED BY <1>1, <1>2, SetInduction
<1> QED BY <1>3

\* A sum has a sign only if one of its summands has it.
LEMMA SumSign ==
  ASSUME NEW f, NEW S, IsFiniteSet(S), S # {}, \A x \in S : f[x] \in Int
  PROVE  /\ Total(f, S) >= 0 => \E x \in S : f[x] >= 0
         /\ Total(f, S) < 0 => \E x \in S : f[x] < 0
<1> DEFINE T == {U \in SUBSET S : /\ U # {} => (Total(f, U) >= 0 => \E x \in U : f[x] >= 0)
                                  /\ Total(f, U) < 0 => \E x \in U : f[x] < 0}
<1>1. {} \in T
  BY SumEmpty
<1>2. ASSUME NEW U \in SUBSET S, U # {}, \A y \in U : U \ {y} \in T PROVE U \in T
  <2>1. PICK y \in U : U \ {y} \in T
    BY <1>2
  <2>2. /\ Total(f, U) = f[y] + Total(f, U \ {y})
        /\ f[y] \in Int /\ Total(f, U \ {y}) \in Int
    BY SumStep
  <2>3. U \ {y} = {} => Total(f, U \ {y}) = 0
    BY SumEmpty
  <2> QED BY <2>1, <2>2, <2>3
<1>3. S \in T
  <2> HIDE DEF T
  <2> QED BY <1>1, <1>2, SetInduction
<1> QED BY <1>3

\* Each element of S is in the part of its key.
Grouped(part, key, S, K) ==
    /\ \A x \in S : key[x] \in K
    /\ \A k \in K : part[k] \subseteq S /\ \A x \in S : x \in part[k] <=> key[x] = k

\* Summed by key and then over the keys, or at once.
LEMMA SumGroups ==
  ASSUME NEW f, NEW S, IsFiniteSet(S), \A x \in S : f[x] \in Int,
         NEW K, IsFiniteSet(K), NEW key, NEW part, Grouped(part, key, S, K),
         NEW g, \A k \in K : g[k] = Total(f, part[k])
  PROVE  Total(g, K) = Total(f, S)
<1>1. /\ \A x \in S : key[x] \in K
      /\ \A k \in K : part[k] \subseteq S /\ \A x \in S : x \in part[k] <=> key[x] = k
  BY DEF Grouped
<1>2. \A k \in K : IsFiniteSet(part[k]) /\ g[k] \in Int
  <2> SUFFICES ASSUME NEW k \in K PROVE IsFiniteSet(part[k]) /\ g[k] \in Int
    OBVIOUS
  <2>1. IsFiniteSet(part[k]) /\ \A x \in part[k] : f[x] \in Int
    BY <1>1, FS_Subset
  <2> QED BY <2>1, SumType
<1> DEFINE Of(L) == {x \in S : key[x] \in L}
           T == {L \in SUBSET K : Total(g, L) = Total(f, Of(L))}
<1>3. {} \in T
  <2>1. Of({}) = {}
    OBVIOUS
  <2> QED BY <2>1, SumEmpty
<1>4. ASSUME NEW L \in SUBSET K, L # {}, \A k \in L : L \ {k} \in T PROVE L \in T
  <2>1. PICK k \in L : Total(g, L \ {k}) = Total(f, Of(L \ {k}))
    BY <1>4
  <2>2. Of(L \ {k}) \cap part[k] = {} /\ Of(L \ {k}) \cup part[k] = Of(L)
    BY <1>1
  <2>3. Of(L \ {k}) \subseteq S /\ part[k] \subseteq S /\ IsFiniteSet(part[k])
    BY <1>1, <1>2
  <2>4. PICK X : X = Of(L \ {k})
    OBVIOUS
  <2> HIDE DEF Of
  <2>5. /\ IsFiniteSet(X) /\ X \cap part[k] = {} /\ X \cup part[k] = Of(L)
        /\ \A x \in X \cup part[k] : f[x] \in Int
    BY <2>2, <2>3, <2>4, FS_Subset
  <2>6. Total(f, X \cup part[k]) = Total(f, X) + Total(f, part[k])
    BY <2>3, <2>5, SumUnion
  <2>7. Total(g, L) = g[k] + Total(g, L \ {k}) /\ Total(g, L \ {k}) \in Int /\ g[k] \in Int
    <3>1. \A j \in K : g[j] \in Int
      BY <1>2
    <3>2. k \in L /\ L \in SUBSET K
      OBVIOUS
    <3> HIDE DEF T
    <3> QED BY <3>1, <3>2, SumStep
  <2>8. g[k] = Total(f, part[k])
    OBVIOUS
  <2>9. Total(g, L) = Total(f, Of(L))
    <3>1. Total(f, Of(L)) = Total(f, X) + Total(f, part[k])
      BY <2>5, <2>6
    <3>2. Total(g, L \ {k}) = Total(f, X)
      BY <2>1, <2>4
    <3> HIDE DEF T
    <3> QED BY <2>7, <2>8, <3>1, <3>2
  <2> QED BY <2>9
<1>5. K \in T
  <2> HIDE DEF T
  <2> QED BY <1>3, <1>4, SetInduction
<1>6. Of(K) = S
  BY <1>1
<1> QED BY <1>5, <1>6

\* The entries of a table of integers, of which c has the columns.
Crosses(m, c, S, G) == \A b \in S : \A g \in G : m[b][g] \in Int /\ c[g][b] = m[b][g]

\* Summed by columns or by rows.
LEMMA SumSwap ==
  ASSUME NEW m, NEW c, NEW S, NEW G, IsFiniteSet(S), IsFiniteSet(G), Crosses(m, c, S, G)
  PROVE  Total([g \in G |-> Total(c[g], S)], G) = Total([b \in S |-> Total(m[b], G)], S)
<1>1. \A b \in S : \A g \in G : m[b][g] \in Int /\ c[g][b] = m[b][g]
  BY DEF Crosses
<1>2. PICK col : col = [g \in G |-> Total(c[g], S)]
  OBVIOUS
<1>3. \A g \in G : col[g] = Total(c[g], S) /\ col[g] \in Int
  BY <1>1, <1>2, SumType
<1> DEFINE rows(U) == [b \in S |-> Total(m[b], U)]
           T == {U \in SUBSET G : Total(col, U) = Total(rows(U), S)}
<1>4. {} \in T
  <2>1. \A b \in S : rows({})[b] = 0
    BY SumEmpty
  <2>2. Total(rows({}), S) = 0 * Cardinality(S)
    <3> PICK r : r = rows({}) OBVIOUS
    <3> QED BY <2>1, SumConstant
  <2>3. Cardinality(S) \in Nat
    BY FS_CardinalityType
  <2> QED BY <2>2, <2>3, SumEmpty
<1>5. ASSUME NEW U \in SUBSET G, U # {}, \A g \in U : U \ {g} \in T PROVE U \in T
  <2>1. PICK g \in U : Total(col, U \ {g}) = Total(rows(U \ {g}), S)
    BY <1>5
  <2>2. Total(col, U) = col[g] + Total(col, U \ {g}) /\ Total(col, U \ {g}) \in Int
    BY <1>3, SumStep
  <2>3. PICK r, q : r = rows(U) /\ q = rows(U \ {g})
    OBVIOUS
  <2>4. Combines(r, 1, c[g], 1, q, S)
    <3> SUFFICES ASSUME NEW b \in S
                 PROVE  c[g][b] \in Int /\ q[b] \in Int /\ r[b] = 1 * c[g][b] + 1 * q[b]
      BY DEF Combines
    <3>1. \A h \in G : m[b][h] \in Int
      BY <1>1
    <3>2. /\ Total(m[b], U) = m[b][g] + Total(m[b], U \ {g})
          /\ m[b][g] \in Int /\ Total(m[b], U \ {g}) \in Int
      <4>1. PICK f : f = m[b]
        OBVIOUS
      <4>2. \A h \in G : f[h] \in Int
        BY <3>1, <4>1
      <4> QED BY <4>1, <4>2, SumStep
    <3>3. r[b] = Total(m[b], U) /\ q[b] = Total(m[b], U \ {g}) /\ c[g][b] = m[b][g]
      BY <1>1, <2>3
    <3> QED BY <3>2, <3>3
  <2>5. Total(r, S) = 1 * Total(c[g], S) + 1 * Total(q, S)
    BY <2>4, SumLinear
  <2> QED BY <1>3, <2>1, <2>2, <2>3, <2>5
<1>6. G \in T
  <2> HIDE DEF T
  <2> QED BY <1>4, <1>5, SetInduction
<1> QED BY <1>2, <1>6

-----------------------------------------------------------------------------
(* The figures *)

\* Rounding half up, as a choice of the integer u: d u <= n + d/2 < d u + d.
LEMMA HalfUpLemma ==
  ASSUME NEW n \in Int, NEW d \in Nat \ {0}
  PROVE  /\ HalfUp(n, d) \in Int
         /\ 2 * (d * HalfUp(n, d)) <= 2 * n + d
         /\ 2 * n + d < 2 * (d * HalfUp(n, d)) + 2 * d
         /\ \A k \in Int : k <= HalfUp(n, d) <=> 2 * (d * k) <= 2 * n + d
<1>1. \A m \in Int, e \in Int : e > 0 => /\ m \div e \in Int
                                        /\ e * (m \div e) <= m
                                        /\ m < e * (m \div e) + e
  OBVIOUS
<1>2. 2 * n + d \in Int /\ 2 * d \in Int /\ 2 * d > 0
  OBVIOUS
<1>3. PICK u \in Int : u = HalfUp(n, d) /\ (2 * d) * u <= 2 * n + d /\ 2 * n + d < (2 * d) * u + 2 * d
  BY <1>1, <1>2 DEF HalfUp
<1>4. \A k \in Int : (2 * d) * k = 2 * (d * k)
  OBVIOUS
<1>5. ASSUME NEW k \in Int PROVE k <= u <=> 2 * (d * k) <= 2 * n + d
  <2>1. CASE k <= u
    <3>1. PICK j \in Nat : u = k + j
      BY <2>1
    <3>2. d * j >= 0 /\ d * u = d * k + d * j /\ d * k \in Int /\ d * j \in Int
      BY <3>1
    <3> QED BY <1>3, <1>4, <2>1, <3>2
  <2>2. CASE u < k
    <3>1. PICK j \in Nat : k = (u + 1) + j
      <4>1. k - (u + 1) \in Nat
        BY <2>2
      <4> QED BY <4>1
    <3>2. d * j >= 0 /\ d * k = d * u + d + d * j /\ d * u \in Int /\ d * j \in Int
      BY <3>1
    <3>3. 2 * n + d < 2 * (d * k)
      BY <1>3, <1>4, <3>2
    <3> QED BY <2>2, <3>3
  <2> QED BY <2>1, <2>2
<1> QED BY <1>3, <1>4, <1>5

\* Amounts by cost group.
Amounts(a) == \A g \in Groups : a[g] \in Int

\* The groups of the views are finite, and split what they are said to split.
LEMMA GroupsLemma ==
  /\ \A G \in SUBSET Groups : IsFiniteSet(G)
  /\ MaterialGroups \subseteq Groups /\ LaborGroups \subseteq Groups
  /\ OverheadGroups \subseteq Groups /\ ManufacturingGroups \subseteq Groups
  /\ Variable1Groups \subseteq Groups /\ Fixed1Groups \subseteq Groups
  /\ VariablePost \subseteq Groups /\ FixedPost \subseteq Groups /\ PostCodes \subseteq Groups
  /\ MaterialGroups \cap LaborGroups = {} /\ (MaterialGroups \cup LaborGroups) \cap OverheadGroups = {}
  /\ Variable1Groups \cap Fixed1Groups = {} /\ Variable1Groups \cup Fixed1Groups = ManufacturingGroups
  /\ VariablePost \cap FixedPost = {} /\ ManufacturingGroups \cap PostCodes = {}
<1>1. Groups = {"direct_material", "direct_labor", "indirect_labor", "direct_energy",
                "main_equipment_depreciation", "manufacturing_overhead",
                "after_sales_compensation", "transportation", "storage_fee"}
  BY DEF Groups, ManufacturingGroups, PostCodes, MaterialGroups, LaborGroups, OverheadGroups,
         VariablePost, FixedPost
<1>2. IsFiniteSet(Groups)
  <2>1. ASSUME NEW x, NEW y, NEW z PROVE IsFiniteSet({x, y, z})
    <3>1. IsFiniteSet({x}) /\ IsFiniteSet({y}) /\ IsFiniteSet({z})
      BY FS_Singleton
    <3>2. IsFiniteSet({x} \cup ({y} \cup {z}))
      BY <3>1, FS_Union
    <3>3. {x} \cup ({y} \cup {z}) = {x, y, z}
      OBVIOUS
    <3> QED BY <3>2, <3>3
  <2>2. \A S, R : IsFiniteSet(S) /\ IsFiniteSet(R) => IsFiniteSet(S \cup R)
    BY FS_Union
  <2>3. Groups = {"direct_material", "direct_labor", "indirect_labor"}
                 \cup ({"direct_energy", "main_equipment_depreciation", "manufacturing_overhead"}
                       \cup {"after_sales_compensation", "transportation", "storage_fee"})
    BY <1>1
  <2> QED BY <2>1, <2>2, <2>3
<1>3. \A G \in SUBSET Groups : IsFiniteSet(G)
  BY <1>2, FS_Subset
<1>4. /\ Variable1Groups \cap Fixed1Groups = {} /\ Variable1Groups \cup Fixed1Groups = ManufacturingGroups
  BY DEF Variable1Groups, Fixed1Groups, ManufacturingGroups, MaterialGroups, LaborGroups, OverheadGroups
<1>5. /\ MaterialGroups \subseteq Groups /\ LaborGroups \subseteq Groups
      /\ OverheadGroups \subseteq Groups /\ ManufacturingGroups \subseteq Groups
      /\ VariablePost \subseteq Groups /\ FixedPost \subseteq Groups /\ PostCodes \subseteq Groups
  BY DEF Groups, ManufacturingGroups, PostCodes
<1>6. /\ MaterialGroups \cap LaborGroups = {} /\ (MaterialGroups \cup LaborGroups) \cap OverheadGroups = {}
  BY DEF MaterialGroups, LaborGroups, OverheadGroups
<1>7. /\ VariablePost \cap FixedPost = {} /\ ManufacturingGroups \cap PostCodes = {}
  BY DEF VariablePost, FixedPost, PostCodes, ManufacturingGroups, MaterialGroups, LaborGroups, OverheadGroups
<1>8. Variable1Groups \subseteq Groups /\ Fixed1Groups \subseteq Groups
  BY <1>4, <1>5
<1> QED BY <1>3, <1>4, <1>5, <1>6, <1>7, <1>8

\* The sum of amounts over a set of groups, and over two.
LEMMA AmountsLemma ==
  ASSUME NEW a, Amounts(a)
  PROVE  /\ \A G \in SUBSET Groups : Total(a, G) \in Int
         /\ \A G, H \in SUBSET Groups :
               G \cap H = {} => Total(a, G \cup H) = Total(a, G) + Total(a, H)
<1>1. \A G \in SUBSET Groups : IsFiniteSet(G) /\ \A g \in G : a[g] \in Int
  BY GroupsLemma DEF Amounts
<1>2. ASSUME NEW G \in SUBSET Groups PROVE Total(a, G) \in Int
  BY <1>1, SumType
<1>3. ASSUME NEW G \in SUBSET Groups, NEW H \in SUBSET Groups, G \cap H = {}
      PROVE  Total(a, G \cup H) = Total(a, G) + Total(a, H)
  <2>1. \A g \in G \cup H : a[g] \in Int
    BY <1>1
  <2> QED BY <1>1, <1>3, <2>1, SumUnion
<1> QED BY <1>2, <1>3

\* The views of a set of amounts, for c pieces completed, split its sums.
LEMMA ViewsLemma ==
  ASSUME NEW a, Amounts(a), NEW c \in Nat \ {0}, NEW v, v = Views(a, c)
  PROVE  /\ v.manufacturing.amount = Total(a, ManufacturingGroups)
         /\ v.manufacturing.unit_cost = HalfUp(Total(a, ManufacturingGroups) * 10000, c)
         /\ v.material.amount + v.labor.amount + v.overhead.amount = v.manufacturing.amount
         /\ v.variable_fixed.variable_cost_1.amount + v.variable_fixed.fixed_cost_1.amount
               = v.manufacturing.amount
         /\ v.post = Total(a, PostCodes)
         /\ v.variable_fixed.total_cost_2.amount = Total(a, ManufacturingGroups) + Total(a, PostCodes)
         /\ \A g \in ManufacturingGroups :
               /\ v.groups[g].metric.amount = a[g]
               /\ v.groups[g].metric.unit_cost = HalfUp(a[g] * 10000, c)
<1>1. PICK m \in Int, l \in Int, o \in Int, x \in Int, y \in Int, s \in Int, f \in Int :
          /\ m = Total(a, MaterialGroups) /\ l = Total(a, LaborGroups)
          /\ o = Total(a, OverheadGroups) /\ x = Total(a, Variable1Groups)
          /\ y = Total(a, Fixed1Groups) /\ s = Total(a, VariablePost)
          /\ f = Total(a, FixedPost)
  BY GroupsLemma, AmountsLemma
<1>2. PICK t \in Int, p \in Int : t = Total(a, ManufacturingGroups) /\ p = Total(a, PostCodes)
  BY GroupsLemma, AmountsLemma
<1>3. t = m + l + o
  <2>1. MaterialGroups \cup LaborGroups \in SUBSET Groups
    BY GroupsLemma
  <2>2. Total(a, MaterialGroups \cup LaborGroups) = m + l
    BY <1>1, GroupsLemma, AmountsLemma
  <2>3. Total(a, (MaterialGroups \cup LaborGroups) \cup OverheadGroups) = (m + l) + o
    BY <1>1, <2>1, <2>2, GroupsLemma, AmountsLemma
  <2> QED BY <1>2, <2>3 DEF ManufacturingGroups
<1>4. t = x + y
  BY <1>1, <1>2, GroupsLemma, AmountsLemma
<1>5. p = s + f
  BY <1>1, <1>2, GroupsLemma, AmountsLemma DEF PostCodes
<1>6. \A n : Metric(n, c) = [amount |-> n, unit_cost |-> HalfUp(n * 10000, c)]
  BY DEF Metric
<1>7. v = [groups |-> [g \in ManufacturingGroups |->
                         [metric |-> Metric(a[g], c), share |-> Percent(a[g], t)]],
           manufacturing |-> Metric(t, c), material |-> Metric(m, c),
           labor |-> Metric(l, c), overhead |-> Metric(o, c),
           variable_fixed |-> VariableFixed(x, y, s, f, c), post |-> s + f]
  BY <1>1, <1>2 DEF Views
<1>8. /\ v.manufacturing = Metric(t, c) /\ v.material = Metric(m, c)
      /\ v.labor = Metric(l, c) /\ v.overhead = Metric(o, c)
      /\ v.variable_fixed = VariableFixed(x, y, s, f, c) /\ v.post = s + f
      /\ v.groups = [g \in ManufacturingGroups |->
                         [metric |-> Metric(a[g], c), share |-> Percent(a[g], t)]]
  BY <1>7
<1>9. /\ v.variable_fixed.variable_cost_1.amount = x /\ v.variable_fixed.fixed_cost_1.amount = y
      /\ v.variable_fixed.total_cost_2.amount = x + s + y + f
  BY <1>6, <1>8 DEF VariableFixed
<1>10. \A g \in ManufacturingGroups : v.groups[g].metric = Metric(a[g], c)
  BY <1>8
<1>11. \A g \in ManufacturingGroups : /\ v.groups[g].metric.amount = a[g]
                                      /\ v.groups[g].metric.unit_cost = HalfUp(a[g] * 10000, c)
  BY <1>6, <1>10
<1>12. /\ v.manufacturing.amount = t /\ v.manufacturing.unit_cost = HalfUp(t * 10000, c)
       /\ v.material.amount = m /\ v.labor.amount = l /\ v.overhead.amount = o
  BY <1>6, <1>8
<1> QED BY <1>2, <1>3, <1>4, <1>5, <1>8, <1>9, <1>11, <1>12

\* Batches with their figures.
Costed(S) ==
    /\ IsFiniteSet(S)
    /\ \A r \in S : /\ r.amounts \in [Groups -> Nat] /\ r.completed \in Nat \ {0}
                    /\ r.views = Views(r.amounts, r.completed)

\* The figures of a batch are those of its amounts.
LEMMA BatchLemma ==
  ASSUME NEW S, Costed(S), NEW r \in S
  PROVE  /\ Amounts(r.amounts) /\ r.completed \in Nat \ {0}
         /\ Total(r.amounts, ManufacturingGroups) \in Int /\ Total(r.amounts, PostCodes) \in Int
         /\ r.views.manufacturing.amount = Total(r.amounts, ManufacturingGroups)
         /\ r.views.manufacturing.unit_cost
               = HalfUp(Total(r.amounts, ManufacturingGroups) * 10000, r.completed)
         /\ r.views.post = Total(r.amounts, PostCodes)
         /\ r.views.variable_fixed.total_cost_2.amount
               = Total(r.amounts, ManufacturingGroups) + Total(r.amounts, PostCodes)
         /\ \A g \in ManufacturingGroups : r.views.groups[g].metric.amount = r.amounts[g]
<1>1. PICK a \in [Groups -> Nat], c \in Nat \ {0}, v \in {r.views} :
          a = r.amounts /\ c = r.completed /\ v = r.views /\ v = Views(a, c)
  BY DEF Costed
<1>2. Amounts(a)
  BY DEF Amounts
<1>3. Total(a, ManufacturingGroups) \in Int /\ Total(a, PostCodes) \in Int
  BY <1>2, GroupsLemma, AmountsLemma
<1>4. /\ v.manufacturing.amount = Total(a, ManufacturingGroups)
      /\ v.manufacturing.unit_cost = HalfUp(Total(a, ManufacturingGroups) * 10000, c)
      /\ v.post = Total(a, PostCodes)
      /\ v.variable_fixed.total_cost_2.amount = Total(a, ManufacturingGroups) + Total(a, PostCodes)
      /\ \A g \in ManufacturingGroups : v.groups[g].metric.amount = a[g]
  BY <1>1, <1>2, ViewsLemma
<1> QED BY <1>1, <1>2, <1>3, <1>4

\* The amounts of S, over a set of groups: batch by batch.
Over(S, G) == [b \in S |-> Total(b.amounts, G)]
Completed(S) == [b \in S |-> b.completed]

\* What a report has: the amounts a of S by group, and c pieces completed.
Reports(report, S, a, c) ==
    /\ Amounts(a) /\ c \in Nat \ {0} /\ c = Total(Completed(S), S)
    /\ report.views = Views(a, c) /\ report.batch_count = Cardinality(S)
    /\ \A G \in SUBSET Groups : Total(a, G) = Total(Over(S, G), S)

\* Summed by group or by batch, the amounts of a report are those of its batches.
LEMMA AggregateLemma ==
  ASSUME NEW S, Costed(S), S # {}
  PROVE  \E a, c : Reports(Aggregate(S), S, a, c)
<1> DEFINE column == [g \in Groups |->
               [b \in S |-> IF g \in ManufacturingGroups
                            THEN b.views.groups[g].metric.amount ELSE b.amounts[g]]]
           row == [b \in S |-> b.amounts]
           a == [g \in Groups |-> Total(column[g], S)]
           c == Total(Completed(S), S)
<1>1. IsFiniteSet(S) /\ \A b \in S : Amounts(b.amounts) /\ b.completed \in Nat \ {0}
  BY BatchLemma DEF Costed
<1>2. \A b \in S : \A g \in Groups : column[g][b] = b.amounts[g] /\ b.amounts[g] \in Int
  <2>1. \A b \in S : \A g \in ManufacturingGroups : b.views.groups[g].metric.amount = b.amounts[g]
    BY BatchLemma
  <2> QED BY <1>1, <2>1 DEF Amounts
<1>3. Amounts(a)
  <2> SUFFICES ASSUME NEW g \in Groups PROVE a[g] \in Int
    BY DEF Amounts
  <2>0. PICK f : f = column[g]
    OBVIOUS
  <2>1. f = column[g] /\ \A b \in S : f[b] \in Int
    BY <1>2, <2>0
  <2>2. Total(f, S) \in Int
    BY <1>1, <2>1, SumType
  <2> QED BY <2>1, <2>2
<1>4. c \in Nat \ {0}
  <2>0. PICK f : f = Completed(S)
    OBVIOUS
  <2>1. f = Completed(S) /\ \A b \in S : f[b] \in Nat \ {0}
    BY <1>1, <2>0 DEF Completed
  <2>2. PICK b \in S : TRUE
    OBVIOUS
  <2>3. \A x \in S \ {b} : f[x] \in Int /\ ~(f[x] < 0)
    BY <2>1
  <2>4. PICK R : R = S \ {b} /\ IsFiniteSet(R)
    BY <1>1, FS_Subset
  <2>5. Total(f, R) \in Int
    BY <2>3, <2>4, SumType
  <2>6. ~(Total(f, R) < 0)
    <3>1. CASE R = {}
      BY <3>1, SumEmpty
    <3>2. CASE R # {}
      BY <2>3, <2>4, <3>2, SumSign
    <3> QED BY <3>1, <3>2
  <2>7. Total(f, S) = f[b] + Total(f, R)
    <3>1. \A x \in S : f[x] \in Int
      BY <2>1
    <3> QED BY <1>1, <2>4, <3>1, SumSplit
  <2> QED BY <2>1, <2>5, <2>6, <2>7
<1>5. ASSUME NEW G \in SUBSET Groups PROVE Total(a, G) = Total(Over(S, G), S)
  <2>1. IsFiniteSet(G)
    BY GroupsLemma
  <2>2. Crosses(row, column, S, G)
    BY <1>2 DEF Crosses
  <2>3. PICK m, k : m = row /\ k = column
    OBVIOUS
  <2>4. Crosses(m, k, S, G)
    BY <2>2, <2>3
  <2> DEFINE h == [g \in G |-> Total(k[g], S)]
  <2>5. Total(h, G) = Total([b \in S |-> Total(m[b], G)], S)
    <3> HIDE DEF row, column, a, c
    <3> QED BY <1>1, <2>1, <2>4, SumSwap
  <2>6. [b \in S |-> Total(m[b], G)] = Over(S, G)
    BY <2>3 DEF Over
  <2>7. Total(a, G) = Total(h, G)
    <3>1. \A g \in G : a[g] = h[g]
      BY <2>3
    <3> HIDE DEF a, h
    <3> QED BY <2>1, <3>1, SumSame
  <2> QED BY <2>5, <2>6, <2>7
<1>6. Aggregate(S).views = Views(a, c) /\ Aggregate(S).batch_count = Cardinality(S)
  <2>1. a = [g \in Groups |->
              Total([b \in S |-> IF g \in ManufacturingGroups
                                 THEN b.views.groups[g].metric.amount ELSE b.amounts[g]], S)]
    OBVIOUS
  <2> QED BY <2>1 DEF Aggregate, Completed
<1>7. Reports(Aggregate(S), S, a, c)
  <2> HIDE DEF a
  <2> QED BY <1>3, <1>4, <1>5, <1>6 DEF Reports
<1> QED BY <1>7

\* The figures of a report are the sums of the figures of its batches.
LEMMA ReportLemma ==
  ASSUME NEW S, Costed(S), S # {}, NEW report, NEW a, NEW c, Reports(report, S, a, c)
  PROVE  /\ report.views.manufacturing.amount = Total([b \in S |-> b.views.manufacturing.amount], S)
         /\ report.views.post = Total([b \in S |-> b.views.post], S)
         /\ report.views.variable_fixed.total_cost_2.amount
               = Total([b \in S |-> b.views.variable_fixed.total_cost_2.amount], S)
<1>1. /\ report.views.manufacturing.amount = Total(a, ManufacturingGroups)
      /\ report.views.post = Total(a, PostCodes)
      /\ report.views.variable_fixed.total_cost_2.amount
            = Total(a, ManufacturingGroups) + Total(a, PostCodes)
  BY ViewsLemma DEF Reports
<1>2. /\ Total(a, ManufacturingGroups) = Total(Over(S, ManufacturingGroups), S)
      /\ Total(a, PostCodes) = Total(Over(S, PostCodes), S)
  BY GroupsLemma DEF Reports
<1>3. [b \in S |-> b.views.manufacturing.amount] = Over(S, ManufacturingGroups)
  BY BatchLemma DEF Over
<1>4. [b \in S |-> b.views.post] = Over(S, PostCodes)
  BY BatchLemma DEF Over
<1>5. PICK f, h, k : /\ f = Over(S, ManufacturingGroups) /\ h = Over(S, PostCodes)
                     /\ k = [b \in S |-> b.views.variable_fixed.total_cost_2.amount]
  OBVIOUS
<1>6. Combines(k, 1, f, 1, h, S)
  <2> SUFFICES ASSUME NEW b \in S PROVE f[b] \in Int /\ h[b] \in Int /\ k[b] = 1 * f[b] + 1 * h[b]
    BY DEF Combines
  <2>1. /\ f[b] = Total(b.amounts, ManufacturingGroups) /\ h[b] = Total(b.amounts, PostCodes)
        /\ k[b] = b.views.variable_fixed.total_cost_2.amount
    BY <1>5 DEF Over
  <2>2. f[b] \in Int /\ h[b] \in Int /\ k[b] = f[b] + h[b]
    BY <2>1, BatchLemma
  <2> QED BY <2>2
<1>7. Total(k, S) = 1 * Total(f, S) + 1 * Total(h, S)
  BY <1>6, SumLinear DEF Costed
<1>8. Total(f, S) \in Int /\ Total(h, S) \in Int
  <2>1. \A b \in S : f[b] \in Int /\ h[b] \in Int
    BY <1>6 DEF Combines
  <2> QED BY <2>1, SumType DEF Costed
<1> QED BY <1>1, <1>2, <1>3, <1>4, <1>5, <1>7, <1>8

\* What the overview adds up is the total of the two sorts of costs.
LEMMA OverviewLemma ==
  ASSUME NEW S, Costed(S)
  PROVE  OverviewTotals(S).total = OverviewTotals(S).manufacturing + OverviewTotals(S).post
<1>1. PICK f, h, k : /\ f = [b \in S |-> b.views.manufacturing.amount]
                     /\ h = [b \in S |-> b.views.post]
                     /\ k = [b \in S |-> b.views.variable_fixed.total_cost_2.amount]
  OBVIOUS
<1>2. Combines(k, 1, f, 1, h, S)
  <2> SUFFICES ASSUME NEW b \in S PROVE f[b] \in Int /\ h[b] \in Int /\ k[b] = 1 * f[b] + 1 * h[b]
    BY DEF Combines
  <2>1. f[b] \in Int /\ h[b] \in Int /\ k[b] = f[b] + h[b]
    BY <1>1, BatchLemma
  <2> QED BY <2>1
<1>3. Total(k, S) = 1 * Total(f, S) + 1 * Total(h, S)
  BY <1>2, SumLinear DEF Costed
<1>4. Total(f, S) \in Int /\ Total(h, S) \in Int
  <2>1. \A b \in S : f[b] \in Int /\ h[b] \in Int
    BY <1>2 DEF Combines
  <2> QED BY <2>1, SumType DEF Costed
<1>5. /\ OverviewTotals(S).total = Total(k, S) /\ OverviewTotals(S).manufacturing = Total(f, S)
      /\ OverviewTotals(S).post = Total(h, S)
  BY <1>1 DEF OverviewTotals
<1> QED BY <1>3, <1>4, <1>5

\* A mean weighted by quantity lies between the least and the greatest of what it is of,
\* also when all of them are rounded.
LEMMA MeanLemma ==
  ASSUME NEW S, Costed(S), S # {}, NEW report, NEW a, NEW c, Reports(report, S, a, c)
  PROVE  \E u, w \in {b.views.manufacturing.unit_cost : b \in S} :
            u <= report.views.manufacturing.unit_cost /\ report.views.manufacturing.unit_cost <= w
<1>1. PICK m \in Int, n \in Nat \ {0}, unit \in Int :
          /\ m = Total(Over(S, ManufacturingGroups), S) /\ n = c /\ n = Total(Completed(S), S)
          /\ unit = report.views.manufacturing.unit_cost /\ unit = HalfUp(m * 10000, n)
  <2>1. /\ Amounts(a) /\ c \in Nat \ {0} /\ report.views = Views(a, c) /\ c = Total(Completed(S), S)
        /\ Total(a, ManufacturingGroups) = Total(Over(S, ManufacturingGroups), S)
    BY GroupsLemma DEF Reports
  <2>2. Total(a, ManufacturingGroups) \in Int
    BY <2>1, GroupsLemma, AmountsLemma
  <2>3. report.views.manufacturing.unit_cost = HalfUp(Total(a, ManufacturingGroups) * 10000, c)
    BY <2>1, ViewsLemma
  <2>4. HalfUp(Total(a, ManufacturingGroups) * 10000, c) \in Int
    <3>1. PICK n \in Int : n = Total(a, ManufacturingGroups) * 10000
      BY <2>2
    <3> QED BY <2>1, <3>1, HalfUpLemma
  <2> QED BY <2>1, <2>2, <2>3, <2>4
<1>2. PICK f, h : f = Over(S, ManufacturingGroups) /\ h = Completed(S)
  OBVIOUS
<1>3. ASSUME NEW b \in S
      PROVE  /\ f[b] \in Int /\ h[b] \in Nat \ {0}
             /\ b.views.manufacturing.unit_cost = HalfUp(f[b] * 10000, h[b])
  <2>1. f[b] = Total(b.amounts, ManufacturingGroups) /\ h[b] = b.completed
    BY <1>2 DEF Over, Completed
  <2> QED BY <2>1, BatchLemma
<1>4. ASSUME NEW k \in Int
      PROVE  LET x == 20000 * m + (1 - 2 * k) * n
             IN  /\ x >= 0 => \E b \in S : k <= HalfUp(f[b] * 10000, h[b])
                 /\ x < 0 => \E b \in S : ~(k <= HalfUp(f[b] * 10000, h[b]))
  <2>1. PICK j \in Int : j = 1 - 2 * k
    OBVIOUS
  <2> DEFINE g == [b \in S |-> 20000 * f[b] + j * h[b]]
  <2>2. \A b \in S : g[b] = 20000 * f[b] + j * h[b]
    OBVIOUS
  <2> HIDE DEF g
  <2>3. Combines(g, 20000, f, j, h, S)
    BY <1>3, <2>2 DEF Combines
  <2>4. Total(g, S) = 20000 * m + j * n
    BY <1>1, <1>2, <2>3, SumLinear DEF Costed
  <2>5. ASSUME NEW b \in S PROVE g[b] \in Int /\ (g[b] >= 0 <=> k <= HalfUp(f[b] * 10000, h[b]))
    <3>1. PICK y \in Int, d \in Nat \ {0} : y = f[b] /\ d = h[b]
      BY <1>3
    <3>2. g[b] = 20000 * y + j * d
      BY <2>2, <3>1
    <3>3. k <= HalfUp(y * 10000, d) <=> 2 * (d * k) <= 2 * (y * 10000) + d
      BY HalfUpLemma
    <3>4. j * d = d - 2 * (d * k) /\ j * d \in Int /\ d * k \in Int
      BY <2>1
    <3>5. g[b] >= 0 <=> 2 * (d * k) <= 2 * (y * 10000) + d
      BY <3>2, <3>4
    <3> QED BY <3>1, <3>2, <3>3, <3>4, <3>5
  <2>6. /\ Total(g, S) >= 0 => \E b \in S : g[b] >= 0
        /\ Total(g, S) < 0 => \E b \in S : g[b] < 0
    BY <2>5, SumSign DEF Costed
  <2> QED BY <2>1, <2>4, <2>5, <2>6
<1>5. PICK b \in S : unit <= HalfUp(f[b] * 10000, h[b])
  <2>1. 2 * (n * unit) <= 2 * (m * 10000) + n
    <3>1. PICK y \in Int : y = m * 10000
      OBVIOUS
    <3>2. 2 * (n * HalfUp(y, n)) <= 2 * y + n
      BY HalfUpLemma
    <3> QED BY <1>1, <3>1, <3>2
  <2>2. (1 - 2 * unit) * n = n - 2 * (n * unit) /\ n * unit \in Int
    OBVIOUS
  <2>3. 20000 * m + (1 - 2 * unit) * n >= 0
    BY <2>1, <2>2
  <2> QED BY <1>4, <2>3
<1>6. PICK d \in S : ~(unit + 1 <= HalfUp(f[d] * 10000, h[d]))
  <2>1. ~(2 * (n * (unit + 1)) <= 2 * (m * 10000) + n)
    <3>1. PICK k \in Int : k = unit + 1 /\ ~(k <= unit)
      OBVIOUS
    <3>2. PICK y \in Int : y = m * 10000
      OBVIOUS
    <3>3. k <= HalfUp(y, n) <=> 2 * (n * k) <= 2 * y + n
      BY HalfUpLemma
    <3> QED BY <1>1, <3>1, <3>2, <3>3
  <2>2. (1 - 2 * (unit + 1)) * n = n - 2 * (n * (unit + 1)) /\ n * (unit + 1) \in Int
    OBVIOUS
  <2>3. 20000 * m + (1 - 2 * (unit + 1)) * n < 0
    BY <2>1, <2>2
  <2>4. unit + 1 \in Int
    OBVIOUS
  <2> QED BY <1>4, <2>3, <2>4
<1>7. HalfUp(f[d] * 10000, h[d]) \in Int
  <2>1. PICK y \in Int, k \in Nat \ {0} : y = f[d] * 10000 /\ k = h[d]
    BY <1>3
  <2>2. HalfUp(y, k) \in Int
    BY HalfUpLemma
  <2> QED BY <2>1, <2>2
<1>8. HalfUp(f[d] * 10000, h[d]) <= unit
  BY <1>6, <1>7
<1> QED BY <1>1, <1>3, <1>5, <1>8

\* The unit costs of the groups of a report add up to its unit cost, but for half a
\* cent for each of them and for their total.
LEMMA RoundingLemma ==
  ASSUME NEW S, NEW report, NEW a, NEW c, Reports(report, S, a, c),
         NEW f, \A g \in ManufacturingGroups : f[g] = report.views.groups[g].metric.unit_cost
  PROVE  LET off == Total(f, ManufacturingGroups) - report.views.manufacturing.unit_cost
             most == Cardinality(ManufacturingGroups) + 1
         IN  /\ \A g \in ManufacturingGroups : f[g] \in Int
             /\ Total(f, ManufacturingGroups) \in Int
             /\ report.views.manufacturing.unit_cost \in Int
             /\ -most <= 2 * off /\ 2 * off <= most
<1>1. Amounts(a) /\ c \in Nat \ {0} /\ report.views = Views(a, c)
  BY DEF Reports
<1>2. PICK G : G = ManufacturingGroups
  OBVIOUS
<1>3. IsFiniteSet(G) /\ G \in SUBSET Groups
  BY <1>2, GroupsLemma
<1>4. PICK N \in Nat : N = Cardinality(G)
  BY <1>3, FS_CardinalityType
<1>5. PICK t \in Int, unit \in Int : /\ t = Total(a, G)
                                     /\ unit = report.views.manufacturing.unit_cost
                                     /\ unit = HalfUp(t * 10000, c)
  <2>1. Total(a, G) \in Int
    BY <1>1, <1>3, AmountsLemma
  <2>2. report.views.manufacturing.unit_cost = HalfUp(Total(a, G) * 10000, c)
    BY <1>1, <1>2, ViewsLemma
  <2>3. HalfUp(Total(a, G) * 10000, c) \in Int
    <3>1. PICK n \in Int : n = Total(a, G) * 10000
      BY <2>1
    <3> QED BY <1>1, <3>1, HalfUpLemma
  <2> QED BY <2>1, <2>2, <2>3
<1>6. ASSUME NEW g \in G PROVE a[g] \in Int /\ f[g] \in Int /\ f[g] = HalfUp(a[g] * 10000, c)
  <2>1. a[g] \in Int
    BY <1>1, <1>3 DEF Amounts
  <2>2. f[g] = HalfUp(a[g] * 10000, c)
    BY <1>1, <1>2, ViewsLemma
  <2>3. HalfUp(a[g] * 10000, c) \in Int
    <3>1. PICK n \in Int : n = a[g] * 10000
      BY <2>1
    <3>2. HalfUp(n, c) \in Int
      BY <1>1, HalfUpLemma
    <3> QED BY <3>1, <3>2
  <2> QED BY <2>1, <2>2, <2>3
<1>7. PICK s \in Int : s = Total(f, G)
  <2>1. \A g \in G : f[g] \in Int
    BY <1>6
  <2> QED BY <1>3, <2>1, SumType
<1>8. PICK k \in Int : k = 2 * c
  BY <1>1
<1> DEFINE e == [g \in G |-> k * f[g] + (-20000) * a[g]]
<1>9. \A g \in G : e[g] = k * f[g] + (-20000) * a[g]
  OBVIOUS
<1> HIDE DEF e
<1>10. ASSUME NEW g \in G PROVE e[g] \in Int /\ -c <= e[g] /\ e[g] <= c
  <2>1. PICK x \in Int, u \in Int : x = a[g] /\ u = f[g]
    BY <1>6
  <2>2. PICK n \in Int : n = x * 10000 /\ u = HalfUp(n, c)
    BY <1>6, <2>1
  <2>3. 2 * (c * u) <= 2 * n + c /\ 2 * n + c < 2 * (c * u) + 2 * c
    <3>1. /\ 2 * (c * HalfUp(n, c)) <= 2 * n + c
          /\ 2 * n + c < 2 * (c * HalfUp(n, c)) + 2 * c
      BY <1>1, HalfUpLemma
    <3> QED BY <2>2, <3>1
  <2>4. e[g] = k * u + (-20000) * x
    <3>1. e[g] = k * f[g] + (-20000) * a[g]
      BY <1>9
    <3> QED BY ONLY <2>1, <3>1
  <2>5. k * u = 2 * (c * u) /\ c * u \in Int
    BY <1>1, <1>8
  <2> QED BY <1>1, <2>2, <2>3, <2>4, <2>5
<1>11. Total(e, G) = k * s + (-20000) * t
  <2>1. Combines(e, k, f, -20000, a, G)
    BY <1>6, <1>9 DEF Combines
  <2>2. -20000 \in Int
    OBVIOUS
  <2> QED BY <1>3, <1>5, <1>7, <2>1, <2>2, SumLinear
<1>12. PICK E \in Int : E = Total(e, G) /\ -(c * N) <= E /\ E <= c * N
  <2>1. PICK o : o = [g \in G |-> c]
    OBVIOUS
  <2>2. Total(o, G) = c * N
    BY <1>1, <1>3, <1>4, <2>1, SumConstant
  <2>3. \A g \in G : e[g] \in Int
    BY <1>10
  <2>4. PICK E \in Int : E = Total(e, G)
    BY <1>3, <2>3, SumType
  <2>5. ASSUME NEW i \in {1, -1} PROVE i * E + 1 * (c * N) >= 0
    <3>1. PICK h : h = [g \in G |-> i * e[g] + 1 * o[g]]
      OBVIOUS
    <3>2. \A g \in G : h[g] \in Int /\ ~(h[g] < 0)
      BY <1>1, <1>10, <2>1, <3>1
    <3>3. Combines(h, i, e, 1, o, G)
      BY <1>1, <1>10, <2>1, <3>1 DEF Combines
    <3>4. Total(h, G) = i * E + 1 * (c * N)
      BY <1>3, <2>2, <2>4, <3>3, SumLinear
    <3>5. Total(h, G) \in Int /\ ~(Total(h, G) < 0)
      <4>1. Total(h, G) \in Int
        BY <1>3, <3>2, SumType
      <4>2. G # {}
        BY <1>2 DEF ManufacturingGroups, MaterialGroups
      <4> QED BY <1>3, <3>2, <4>1, <4>2, SumSign
    <3> QED BY <3>4, <3>5
  <2>6. c * N \in Int
    BY <1>1
  <2> QED BY <2>4, <2>5, <2>6
<1>13. /\ 2 * (c * unit) <= 2 * (t * 10000) + c
       /\ 2 * (t * 10000) + c < 2 * (c * unit) + 2 * c
  <2>1. PICK n \in Int : n = t * 10000
    OBVIOUS
  <2>2. unit = HalfUp(n, c)
    BY <1>5, <2>1
  <2>3. 2 * (c * HalfUp(n, c)) <= 2 * n + c /\ 2 * n + c < 2 * (c * HalfUp(n, c)) + 2 * c
    BY <1>1, HalfUpLemma
  <2> QED BY <2>1, <2>2, <2>3
<1>14. PICK off \in Int : off = s - unit
  OBVIOUS
<1>15. -(c * N + c) <= 2 * (c * off) /\ 2 * (c * off) <= c * N + c
  <2>1. k * s = 2 * (c * s) /\ c * s \in Int /\ c * unit \in Int /\ c * N \in Int
    BY <1>1, <1>8
  <2>2. c * off = c * s - c * unit
    BY <1>1, <1>14
  <2> QED BY <1>1, <1>11, <1>12, <1>13, <2>1, <2>2
<1>16. -(N + 1) <= 2 * off /\ 2 * off <= N + 1
  <2>1. \A x \in Int : (x < 0 => c * x < 0) /\ c * x \in Int
    BY <1>1
  <2>2. c * ((N + 1) - 2 * off) = (c * N + c) - 2 * (c * off)
    BY <1>1
  <2>3. c * ((N + 1) + 2 * off) = (c * N + c) + 2 * (c * off)
    BY <1>1
  <2>4. c * N \in Int /\ c * off \in Int
    BY <1>1
  <2>5. ~(c * ((N + 1) - 2 * off) < 0) /\ ~(c * ((N + 1) + 2 * off) < 0)
    BY <1>1, <1>15, <2>2, <2>3, <2>4
  <2>6. (N + 1) - 2 * off \in Int /\ (N + 1) + 2 * off \in Int
    OBVIOUS
  <2>7. ~((N + 1) - 2 * off < 0) /\ ~((N + 1) + 2 * off < 0)
    BY <2>1, <2>5, <2>6
  <2> QED BY <2>7
<1> QED BY <1>2, <1>4, <1>5, <1>6, <1>7, <1>14, <1>16

\* In a comparison of two reports the changes of the groups add up to the change of the
\* total, but for the rounding of both.
LEMMA ComparisonLemma ==
  ASSUME NEW S, NEW base, NEW a, NEW c, Reports(base, S, a, c),
         NEW R, NEW current, NEW b, NEW d, Reports(current, R, b, d)
  PROVE  LET rest == Total(Comparison(base, current).groups, ManufacturingGroups)
                         - Comparison(base, current).manufacturing
             most == Cardinality(ManufacturingGroups) + 1
         IN  -most <= rest /\ rest <= most
<1>1. PICK f, h, k :
          /\ f = [g \in ManufacturingGroups |-> base.views.groups[g].metric.unit_cost]
          /\ h = [g \in ManufacturingGroups |-> current.views.groups[g].metric.unit_cost]
          /\ k = [g \in ManufacturingGroups |-> current.views.groups[g].metric.unit_cost
                                                  - base.views.groups[g].metric.unit_cost]
  OBVIOUS
<1>2. /\ Comparison(base, current).groups = k
      /\ Comparison(base, current).manufacturing
            = current.views.manufacturing.unit_cost - base.views.manufacturing.unit_cost
  BY <1>1 DEF Comparison
<1>0. PICK G : G = ManufacturingGroups /\ IsFiniteSet(G)
  BY GroupsLemma
<1>3. PICK N \in Nat : G = ManufacturingGroups /\ IsFiniteSet(G) /\ N = Cardinality(G)
  BY <1>0, FS_CardinalityType
<1>4. PICK u \in Int, s \in Int :
          /\ u = base.views.manufacturing.unit_cost /\ s = Total(f, G)
          /\ -(N + 1) <= 2 * (s - u) /\ 2 * (s - u) <= N + 1
  <2>1. \A g \in ManufacturingGroups : f[g] = base.views.groups[g].metric.unit_cost
    BY <1>1
  <2> QED BY <1>3, <2>1, RoundingLemma
<1>5. PICK w \in Int, t \in Int :
          /\ w = current.views.manufacturing.unit_cost /\ t = Total(h, G)
          /\ -(N + 1) <= 2 * (t - w) /\ 2 * (t - w) <= N + 1
  <2>1. \A g \in ManufacturingGroups : h[g] = current.views.groups[g].metric.unit_cost
    BY <1>1
  <2> QED BY <1>3, <2>1, RoundingLemma
<1>6. \A g \in G : f[g] \in Int /\ h[g] \in Int
  BY <1>1, <1>3, RoundingLemma
<1>7. Combines(k, 1, h, -1, f, G)
  <2> SUFFICES ASSUME NEW g \in G PROVE h[g] \in Int /\ f[g] \in Int /\ k[g] = 1 * h[g] + (-1) * f[g]
    BY DEF Combines
  <2>1. k[g] = h[g] - f[g]
    BY <1>1, <1>3
  <2> QED BY <1>6, <2>1
<1>8. Total(k, G) = 1 * t + (-1) * s
  <2>1. 1 \in Int /\ -1 \in Int
    OBVIOUS
  <2> QED BY <1>3, <1>4, <1>5, <1>7, <2>1, SumLinear
<1>9. Total(k, G) = t - s
  BY <1>8
<1> QED BY <1>2, <1>3, <1>4, <1>5, <1>9

\* The batches a principal sees in a period have their figures, and by part they are
\* those the reports of the parts are about.
LEMMA PartsLemma ==
  ASSUME cat \in Catalogs, NEW ctx, NEW p, NEW S, S = Overview(ctx, p)
  PROVE  /\ Costed(S) /\ \A r \in S : r.part \in PartsOf
         /\ \A x : PartPeriod(ctx, x, p) = {r \in S : r.part = x}
         /\ \A x : Costed(PartPeriod(ctx, x, p))
<1>1. Costed(Rows) /\ \A r \in Rows : r.part \in PartsOf
  <2>1. CASE Rows = {}
    BY <2>1, FS_EmptySet DEF Costed
  <2>2. CASE Rows # {}
    <3>1. cat \in Catalogs \ {NoRow} /\ Rows = cat.rows
      BY <2>2 DEF Rows
    <3>2. /\ IsFiniteSet(cat.rows)
          /\ \A r \in cat.rows : /\ r.amounts \in [Groups -> Nat] /\ r.completed \in Nat \ {0}
                                  /\ r.views = Views(r.amounts, r.completed)
      BY <3>1, CatalogAssumption
    <3> QED BY <3>1, <3>2, RowsLemma DEF Costed
  <2> QED BY <2>1, <2>2
<1>2. S \subseteq Rows
  BY DEF Overview
<1>3. \A T \in SUBSET S : Costed(T)
  BY <1>1, <1>2, FS_Subset DEF Costed
<1>4. ASSUME NEW x PROVE PartPeriod(ctx, x, p) = {r \in S : r.part = x}
  <2>1. \A r : r \in S <=> /\ "cost_calculation" \in ctx.caps /\ PeriodAllowed(ctx, p)
                           /\ r \in Rows /\ r.period = p /\ PartAllowed(ctx, r.part)
    BY DEF Overview
  <2>2. \A r : r \in PartPeriod(ctx, x, p) <=>
               /\ "cost_calculation" \in ctx.caps /\ PeriodAllowed(ctx, p)
               /\ r \in Rows /\ r.period = p /\ PartAllowed(ctx, x) /\ r.part = x
    BY DEF PartPeriod, CostScope
  <2> QED BY <2>1, <2>2
<1>5. ASSUME NEW x PROVE Costed(PartPeriod(ctx, x, p))
  <2>1. PartPeriod(ctx, x, p) \in SUBSET S
    BY <1>4
  <2> QED BY <1>3, <2>1
<1> QED BY <1>1, <1>2, <1>3, <1>4, <1>5

\* The parts with a batch in the period.
Sold(ctx, p) == {x \in PartsOf : PartPeriod(ctx, x, p) # {}}

\* Figures added up part by part are the figures added up at once.
LEMMA ByPartLemma ==
  ASSUME cat \in Catalogs, NEW ctx, NEW p, NEW S, S = Overview(ctx, p),
         NEW f, \A r \in S : f[r] \in Int,
         NEW g, \A x \in Sold(ctx, p) : g[x] = Total(f, PartPeriod(ctx, x, p))
  PROVE  Total(g, Sold(ctx, p)) = Total(f, S)
<1>1. /\ IsFiniteSet(S) /\ \A r \in S : r.part \in PartsOf
      /\ \A x : PartPeriod(ctx, x, p) = {r \in S : r.part = x}
  BY PartsLemma DEF Costed
<1>2. PICK K : K = Sold(ctx, p)
  OBVIOUS
<1>3. K = {r.part : r \in S}
  BY <1>1, <1>2 DEF Sold
<1>4. PICK key, part : key = [r \in S |-> r.part] /\ part = [x \in K |-> PartPeriod(ctx, x, p)]
  OBVIOUS
<1>5. IsFiniteSet(K)
  <2>1. key \in [S -> K] /\ \A x \in K : \E r \in S : key[r] = x
    BY <1>3, <1>4
  <2>2. key \in Surjection(S, K)
    BY <2>1 DEF Surjection
  <2> QED BY <1>1, <2>2, FS_Surjection
<1>6. Grouped(part, key, S, K)
  <2>1. \A x \in K : part[x] \subseteq S /\ \A r \in S : r \in part[x] <=> key[r] = x
    BY <1>1, <1>4
  <2>2. \A r \in S : key[r] \in K
    BY <1>3, <1>4
  <2> QED BY <2>1, <2>2 DEF Grouped
<1>7. \A x \in K : g[x] = Total(f, part[x])
  BY <1>2, <1>4
<1> QED BY <1>1, <1>2, <1>5, <1>6, <1>7, SumGroups

\* The report of a part in a period.
LEMMA SoldLemma ==
  ASSUME cat \in Catalogs, NEW ctx, NEW p, NEW x \in Sold(ctx, p), NEW S, S = Overview(ctx, p),
         NEW T, T = PartPeriod(ctx, x, p), NEW report, report = Aggregate(T)
  PROVE  /\ report.views.manufacturing.amount
               = Total([b \in S |-> b.views.manufacturing.amount], T)
         /\ report.views.post = Total([b \in S |-> b.views.post], T)
         /\ report.views.variable_fixed.total_cost_2.amount
               = Total([b \in S |-> b.views.variable_fixed.total_cost_2.amount], T)
         /\ report.batch_count = Total([b \in S |-> 1], T)
         /\ report.views.material.amount + report.views.labor.amount + report.views.overhead.amount
               = report.views.manufacturing.amount
         /\ report.views.variable_fixed.variable_cost_1.amount
               + report.views.variable_fixed.fixed_cost_1.amount = report.views.manufacturing.amount
         /\ \E u, w \in {b.views.manufacturing.unit_cost : b \in T} :
               /\ u <= report.views.manufacturing.unit_cost
               /\ report.views.manufacturing.unit_cost <= w
<1>1. Costed(T) /\ T # {} /\ T \subseteq S /\ IsFiniteSet(T)
  BY PartsLemma DEF Sold, Costed
<1>2. PICK a, c : Reports(report, T, a, c)
  BY <1>1, AggregateLemma
<1>3. \A b \in T : /\ [d \in S |-> d.views.manufacturing.amount][b]
                          = [d \in T |-> d.views.manufacturing.amount][b]
                   /\ [d \in S |-> d.views.post][b] = [d \in T |-> d.views.post][b]
                   /\ [d \in S |-> d.views.variable_fixed.total_cost_2.amount][b]
                          = [d \in T |-> d.views.variable_fixed.total_cost_2.amount][b]
                   /\ [d \in S |-> 1][b] = 1
  BY <1>1
<1>4. Total([b \in S |-> b.views.manufacturing.amount], T)
          = Total([b \in T |-> b.views.manufacturing.amount], T)
  BY <1>1, <1>3, SumSame
<1>5. Total([b \in S |-> b.views.post], T) = Total([b \in T |-> b.views.post], T)
  BY <1>1, <1>3, SumSame
<1>6. Total([b \in S |-> b.views.variable_fixed.total_cost_2.amount], T)
          = Total([b \in T |-> b.views.variable_fixed.total_cost_2.amount], T)
  BY <1>1, <1>3, SumSame
<1>7. report.batch_count = Total([b \in S |-> 1], T)
  <2>1. PICK f : f = [b \in S |-> 1]
    OBVIOUS
  <2>2. \A b \in T : f[b] = 1
    BY <1>1, <2>1
  <2>3. Total(f, T) = 1 * Cardinality(T)
    BY <1>1, <2>2, SumConstant
  <2>4. Cardinality(T) \in Nat /\ report.batch_count = Cardinality(T)
    BY <1>1, <1>2, FS_CardinalityType DEF Reports
  <2> QED BY <2>1, <2>3, <2>4
<1>8. /\ report.views.material.amount + report.views.labor.amount + report.views.overhead.amount
            = report.views.manufacturing.amount
      /\ report.views.variable_fixed.variable_cost_1.amount
            + report.views.variable_fixed.fixed_cost_1.amount = report.views.manufacturing.amount
  BY <1>2, ViewsLemma DEF Reports
<1>9. /\ report.views.manufacturing.amount = Total([b \in T |-> b.views.manufacturing.amount], T)
      /\ report.views.post = Total([b \in T |-> b.views.post], T)
      /\ report.views.variable_fixed.total_cost_2.amount
            = Total([b \in T |-> b.views.variable_fixed.total_cost_2.amount], T)
  BY <1>1, <1>2, ReportLemma
<1>10. \E u, w \in {b.views.manufacturing.unit_cost : b \in T} :
          /\ u <= report.views.manufacturing.unit_cost
          /\ report.views.manufacturing.unit_cost <= w
  BY <1>1, <1>2, MeanLemma
<1> QED BY <1>4, <1>5, <1>6, <1>7, <1>8, <1>9, <1>10

\* The figures of a period agree.
LEMMA FiguresLemma ==
  ASSUME cat \in Catalogs, NEW ctx, NEW p
  PROVE  Figures(ctx, p)
<1>1. PICK S, K : S = Overview(ctx, p) /\ K = Sold(ctx, p)
  OBVIOUS
<1>2. PICK report : report = [x \in K |-> Aggregate(PartPeriod(ctx, x, p))]
  OBVIOUS
<1>3. PICK over : over = OverviewTotals(S)
  OBVIOUS
<1>4. Costed(S)
  BY <1>1, PartsLemma
<1>5. \A b \in S : /\ b.views.manufacturing.amount \in Int /\ b.views.post \in Int
                   /\ b.views.variable_fixed.total_cost_2.amount \in Int
  BY <1>4, BatchLemma
<1>6. /\ over.manufacturing = Total([b \in S |-> b.views.manufacturing.amount], S)
      /\ over.post = Total([b \in S |-> b.views.post], S)
      /\ over.total = Total([b \in S |-> b.views.variable_fixed.total_cost_2.amount], S)
      /\ over.batch_count = Cardinality(S) /\ over.total = over.manufacturing + over.post
  BY <1>3, <1>4, OverviewLemma DEF OverviewTotals
<1> DEFINE units(x) == {b.views.manufacturing.unit_cost : b \in PartPeriod(ctx, x, p)}
<1>7. ASSUME NEW x \in K
       PROVE  /\ report[x].views.manufacturing.amount
                    = Total([b \in S |-> b.views.manufacturing.amount], PartPeriod(ctx, x, p))
              /\ report[x].views.post
                    = Total([b \in S |-> b.views.post], PartPeriod(ctx, x, p))
              /\ report[x].views.variable_fixed.total_cost_2.amount
                    = Total([b \in S |-> b.views.variable_fixed.total_cost_2.amount],
                            PartPeriod(ctx, x, p))
              /\ report[x].batch_count = Total([b \in S |-> 1], PartPeriod(ctx, x, p))
              /\ report[x].views.material.amount + report[x].views.labor.amount
                    + report[x].views.overhead.amount = report[x].views.manufacturing.amount
              /\ report[x].views.variable_fixed.variable_cost_1.amount
                    + report[x].views.variable_fixed.fixed_cost_1.amount
                    = report[x].views.manufacturing.amount
              /\ \E u, w \in units(x) :
                    /\ u <= report[x].views.manufacturing.unit_cost
                    /\ report[x].views.manufacturing.unit_cost <= w
  <2>1. PICK r, T : r = report[x] /\ T = PartPeriod(ctx, x, p)
    OBVIOUS
  <2>2. r = Aggregate(T) /\ x \in Sold(ctx, p)
    BY <1>1, <1>2, <2>1
  <2>3. /\ r.views.manufacturing.amount = Total([b \in S |-> b.views.manufacturing.amount], T)
        /\ r.views.post = Total([b \in S |-> b.views.post], T)
        /\ r.views.variable_fixed.total_cost_2.amount
              = Total([b \in S |-> b.views.variable_fixed.total_cost_2.amount], T)
        /\ r.batch_count = Total([b \in S |-> 1], T)
    BY <1>1, <2>1, <2>2, SoldLemma
  <2>4. Costed(T) /\ T # {}
    BY <1>1, <2>1, <2>2, PartsLemma DEF Sold
  <2>5. PICK a, c : Reports(r, T, a, c)
    BY <2>2, <2>4, AggregateLemma
  <2>6. /\ r.views.material.amount + r.views.labor.amount + r.views.overhead.amount
              = r.views.manufacturing.amount
        /\ r.views.variable_fixed.variable_cost_1.amount + r.views.variable_fixed.fixed_cost_1.amount
              = r.views.manufacturing.amount
    BY <2>5, ViewsLemma DEF Reports
  <2>7. \E u, w \in {b.views.manufacturing.unit_cost : b \in T} :
            u <= r.views.manufacturing.unit_cost /\ r.views.manufacturing.unit_cost <= w
    BY <1>1, <2>1, <2>2, SoldLemma
  <2> QED BY <2>1, <2>3, <2>6, <2>7
<1>8. over.manufacturing = Total([x \in K |-> report[x].views.manufacturing.amount], K)
  <2>1. PICK f, g : /\ f = [b \in S |-> b.views.manufacturing.amount]
                    /\ g = [x \in K |-> report[x].views.manufacturing.amount]
    OBVIOUS
  <2>2. \A x \in K : g[x] = Total(f, PartPeriod(ctx, x, p))
    BY <1>7, <2>1
  <2>3. \A b \in S : f[b] \in Int
    BY <1>5, <2>1
  <2>4. Total(g, K) = Total(f, S)
    BY <1>1, <2>2, <2>3, ByPartLemma
  <2> QED BY <1>6, <2>1, <2>4
<1>9. over.post = Total([x \in K |-> report[x].views.post], K)
  <2>1. PICK f, g : /\ f = [b \in S |-> b.views.post]
                    /\ g = [x \in K |-> report[x].views.post]
    OBVIOUS
  <2>2. \A x \in K : g[x] = Total(f, PartPeriod(ctx, x, p))
    BY <1>7, <2>1
  <2>3. \A b \in S : f[b] \in Int
    BY <1>5, <2>1
  <2>4. Total(g, K) = Total(f, S)
    BY <1>1, <2>2, <2>3, ByPartLemma
  <2> QED BY <1>6, <2>1, <2>4
<1>10. over.total = Total([x \in K |-> report[x].views.variable_fixed.total_cost_2.amount], K)
  <2>1. PICK f, g : /\ f = [b \in S |-> b.views.variable_fixed.total_cost_2.amount]
                    /\ g = [x \in K |-> report[x].views.variable_fixed.total_cost_2.amount]
    OBVIOUS
  <2>2. \A x \in K : g[x] = Total(f, PartPeriod(ctx, x, p))
    BY <1>7, <2>1
  <2>3. \A b \in S : f[b] \in Int
    BY <1>5, <2>1
  <2>4. Total(g, K) = Total(f, S)
    BY <1>1, <2>2, <2>3, ByPartLemma
  <2> QED BY <1>6, <2>1, <2>4
<1>11. over.batch_count = Total([x \in K |-> report[x].batch_count], K)
  <2>1. PICK f, g : f = [b \in S |-> 1] /\ g = [x \in K |-> report[x].batch_count]
    OBVIOUS
  <2>2. \A x \in K : g[x] = Total(f, PartPeriod(ctx, x, p))
    BY <1>7, <2>1
  <2>3. \A b \in S : f[b] = 1
    BY <2>1
  <2>4. Total(f, S) = 1 * Cardinality(S) /\ Cardinality(S) \in Nat
    BY <1>4, <2>3, SumConstant, FS_CardinalityType DEF Costed
  <2>5. Total(g, K) = Total(f, S)
    BY <1>1, <2>2, <2>3, ByPartLemma
  <2> QED BY <1>6, <2>1, <2>4, <2>5
<1> QED BY <1>1, <1>2, <1>3, <1>6, <1>7, <1>8, <1>9, <1>10, <1>11 DEF Figures, Sold

\* So do those of a comparison.
LEMMA ChangesLemma ==
  ASSUME cat \in Catalogs, NEW ctx, NEW x, NEW p, NEW base
  PROVE  ComparisonAddsUp(ctx, x, p, base)
<1>1. PICK S, T : S = PartPeriod(ctx, x, base) /\ T = PartPeriod(ctx, x, p)
  OBVIOUS
<1>2. SUFFICES ASSUME S # {}, T # {}
               PROVE  LET c == Comparison(Aggregate(S), Aggregate(T))
                          rest == Total(c.groups, ManufacturingGroups) - c.manufacturing
                          most == Cardinality(ManufacturingGroups) + 1
                      IN  -most <= rest /\ rest <= most
  BY <1>1 DEF ComparisonAddsUp
<1>3. Costed(S) /\ Costed(T)
  BY <1>1, PartsLemma
<1>4. PICK a, c : Reports(Aggregate(S), S, a, c)
  BY <1>2, <1>3, AggregateLemma
<1>5. PICK b, d : Reports(Aggregate(T), T, b, d)
  BY <1>2, <1>3, AggregateLemma
<1> QED BY <1>4, <1>5, ComparisonLemma

-----------------------------------------------------------------------------
(* The theorems *)

\* The invariant holds in every state.
THEOREM Invariant == Spec => []Inv
<1>1. Init => Inv
  <2> SUFFICES ASSUME Init PROVE Inv
    OBVIOUS
  <2>1. NoCall \in Call /\ NoCall.at = "idle" /\ Len(changes) = 0 /\ \A u \in Users : call[u] = NoCall
    BY DEF Init, NoCall, Call
  <2>2. MemberInv /\ HistoryOK
    BY <2>1, RoleAssumption, BoundAssumption
       DEF Init, MemberInv, TypeOK, FoundOK, MembersOnly, HistoryOK
  <2>3. AuditInv
    BY <2>1 DEF Init, AuditInv, Told, AuditTellsWhatHappened
  <2>4. ScopeInv
    BY <2>1 DEF Init, ScopeInv, StoredScopes, ReadyScopes, RunOK, HasScope, ScopeOf
  <2>5. RolesHeld
    BY <2>1 DEF RolesHeld
  <2> QED BY <2>2, <2>3, <2>4, <2>5 DEF Inv
<1>2. Inv /\ [Next]_vars => Inv'
  BY MemberStep, AuditStep, ScopeStep, RolesStep DEF Inv
<1> QED BY <1>1, <1>2, PTL DEF Spec

\* Every variable has its type.
THEOREM TypeCorrect == Spec => []TypeOK
<1>1. Inv => TypeOK
  BY DEF Inv, MemberInv
<1> QED BY <1>1, Invariant, PTL

\* set_data_scope looks its target up and writes in two transactions (iam_service.py);
\* since no call removes a member, only members are ever restricted.
THEOREM OnlyMembersAreRestricted == Spec => []MembersOnly
<1>1. Inv => MembersOnly
  BY DEF Inv, MemberInv
<1> QED BY <1>1, Invariant, PTL

\* Governance calls write and report in two transactions that others come between:
\* every event reports its own change, and no change is reported twice.
THEOREM EventsTellTheirChange == Spec => []AuditTellsWhatHappened
<1>1. Inv => AuditTellsWhatHappened
  BY DEF Inv, AuditInv
<1> QED BY <1>1, Invariant, PTL

\* All a run reads lies in the one scope its owner had when the run was submitted,
\* whatever is changed and published meanwhile (domain/authorization.py:113).
THEOREM RunsReadOneScope == Spec => []RunReadsOneScope
<1>1. Inv => RunReadsOneScope
  BY DEF Inv, ScopeInv, RunOK, Covered, RunReadsOneScope
<1> QED BY <1>1, Invariant, PTL

\* Whoever a request is authorised as, every way to the published costs gives the
\* rows of the one scope, and the pages of a list share none and miss none, for every
\* catalog, scope, page size and tie in the sort key (postgres_cost_repository.py).
THEOREM ReadPathsAgree == Spec => []PathsAgree
<1>1. Inv => PathsAgree
  <2> SUFFICES ASSUME Inv, NEW u \in Users, call[u].at = "ready"
               PROVE  LET ctx == Context(call[u].roles, call[u].scope)
                      IN  /\ QueriesGive(ctx, Granted(call[u].scope))
                          /\ \A p \in Periods, key \in {"done", "cost"} :
                                PagesSplit(ctx, p, key, 1..Cardinality(Rows))
    BY DEF PathsAgree
  <2>1. PICK held \in SUBSET RoleId, s \in {call[u].scope} : held = call[u].roles /\ held # {}
    BY DEF Inv, MemberInv, TypeOK, Call, RolesHeld
  <2>2. PICK ctx : ctx = Context(held, s)
    OBVIOUS
  <2>3. cat \in Catalogs
    BY DEF Inv, MemberInv, TypeOK
  <2>4. QueriesGive(ctx, Granted(s))
    BY <2>1, <2>2, <2>3, PathsLemma
  <2>5. \A p \in Periods, key \in {"done", "cost"} : PagesSplit(ctx, p, key, 1..Cardinality(Rows))
    BY <2>3, ListLemma
  <2> QED BY <2>1, <2>2, <2>4, <2>5
<1> QED BY <1>1, Invariant, PTL

\* The figures of the read paths agree, for every catalog, scope and period: the overview
\* and the reports add up the same, the views of a report split one total, its unit cost is
\* a mean of those of its batches, and a comparison adds up but for rounding
\* (cost_calculation_service.py, report_service.py).
THEOREM FiguresAddUp == Spec => []FiguresAgree
<1>1. Inv => FiguresAgree
  <2> SUFFICES ASSUME Inv, NEW u \in Users, call[u].at = "ready"
               PROVE  LET ctx == Context(call[u].roles, call[u].scope)
                      IN  \A p \in Periods :
                             /\ Figures(ctx, p)
                             /\ \A x \in PartsOf, base \in {b \in Periods : b < p} :
                                   ComparisonAddsUp(ctx, x, p, base)
    BY DEF FiguresAgree
  <2>1. cat \in Catalogs
    BY DEF Inv, MemberInv, TypeOK
  <2>2. \A ctx, p : Figures(ctx, p)
    BY <2>1, FiguresLemma
  <2>3. \A ctx, x, p, base : ComparisonAddsUp(ctx, x, p, base)
    BY <2>1, ChangesLemma
  <2> QED BY <2>2, <2>3
<1> QED BY <1>1, Invariant, PTL
=============================================================================
