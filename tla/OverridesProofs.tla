--------------------------- MODULE OverridesProofs ---------------------------
(***************************************************************************)
(* Theorems about Overrides, for any number of overrides, days, parents    *)
(* and concurrent sessions.                                                *)
(***************************************************************************)
EXTENDS Overrides, TLAPS

------------------------------------------------------------------------------
(* Typing of the full system.                                              *)

LEMMA IdleTyped == Idle \in SessionState /\ NoColumns \in Columns /\ NoRequest \in Request
  BY DEF Idle, SessionState, NoColumns, Columns, NoRequest, Request, Labels, Statuses

\* Inserting a well-typed request keeps every column typed.
LEMMA InsertTyped ==
  ASSUME TypeOK, NEW i \in Ids, NEW status \in Statuses, NEW r \in Request,
         Insert(i, status, r)
  PROVE  TypeOK'
  BY DEF TypeOK, Insert, Columns

LEMMA CreateOverrideTyped == TypeOK /\ CreateOverride => TypeOK'
<1> SUFFICES ASSUME TypeOK, CreateOverride PROVE TypeOK'
  OBVIOUS
<1>1. PICK i \in Ids, who \in Parents, start \in Days, end \in Days,
           holiday \in BOOLEAN, at \in 0..now :
        Insert(i, "Pending", [requester |-> who, start |-> start, end |-> end,
               expires |-> ExpiryAt(at, holiday, start, end), sms |-> FALSE])
  BY DEF CreateOverride
<1>2. ExpiryAt(at, holiday, start, end) \in Nat
  BY OverridesAssumption DEF ExpiryAt, TypeOK, Days
<1>3. [requester |-> who, start |-> start, end |-> end,
       expires |-> ExpiryAt(at, holiday, start, end), sms |-> FALSE] \in Request
  BY <1>2 DEF Request, Days
<1> QED BY <1>1, <1>3, InsertTyped DEF Statuses

LEMMA CreateDraftTyped == TypeOK /\ CreateDraft => TypeOK'
<1> SUFFICES ASSUME TypeOK, CreateDraft PROVE TypeOK'
  OBVIOUS
<1>1. PICK i \in Ids, who \in Parents, start \in Days, end \in Days, at \in 0..now :
        Insert(i, "Draft", [requester |-> who, start |-> start, end |-> end,
               expires |-> at + RequestTtl, sms |-> TRUE])
  BY DEF CreateDraft
<1>2. [requester |-> who, start |-> start, end |-> end,
       expires |-> at + RequestTtl, sms |-> TRUE] \in Request
  BY OverridesAssumption DEF Request, Days, TypeOK
<1> QED BY <1>1, <1>2, InsertTyped DEF Statuses

\* A session that starts with a well-typed state, or ends, disturbs no column.
LEMMA BeginTyped ==
  ASSUME TypeOK, NEW s \in Sessions, NEW f \in SessionState,
         f.pc \notin {"idle", "sweeping"} => f.target \in Ids,
         Begin(s, f), UNCHANGED <<request, row, claim, now, contested>>
  PROVE  TypeOK'
  BY DEF TypeOK, Begin

\* A decision marks overrides only.
LEMMA DecideTyped ==
  ASSUME TypeOK, NEW s \in Sessions, NEW ids \in SUBSET Ids, Decide(s, ids)
  PROVE  contested' \subseteq Ids
  BY DEF TypeOK, Decide

LEMMA WebSessionTyped ==
  ASSUME TypeOK, NEW s \in Sessions, WebSession(s)
  PROVE  TypeOK'
<1>1. CASE DecideRead(s)
  <2>1. PICK i \in Ids, who \in Parents :
          Begin(s, [Idle EXCEPT !.pc = "deciding", !.target = i, !.by = who, !.seen = row[i]])
    BY <1>1 DEF DecideRead
  <2>2. row[i] \in Columns
    BY DEF TypeOK
  <2> DEFINE f == [Idle EXCEPT !.pc = "deciding", !.target = i, !.by = who, !.seen = row[i]]
  <2>3. f \in SessionState
    BY <2>2, IdleTyped DEF SessionState, Labels
  <2>4. f.target = i
    BY DEF Idle
  <2>5. UNCHANGED <<request, row, claim, now, contested>>
    BY <1>1 DEF DecideRead
  <2> HIDE DEF f
  <2> QED BY <2>1, <2>3, <2>4, <2>5, BeginTyped DEF f
<1>2. CASE DecideRefused(s)
  BY <1>2, IdleTyped DEF DecideRefused, Finish, TypeOK, Idle
<1>3. CASE DecideJudged(s)
  BY <1>3 DEF DecideJudged, Goto, TypeOK, SessionState, Labels
<1>4. CASE DecideExpired(s)
  <2>1. ses[s].target \in Ids /\ Decide(s, {ses[s].target})
    BY <1>4 DEF DecideExpired, TypeOK
  <2>2. contested' \subseteq Ids
    BY <2>1, DecideTyped
  <2> QED BY <1>4, <2>2, IdleTyped DEF DecideExpired, Finish, TypeOK, Idle, Columns, Statuses
<1>5. CASE DecideRejected(s)
  <2>1. ses[s].target \in Ids /\ ses[s].by \in Parents \cup {None}
    BY <1>5 DEF DecideRejected, TypeOK, SessionState
  <2>2. contested' \subseteq Ids
    BY <1>5, <2>1, DecideTyped DEF DecideRejected
  <2> QED BY <1>5, <2>1, <2>2, IdleTyped
          DEF DecideRejected, Finish, TypeOK, Idle, Columns, Statuses
<1>6. CASE ReadActives(s)
  <2>1. OverlappingActives(ses[s].target) \in SUBSET Ids
    BY DEF OverlappingActives
  <2> QED BY <1>6, <2>1 DEF ReadActives, TypeOK, SessionState, Labels
<1>7. CASE ActivateCommit(s)
  <2>1. /\ ses[s].target \in Ids /\ ses[s].by \in Parents \cup {None}
        /\ ses[s].seen \in Columns
    BY <1>7 DEF ActivateCommit, TypeOK, SessionState
  <2>2. Approve(row[ses[s].target], ses[s].seen, ses[s].by) \in Columns
    BY <2>1 DEF Approve, Flush, TypeOK, Columns, Statuses
  <2>3. row' \in [Ids -> Columns]
    BY <1>7, <2>2 DEF ActivateCommit, TypeOK, Columns
  <2>4. claim' \in [Days -> Ids \cup {None}]
    BY <1>7, <2>1 DEF ActivateCommit, Claimed, Released, TypeOK
  <2>5. contested' \subseteq Ids
    BY <1>7, <2>1, DecideTyped DEF ActivateCommit
  <2> QED BY <1>7, <2>3, <2>4, <2>5, IdleTyped DEF ActivateCommit, Finish, TypeOK, Idle
<1>8. CASE ActivateConflict(s)
  BY <1>8, IdleTyped DEF ActivateConflict, Finish, TypeOK, Idle
<1>9. CASE SweepRead(s)
  <2>1. PICK at \in 0..now :
          Begin(s, [Idle EXCEPT !.pc = "sweeping", !.batch = ExpiredPending(at)])
    BY <1>9 DEF SweepRead
  <2>2. [Idle EXCEPT !.pc = "sweeping", !.batch = ExpiredPending(at)] \in SessionState
    BY IdleTyped DEF Idle, SessionState, ExpiredPending, Labels
  <2> QED BY <1>9, <2>1, <2>2, BeginTyped DEF SweepRead, Idle
<1>10. CASE SweepCommit(s)
  <2>1. ses[s].batch \subseteq Ids
    BY DEF TypeOK, SessionState
  <2>2. contested' \subseteq Ids
    BY <1>10, <2>1, DecideTyped DEF SweepCommit
  <2> QED BY <1>10, <2>2, IdleTyped DEF SweepCommit, Finish, TypeOK, Idle, Columns, Statuses
<1> QED BY <1>1, <1>2, <1>3, <1>4, <1>5, <1>6, <1>7, <1>8, <1>9, <1>10 DEF WebSession

LEMMA SmsSessionTyped ==
  ASSUME TypeOK, NEW s \in Sessions, SmsSession(s)
  PROVE  TypeOK'
<1>0. ASSUME NEW i \in Ids, NEW goal \in Statuses, NEW by \in Parents \cup {None},
             NEW rest \in SUBSET Ids
      PROVE  /\ SetStatus(i, goal, by, rest) \in SessionState
             /\ SetStatus(i, goal, by, rest).target = i
  BY IdleTyped DEF SetStatus, Idle, SessionState, Labels
<1>1. CASE InitiatorReply(s)
  <2>1. PICK i \in Ids, goal \in Statuses : Begin(s, SetStatus(i, goal, None, {}))
    BY <1>1 DEF InitiatorReply, Statuses
  <2>2. SetStatus(i, goal, None, {}) \in SessionState /\ SetStatus(i, goal, None, {}).target = i
    BY <1>0
  <2> QED BY <1>1, <2>1, <2>2, BeginTyped DEF InitiatorReply
<1>2. CASE CounterpartyReply(s)
  <2>0. PICK i \in Ids, who \in Parents :
          \/ Begin(s, SetStatus(i, "Expired", None, {}))
          \/ Begin(s, SetStatus(i, "Rejected", who, {}))
          \/ Begin(s, [Idle EXCEPT !.pc = "reloading", !.target = i, !.by = who])
    BY <1>2 DEF CounterpartyReply
  <2>1. /\ SetStatus(i, "Expired", None, {}) \in SessionState
        /\ SetStatus(i, "Expired", None, {}).target = i
    BY <1>0 DEF Statuses
  <2>2. /\ SetStatus(i, "Rejected", who, {}) \in SessionState
        /\ SetStatus(i, "Rejected", who, {}).target = i
    BY <1>0 DEF Statuses
  <2>3. /\ [Idle EXCEPT !.pc = "reloading", !.target = i, !.by = who] \in SessionState
        /\ [Idle EXCEPT !.pc = "reloading", !.target = i, !.by = who].target = i
    BY IdleTyped DEF Idle, SessionState, Labels
  <2>4. UNCHANGED <<request, row, claim, now, contested>>
    BY <1>2 DEF CounterpartyReply
  <2> QED BY <2>0, <2>1, <2>2, <2>3, <2>4, BeginTyped
<1>3. CASE ActivateReload(s)
  BY <1>3 DEF ActivateReload, TypeOK, SessionState, Labels
<1>4. CASE StopWithdraw(s)
  <2>1. PICK who \in Parents, at \in 0..now : \E i \in OpenRequests(who, at) :
          Begin(s, SetStatus(i, "Rejected", who, OpenRequests(who, at) \ {i}))
    BY <1>4 DEF StopWithdraw
  <2>2. PICK i \in OpenRequests(who, at) :
          Begin(s, SetStatus(i, "Rejected", who, OpenRequests(who, at) \ {i}))
    BY <2>1
  <2>3. i \in Ids /\ OpenRequests(who, at) \ {i} \in SUBSET Ids
    BY DEF OpenRequests
  <2>4. /\ SetStatus(i, "Rejected", who, OpenRequests(who, at) \ {i}) \in SessionState
        /\ SetStatus(i, "Rejected", who, OpenRequests(who, at) \ {i}).target = i
    BY <1>0, <2>3 DEF Statuses
  <2> QED BY <1>4, <2>2, <2>3, <2>4, BeginTyped DEF StopWithdraw
<1>5. CASE SetStatusLoad(s)
  BY <1>5 DEF SetStatusLoad, TypeOK, SessionState, Labels
<1>6. CASE SetStatusCommit(s)
  <2>0. /\ ses[s].target \in Ids /\ ses[s].by \in Parents \cup {None}
        /\ ses[s].seen \in Columns /\ ses[s].batch \subseteq Ids /\ ses[s].goal \in Statuses
    BY <1>6 DEF SetStatusCommit, TypeOK, SessionState
  <2>1. row' \in [Ids -> Columns]
    <3> DEFINE i == ses[s].target
               saved == [status    |-> Flush(row[i].status, ses[s].seen.status, ses[s].goal),
                         active    |-> Flush(row[i].active, ses[s].seen.active, FALSE),
                         decidedBy |-> IF ses[s].by = None THEN row[i].decidedBy
                                       ELSE Flush(row[i].decidedBy, ses[s].seen.decidedBy, ses[s].by)]
    <3>1. saved \in Columns
      BY <2>0 DEF TypeOK, SessionState, Flush, Columns
    <3>2. row' = [row EXCEPT ![i] = saved]
      BY <1>6 DEF SetStatusCommit
    <3> QED BY <3>1, <3>2 DEF TypeOK
  <2>2. claim' \in [Days -> Ids \cup {None}]
    BY <1>6 DEF SetStatusCommit, Released, TypeOK
  <2>9. contested' \subseteq Ids
    BY <1>6, <2>0, DecideTyped DEF SetStatusCommit
  <2>3. CASE ses' = [ses EXCEPT ![s] = Idle]
    BY <1>6, <2>1, <2>2, <2>3, <2>9, IdleTyped DEF SetStatusCommit, TypeOK, Idle
  <2>4. CASE \E j \in ses[s].batch :
          ses' = [ses EXCEPT ![s] = SetStatus(j, ses[s].goal, ses[s].by, ses[s].batch \ {j})]
    <3>1. PICK j \in ses[s].batch :
            ses' = [ses EXCEPT ![s] = SetStatus(j, ses[s].goal, ses[s].by, ses[s].batch \ {j})]
      BY <2>4
    <3>2. /\ SetStatus(j, ses[s].goal, ses[s].by, ses[s].batch \ {j}) \in SessionState
          /\ SetStatus(j, ses[s].goal, ses[s].by, ses[s].batch \ {j}).target = j
      BY <1>0, <2>0
    <3> QED BY <1>6, <2>0, <2>1, <2>2, <2>9, <3>1, <3>2 DEF SetStatusCommit, TypeOK
  <2> QED BY <1>6, <2>3, <2>4 DEF SetStatusCommit, Finish
<1> QED BY <1>1, <1>2, <1>3, <1>4, <1>5, <1>6 DEF SmsSession

LEMMA RestartTyped == TypeOK /\ Restart => TypeOK'
  BY IdleTyped DEF TypeOK, Restart, Idle

LEMMA TypeStep == TypeOK /\ [Next]_vars => TypeOK'
<1> SUFFICES ASSUME TypeOK, [Next]_vars PROVE TypeOK'
  OBVIOUS
<1>1. CASE CreateOverride
  BY <1>1, CreateOverrideTyped
<1>2. CASE CreateDraft
  BY <1>2, CreateDraftTyped
<1>3. CASE Restart
  BY <1>3, RestartTyped
<1>4. CASE Tick
  BY <1>4 DEF Tick, TypeOK
<1>5. ASSUME NEW s \in Sessions, WebSession(s) PROVE TypeOK'
  BY <1>5, WebSessionTyped
<1>6. ASSUME NEW s \in Sessions, SmsSession(s) PROVE TypeOK'
  BY <1>6, SmsSessionTyped
<1>7. CASE UNCHANGED vars
  BY <1>7 DEF vars, TypeOK
<1> QED BY <1>1, <1>2, <1>3, <1>4, <1>5, <1>6, <1>7 DEF Next, WebNext

LEMMA InitTyped == Init => TypeOK
  BY IdleTyped DEF Init, TypeOK, Idle

\* The columns, claims and sessions of the whole system, web and SMS, stay
\* well typed, and a busy session always has an override to be busy with.
THEOREM TypeCorrect == Spec => []TypeOK
  BY InitTyped, TypeStep, PTL DEF Spec
------------------------------------------------------------------------------
(* The web API: the inductive invariant.                                   *)

\* What no step undoes: an override that exists keeps existing and keeps its
\* request.
Kept == \A j \in Ids : row[j].status # "Absent" =>
          row'[j].status # "Absent" /\ request'[j] = request[j]

LEMMA InitInv == Init => WebInv
  BY OverridesAssumption
  DEF Init, WebInv, RequestOK, SessionOK, ActiveOwnsDays, OpenIsInactive, Consent,
      NoRequest, NoColumns, Idle

\* A session that does not move keeps its part of the invariant.
LEMMA SessionFrame ==
  ASSUME TypeOK, Kept, NEW t \in Sessions, SessionOK(t), ses'[t] = ses[t]
  PROVE  SessionOK(t)'
<1>1. ses[t] \in SessionState /\ (ses[t].pc \notin {"idle", "sweeping"} => ses[t].target \in Ids)
  BY DEF TypeOK
<1>2. ses[t].batch \subseteq Ids
  BY <1>1 DEF SessionState
<1> QED BY <1>1, <1>2 DEF SessionOK, Kept, RangesOverlap

LEMMA SessionIdle ==
  ASSUME NEW t \in Sessions, ses'[t] = Idle
  PROVE  SessionOK(t)'
  BY DEF SessionOK, Idle

\* Steps that touch neither rows nor claims.
LEMMA StoreFrame ==
  ASSUME WebInv, UNCHANGED <<request, row, claim>>
  PROVE  /\ \A i \in Ids : RequestOK(i)'
         /\ ActiveOwnsDays' /\ OpenIsInactive' /\ Consent' /\ Kept
  BY DEF WebInv, RequestOK, ActiveOwnsDays, OpenIsInactive, Consent, Kept, SpanDays

LEMMA InsertInv ==
  ASSUME TypeOK, WebInv, NEW i \in Ids, NEW r \in Request, Insert(i, "Pending", r),
         r.requester \in Parents, r.start \in Days, r.end \in Days, r.start <= r.end
  PROVE  WebInv'
<1>1. /\ row[i].status = "Absent"
      /\ request' = [request EXCEPT ![i] = r]
      /\ row' = [row EXCEPT ![i].status = "Pending"]
      /\ UNCHANGED <<claim, now, ses>>
  BY DEF Insert
<1>2. /\ row'[i].status = "Pending" /\ row'[i].active = row[i].active
      /\ row'[i].decidedBy = row[i].decidedBy /\ request'[i] = r
      /\ \A j \in Ids \ {i} : row'[j] = row[j] /\ request'[j] = request[j]
  BY <1>1 DEF TypeOK, Columns
<1>3. ~row[i].active /\ row[i].decidedBy = None
  BY <1>1 DEF WebInv, OpenIsInactive
<1>4. Kept
  BY <1>1, <1>2 DEF Kept
<1>5. \A t \in Sessions : SessionOK(t)'
  BY <1>1, <1>4, SessionFrame DEF WebInv
<1>6. \A j \in Ids : RequestOK(j)'
  BY <1>2 DEF RequestOK, WebInv
<1>7. ActiveOwnsDays'
  BY <1>1, <1>2, <1>3 DEF ActiveOwnsDays, WebInv, SpanDays
<1>8. OpenIsInactive' /\ Consent'
  BY <1>2, <1>3 DEF OpenIsInactive, Consent, WebInv
<1> QED BY <1>5, <1>6, <1>7, <1>8 DEF WebInv

LEMMA CreateOverrideInv == TypeOK /\ WebInv /\ CreateOverride => WebInv'
<1> SUFFICES ASSUME TypeOK, WebInv, CreateOverride PROVE WebInv'
  OBVIOUS
<1>1. PICK i \in Ids, who \in Parents, start \in Days, end \in Days,
           holiday \in BOOLEAN, at \in 0..now :
        /\ IsValidRange(start, end)
        /\ Insert(i, "Pending", [requester |-> who, start |-> start, end |-> end,
               expires |-> ExpiryAt(at, holiday, start, end), sms |-> FALSE])
  BY DEF CreateOverride
<1>2. ExpiryAt(at, holiday, start, end) \in Nat
  BY OverridesAssumption DEF ExpiryAt, TypeOK, Days
<1> DEFINE r == [requester |-> who, start |-> start, end |-> end,
                 expires |-> ExpiryAt(at, holiday, start, end), sms |-> FALSE]
<1>3. r \in Request
  BY <1>2 DEF Request, Days
<1>4. r.requester \in Parents /\ r.start \in Days /\ r.end \in Days /\ r.start <= r.end
  BY <1>1 DEF IsValidRange
<1>5. Insert(i, "Pending", r)
  BY <1>1
<1> HIDE DEF r
<1> QED BY <1>3, <1>4, <1>5, InsertInv

\* Committing an approval whose days are free leaves every active override,
\* and no other, owner of its days.
LEMMA ActivateClaims ==
  ASSUME TypeOK, WebInv, NEW s \in Sessions, ActivateCommit(s)
  PROVE  ActiveOwnsDays'
<1> DEFINE i == ses[s].target
           gone == ses[s].batch
<1>1. i \in Ids /\ gone \subseteq Ids /\ i \notin gone
  BY DEF ActivateCommit, TypeOK, SessionState, WebInv, SessionOK
<1>2. ~ses[s].seen.active
  BY DEF ActivateCommit, WebInv, SessionOK
<1>3. \A d \in SpanDays(i) : Released(gone)[d] = None
  BY DEF ActivateCommit, Conflict
<1>4. /\ row'[i].active
      /\ \A j \in gone : ~row'[j].active
      /\ \A j \in Ids \ ({i} \cup gone) : row'[j] = row[j]
  <2>1. row' = [j \in Ids |->
           IF j = i THEN Approve(row[i], ses[s].seen, ses[s].by)
           ELSE IF j \in gone THEN [row[j] EXCEPT !.active = FALSE] ELSE row[j]]
    BY DEF ActivateCommit
  <2>2. Approve(row[i], ses[s].seen, ses[s].by).active
    BY <1>2 DEF Approve, Flush
  <2> QED BY <1>1, <2>1, <2>2 DEF TypeOK, Columns
<1>5. \A j \in Ids : SpanDays(j)' = SpanDays(j)
  BY DEF ActivateCommit, SpanDays
<1>6. \A d \in Days : claim'[d] = IF d \in SpanDays(i) THEN i
                                ELSE IF claim[d] \in gone THEN None ELSE claim[d]
  BY DEF ActivateCommit, Claimed, Released
<1>7. \A d \in SpanDays(i) : claim[d] \in gone \/ claim[d] = None
  BY <1>3 DEF Released, SpanDays
<1>8. \A j \in Ids, d \in Days : claim[d] = j <=> row[j].active /\ d \in SpanDays(j)
  BY DEF WebInv, ActiveOwnsDays
<1> SUFFICES ASSUME NEW j \in Ids, NEW d \in Days
             PROVE  claim'[d] = j <=> row'[j].active /\ d \in SpanDays(j)
  BY <1>5 DEF ActiveOwnsDays
<1> HIDE DEF i, gone
<1>9. CASE j = i
  BY <1>9, <1>1, <1>4, <1>6, <1>8, OverridesAssumption
<1>10. CASE j \in gone
  BY <1>10, <1>1, <1>4, <1>6, OverridesAssumption
<1>11. CASE j \notin {i} \cup gone
  BY <1>11, <1>1, <1>4, <1>6, <1>7, <1>8, OverridesAssumption
<1> QED BY <1>9, <1>10, <1>11

LEMMA ActivateInv ==
  ASSUME TypeOK, WebInv, NEW s \in Sessions, ActivateCommit(s)
  PROVE  WebInv'
<1> DEFINE i == ses[s].target
           gone == ses[s].batch
<1>1. /\ i \in Ids /\ gone \subseteq Ids /\ i \notin gone
      /\ ses[s].by \in Parents /\ ses[s].by # request[i].requester
      /\ row[i].status # "Absent"
      /\ ses[s].seen.status = "Pending" /\ ~ses[s].seen.active /\ ses[s].seen.decidedBy = None
      /\ \A j \in gone : row[j].status # "Absent"
  BY DEF ActivateCommit, TypeOK, SessionState, WebInv, SessionOK
<1>2. /\ UNCHANGED <<request, now>>
      /\ ses' = [ses EXCEPT ![s] = Idle]
      /\ row' = [j \in Ids |->
           IF j = i THEN Approve(row[i], ses[s].seen, ses[s].by)
           ELSE IF j \in gone THEN [row[j] EXCEPT !.active = FALSE] ELSE row[j]]
  BY DEF ActivateCommit, Finish
<1>3. /\ row'[i].status = "Approved" /\ row'[i].decidedBy = ses[s].by
      /\ \A j \in Ids : j # i => /\ row'[j].status = row[j].status
                                 /\ row'[j].decidedBy = row[j].decidedBy
                                 /\ row'[j].active => row[j].active
  <2>1. /\ Approve(row[i], ses[s].seen, ses[s].by).status = "Approved"
        /\ Approve(row[i], ses[s].seen, ses[s].by).decidedBy = ses[s].by
    BY <1>1, OverridesAssumption DEF Approve, Flush
  <2> QED BY <1>1, <1>2, <2>1 DEF TypeOK, Columns
<1>4. Kept
  BY <1>1, <1>2, <1>3 DEF Kept
<1>5. \A t \in Sessions : SessionOK(t)'
  BY <1>2, <1>4, SessionFrame, SessionIdle DEF WebInv, TypeOK
<1>6. \A j \in Ids : RequestOK(j)'
  BY <1>1, <1>2, <1>3 DEF RequestOK, WebInv
<1>7. ActiveOwnsDays'
  BY ActivateClaims
<1> HIDE DEF i, gone
<1>8. ASSUME NEW k \in Ids, row'[k].status \in {"Absent", "Draft", "Pending"}
      PROVE  ~row'[k].active /\ row'[k].decidedBy = None
  <2>1. k # i
    BY <1>3, <1>8
  <2>2. /\ row'[k].status = row[k].status
        /\ row'[k].decidedBy = row[k].decidedBy
        /\ row'[k].active => row[k].active
    BY <1>3, <2>1
  <2>3. row[k].status \in {"Absent", "Draft", "Pending"}
    BY <1>8, <2>2
  <2>4. ~row[k].active /\ row[k].decidedBy = None
    BY <2>3 DEF WebInv, OpenIsInactive
  <2> QED BY <2>2, <2>4
<1>9. OpenIsInactive'
  BY <1>8 DEF OpenIsInactive
<1>10. ASSUME NEW k \in Ids, row'[k].status = "Approved"
       PROVE  row'[k].decidedBy \in Parents \ {request[k].requester}
  <2>1. CASE k = i
    BY <1>1, <1>3, <2>1
  <2>2. CASE k # i
    <3>1. row[k].status = "Approved" /\ row'[k].decidedBy = row[k].decidedBy
      BY <1>3, <1>10, <2>2
    <3>2. row[k].decidedBy \in Parents \ {request[k].requester}
      BY <3>1 DEF WebInv, Consent
    <3> QED BY <3>1, <3>2
  <2> QED BY <2>1, <2>2
<1>11. Consent'
  BY <1>2, <1>10 DEF Consent
<1> QED BY <1>5, <1>6, <1>7, <1>9, <1>11 DEF WebInv

\* Steps of one session that leave the store alone.
LEMMA LocalStep ==
  ASSUME TypeOK, WebInv, NEW s \in Sessions, UNCHANGED <<request, row, claim>>,
         \A t \in Sessions \ {s} : ses'[t] = ses[t], SessionOK(s)'
  PROVE  WebInv'
  BY StoreFrame, SessionFrame DEF WebInv

\* Steps that move the status and the decider of existing overrides to a
\* refused or expired one, and leave is_active alone.
LEMMA CloseStep ==
  ASSUME TypeOK, WebInv, NEW s \in Sessions, UNCHANGED <<request, claim>>, Finish(s),
         NEW closed \in SUBSET Ids,
         row' \in [Ids -> Columns],
         \A j \in Ids \ closed : row'[j] = row[j],
         \A j \in closed : /\ row[j].status # "Absent"
                          /\ row'[j].status \in {"Rejected", "Expired"}
                          /\ row'[j].active = row[j].active
  PROVE  WebInv'
<1>1. Kept
  BY DEF Kept
<1>2. \A t \in Sessions : SessionOK(t)'
  BY <1>1, SessionFrame, SessionIdle DEF WebInv, TypeOK, Finish
<1>3. \A j \in Ids : RequestOK(j)'
  BY DEF RequestOK, WebInv
<1>4. ActiveOwnsDays'
  BY DEF ActiveOwnsDays, WebInv, SpanDays
<1>5. OpenIsInactive' /\ Consent'
  BY DEF OpenIsInactive, Consent, WebInv
<1> QED BY <1>2, <1>3, <1>4, <1>5 DEF WebInv

\* Under ActiveOwnsDays the boot finds every active override's days claimed.
LEMMA RestartClaimsNothing ==
  ASSUME TypeOK, ActiveOwnsDays, Restart PROVE claim' = claim
<1>1. \A d \in Days : claim[d] # None \/ ActiveOn(d) = {}
  BY OverridesAssumption DEF ActiveOwnsDays, ActiveOn
<1> QED BY <1>1 DEF Restart, Backfill, TypeOK

LEMMA RestartInv == TypeOK /\ WebInv /\ Restart => WebInv'
<1> SUFFICES ASSUME TypeOK, WebInv, Restart PROVE WebInv'
  OBVIOUS
<1>1. claim' = claim
  BY RestartClaimsNothing DEF WebInv
<1>2. \A t \in Sessions : SessionOK(t)'
  BY SessionIdle DEF Restart
<1> QED BY <1>1, <1>2, StoreFrame DEF Restart, WebInv

LEMMA WebSessionInv ==
  ASSUME TypeOK, WebInv, NEW s \in Sessions, WebSession(s)
  PROVE  WebInv'
<1>0. /\ ses \in [Sessions -> SessionState] /\ ses[s] \in SessionState
      /\ row \in [Ids -> Columns]
      /\ (ses[s].pc \notin {"idle", "sweeping"} => ses[s].target \in Ids)
      /\ SessionOK(s)
  BY DEF TypeOK, WebInv
<1>1. CASE DecideRead(s)
  <2>1. PICK i \in Ids, who \in Parents :
          /\ row[i].status # "Absent"
          /\ ses' = [ses EXCEPT ![s] =
               [Idle EXCEPT !.pc = "deciding", !.target = i, !.by = who, !.seen = row[i]]]
    BY <1>1 DEF DecideRead, Begin
  <2>2. UNCHANGED <<request, row, claim>>
    BY <1>1 DEF DecideRead
  <2>3. row[i].status = "Pending" => ~row[i].active /\ row[i].decidedBy = None
    BY DEF WebInv, OpenIsInactive
  <2>4. SessionOK(s)'
    BY <1>0, <2>1, <2>2, <2>3 DEF SessionOK, Idle
  <2> QED BY <1>0, <2>1, <2>2, <2>4, LocalStep
<1>2. CASE DecideRefused(s)
  BY <1>0, <1>2, LocalStep, SessionIdle DEF DecideRefused, Finish
<1>3. CASE DecideJudged(s)
  <2>1. UNCHANGED <<request, row, claim>>
    BY <1>3 DEF DecideJudged
  <2>2. \A t \in Sessions \ {s} : ses'[t] = ses[t]
    BY <1>0, <1>3 DEF DecideJudged, Goto
  <2>3. PICK label \in {"expiring", "rejecting", "activating"} :
          /\ ses' = [ses EXCEPT ![s].pc = label]
          /\ label = "activating" => WebVerdict(s) = "ok"
    BY <1>3 DEF DecideJudged, Goto
  <2>4. WebVerdict(s) = "ok" =>
          ses[s].seen.status = "Pending" /\ ses[s].by # request[ses[s].target].requester
    BY DEF WebVerdict, Verdict
  <2>5. ses[s].pc = "deciding"
    BY <1>3 DEF DecideJudged
  <2>6. /\ ses'[s].pc = label /\ ses'[s].target = ses[s].target /\ ses'[s].by = ses[s].by
        /\ ses'[s].seen = ses[s].seen /\ ses'[s].batch = ses[s].batch
    BY <1>0, <2>3 DEF SessionState
  <2>7. SessionOK(s)'
    BY <1>0, <2>1, <2>3, <2>4, <2>5, <2>6 DEF SessionOK
  <2> QED BY <2>1, <2>2, <2>7, LocalStep
<1>4. CASE DecideExpired(s)
  <2>1. /\ row' = [row EXCEPT ![ses[s].target].status = "Expired"]
        /\ UNCHANGED <<request, claim>> /\ Finish(s)
        /\ ses[s].target \in Ids /\ row[ses[s].target].status # "Absent"
    BY <1>0, <1>4 DEF DecideExpired, SessionOK
  <2>2. row' \in [Ids -> Columns]
    BY <2>1, <1>0 DEF Columns, Statuses
  <2>3. /\ row'[ses[s].target].status = "Expired"
        /\ row'[ses[s].target].active = row[ses[s].target].active
        /\ \A j \in Ids \ {ses[s].target} : row'[j] = row[j]
    BY <2>1, <1>0 DEF Columns
  <2> DEFINE closed == {ses[s].target}
  <2>4. /\ closed \in SUBSET Ids
        /\ \A j \in Ids \ closed : row'[j] = row[j]
        /\ \A j \in closed : /\ row[j].status # "Absent"
                            /\ row'[j].status \in {"Rejected", "Expired"}
                            /\ row'[j].active = row[j].active
    BY <2>1, <2>3
  <2> HIDE DEF closed
  <2> QED BY <2>1, <2>2, <2>4, CloseStep
<1>5. CASE DecideRejected(s)
  <2>1. /\ row' = [row EXCEPT ![ses[s].target] =
                     [@ EXCEPT !.status = "Rejected", !.decidedBy = ses[s].by]]
        /\ UNCHANGED <<request, claim>> /\ Finish(s)
        /\ ses[s].target \in Ids /\ row[ses[s].target].status # "Absent"
        /\ ses[s].by \in Parents
    BY <1>0, <1>5 DEF DecideRejected, SessionOK
  <2>2. row' \in [Ids -> Columns]
    BY <2>1, <1>0 DEF Columns, Statuses
  <2>3. /\ row'[ses[s].target].status = "Rejected"
        /\ row'[ses[s].target].active = row[ses[s].target].active
        /\ \A j \in Ids \ {ses[s].target} : row'[j] = row[j]
    BY <2>1, <1>0 DEF Columns
  <2> DEFINE closed == {ses[s].target}
  <2>4. /\ closed \in SUBSET Ids
        /\ \A j \in Ids \ closed : row'[j] = row[j]
        /\ \A j \in closed : /\ row[j].status # "Absent"
                            /\ row'[j].status \in {"Rejected", "Expired"}
                            /\ row'[j].active = row[j].active
    BY <2>1, <2>3
  <2> HIDE DEF closed
  <2> QED BY <2>1, <2>2, <2>4, CloseStep
<1>6. CASE ReadActives(s)
  <2>1. /\ UNCHANGED <<request, row, claim>> /\ ses[s].pc = "activating"
        /\ ses' = [ses EXCEPT ![s] =
             [@ EXCEPT !.pc = "claiming", !.batch = OverlappingActives(ses[s].target)]]
    BY <1>6 DEF ReadActives
  <2>2. /\ ses'[s].pc = "claiming" /\ ses'[s].target = ses[s].target /\ ses'[s].by = ses[s].by
        /\ ses'[s].seen = ses[s].seen /\ ses'[s].batch = OverlappingActives(ses[s].target)
        /\ \A t \in Sessions \ {s} : ses'[t] = ses[t]
    BY <1>0, <2>1 DEF SessionState
  <2>3. \A j \in OverlappingActives(ses[s].target) :
          j # ses[s].target /\ row[j].status # "Absent" /\ RangesOverlap(ses[s].target, j)
    BY DEF OverlappingActives, WebInv, OpenIsInactive
  <2>4. ses[s].target \in Ids /\ OverlappingActives(ses[s].target) \subseteq Ids
    BY <1>0, <2>1 DEF OverlappingActives
  <2>5. SessionOK(s)'
    BY <1>0, <2>1, <2>2, <2>3, <2>4 DEF SessionOK, RangesOverlap
  <2> QED BY <2>1, <2>2, <2>5, LocalStep
<1>7. CASE ActivateCommit(s)
  BY <1>7, ActivateInv
<1>8. CASE ActivateConflict(s)
  BY <1>0, <1>8, LocalStep, SessionIdle DEF ActivateConflict, Finish
<1>9. CASE SweepRead(s)
  <2>1. PICK at \in 0..now :
          ses' = [ses EXCEPT ![s] = [Idle EXCEPT !.pc = "sweeping", !.batch = ExpiredPending(at)]]
    BY <1>9 DEF SweepRead, Begin
  <2>2. UNCHANGED <<request, row, claim>>
    BY <1>9 DEF SweepRead
  <2>3. \A j \in ExpiredPending(at) : row[j].status # "Absent"
    BY DEF ExpiredPending
  <2>4. SessionOK(s)'
    BY <1>0, <2>1, <2>2, <2>3 DEF SessionOK, Idle
  <2> QED BY <1>0, <2>1, <2>2, <2>4, LocalStep
<1>10. CASE SweepCommit(s)
  <2>1. /\ row' = [i \in Ids |-> IF i \in ses[s].batch
                                   THEN [row[i] EXCEPT !.status = "Expired"] ELSE row[i]]
        /\ UNCHANGED <<request, claim>> /\ Finish(s)
        /\ ses[s].batch \subseteq Ids /\ \A j \in ses[s].batch : row[j].status # "Absent"
    BY <1>0, <1>10 DEF SweepCommit, SessionOK, SessionState
  <2>2. row' \in [Ids -> Columns]
    BY <2>1, <1>0 DEF Columns, Statuses
  <2>3. /\ \A j \in Ids \ ses[s].batch : row'[j] = row[j]
        /\ \A j \in ses[s].batch : row'[j].status = "Expired" /\ row'[j].active = row[j].active
    BY <2>1, <1>0 DEF Columns
  <2> QED BY <2>1, <2>2, <2>3, CloseStep
<1> QED BY <1>1, <1>2, <1>3, <1>4, <1>5, <1>6, <1>7, <1>8, <1>9, <1>10 DEF WebSession

LEMMA WebStep == TypeOK /\ WebInv /\ [WebNext]_vars => WebInv'
<1> SUFFICES ASSUME TypeOK, WebInv, [WebNext]_vars PROVE WebInv'
  OBVIOUS
<1>1. CASE CreateOverride
  BY <1>1, CreateOverrideInv
<1>2. CASE Restart
  BY <1>2, RestartInv
<1>3. CASE Tick
  BY <1>3, StoreFrame, SessionFrame DEF Tick, WebInv
<1>4. ASSUME NEW s \in Sessions, WebSession(s) PROVE WebInv'
  BY <1>4, WebSessionInv
<1>5. CASE UNCHANGED vars
  BY <1>5, StoreFrame, SessionFrame DEF vars, WebInv
<1> QED BY <1>1, <1>2, <1>3, <1>4, <1>5 DEF WebNext

\* The inductive invariant of the web API holds with any number of sessions.
THEOREM WebInvariant == WebSpec => [](TypeOK /\ WebInv)
<1>1. Init => TypeOK /\ WebInv
  BY InitTyped, InitInv
<1>2. TypeOK /\ WebInv /\ [WebNext]_vars => TypeOK' /\ WebInv'
  BY WebStep, TypeStep DEF Next, vars
<1> QED BY <1>1, <1>2, PTL DEF WebSpec

------------------------------------------------------------------------------
(* The web API: what follows from the invariant.                           *)

\* Day rows exist exactly for the days of active overrides, whatever web
\* requests race.
THEOREM WebActiveOwnsDays == WebSpec => []ActiveOwnsDays
<1>1. WebInv => ActiveOwnsDays
  BY DEF WebInv
<1> QED BY <1>1, WebInvariant, PTL

\* README.md:273 holds of the web API for any number of concurrent approvals.
THEOREM WebNoDoubleBooking == WebSpec => []NoDoubleBooking
<1>1. WebInv => NoDoubleBooking
  BY DEF WebInv, ActiveOwnsDays, NoDoubleBooking, SpanDays
<1> QED BY <1>1, WebInvariant, PTL

\* No race of web requests lets a requester approve their own override.
THEOREM WebConsent == WebSpec => []Consent
<1>1. WebInv => Consent
  BY DEF WebInv
<1> QED BY <1>1, WebInvariant, PTL

\* On the web the 409 of the no-overlap backstop always has a cause that came
\* after the request read the calendar.
THEOREM WebConflictMeansRace == WebSpec => []ConflictMeansRace
<1>1. TypeOK /\ WebInv => ConflictMeansRace
  <2> SUFFICES ASSUME TypeOK, WebInv, NEW s \in Sessions, ses[s].pc = "claiming",
                      Conflict(ses[s].target, ses[s].batch), ~row[ses[s].target].active
               PROVE  \E j \in Ids \ ses[s].batch :
                        row[j].active /\ SpanDays(j) \cap SpanDays(ses[s].target) # {}
    BY DEF ConflictMeansRace
  <2> DEFINE i == ses[s].target
             gone == ses[s].batch
  <2>1. i \in Ids
    BY DEF TypeOK
  <2>2. CASE \E d \in SpanDays(i) : Released(gone)[d] # None
    <3>1. PICK d \in SpanDays(i) : claim[d] \notin gone /\ claim[d] # None
      BY <2>2 DEF Released, SpanDays
    <3>2. claim[d] \in Ids /\ d \in Days
      BY <3>1 DEF TypeOK, SpanDays
    <3>3. row[claim[d]].active /\ d \in SpanDays(claim[d])
      BY <3>2 DEF WebInv, ActiveOwnsDays
    <3> QED BY <3>1, <3>2, <3>3
  <2>3. CASE \E j \in Ids \ ({i} \cup gone) : row[j].active /\ request[j].start = request[i].start
    <3>1. PICK j \in Ids \ ({i} \cup gone) : row[j].active /\ request[j].start = request[i].start
      BY <2>3
    <3>2. row[j].status # "Absent" /\ row[i].status # "Absent"
      BY <3>1 DEF WebInv, OpenIsInactive, SessionOK
    <3>3. request[i].start \in SpanDays(i) /\ request[i].start \in SpanDays(j)
      BY <2>1, <3>1, <3>2 DEF WebInv, RequestOK, SpanDays, Days
    <3> QED BY <3>1, <3>3
  <2> QED BY <2>2, <2>3 DEF Conflict
<1> QED BY <1>1, WebInvariant, PTL

------------------------------------------------------------------------------
(* The web API implements the abstract calendar.                           *)

Asked == [i \in Ids |-> SpanDays(i)]
Booked == {i \in Ids : row[i].active}

\* Two valid ranges overlap exactly when they share a day.
LEMMA OverlapIsSharedDay ==
  ASSUME NEW i \in Ids, NEW j \in Ids,
         request[i].start \in Days, request[i].end \in Days, request[i].start <= request[i].end,
         request[j].start \in Days, request[j].end \in Days, request[j].start <= request[j].end
  PROVE  RangesOverlap(i, j) <=> SpanDays(j) \cap SpanDays(i) # {}
<1>1. ASSUME RangesOverlap(i, j), request[i].start <= request[j].start
      PROVE  request[j].start \in SpanDays(j) \cap SpanDays(i)
  BY <1>1 DEF RangesOverlap, SpanDays, Days
<1>2. ASSUME RangesOverlap(i, j), ~(request[i].start <= request[j].start)
      PROVE  request[i].start \in SpanDays(j) \cap SpanDays(i)
  BY <1>2 DEF RangesOverlap, SpanDays, Days
<1>3. ASSUME NEW d \in SpanDays(j) \cap SpanDays(i)
      PROVE  RangesOverlap(i, j)
  BY <1>3 DEF RangesOverlap, SpanDays, Days
<1> QED BY <1>1, <1>2, <1>3

LEMMA InitCalendar == Init => Calendar!Init
<1> SUFFICES ASSUME Init PROVE Asked = [i \in Ids |-> {}] /\ Booked = {}
  BY DEF Calendar!Init, Asked, Booked
<1>1. \A i \in Ids : SpanDays(i) = {}
  BY DEF Init, NoRequest, SpanDays, Days
<1> QED BY <1>1 DEF Init, NoColumns, Asked, Booked

\* Inserting a request for a valid range is asking for its days.
LEMMA InsertAsks ==
  ASSUME TypeOK, \A j \in Ids : RequestOK(j), NEW i \in Ids, NEW status, NEW r,
         r.start \in Days, r.end \in Days, r.start <= r.end, Insert(i, status, r)
  PROVE  Calendar!Next
<1>1. /\ request[i] = NoRequest
      /\ request'[i] = r
      /\ \A j \in Ids \ {i} : request'[j] = request[j]
      /\ \A j \in Ids : row'[j].active = row[j].active
  BY DEF Insert, TypeOK, Columns, RequestOK
<1>2. SpanDays(i) = {}
  BY <1>1 DEF NoRequest, SpanDays, Days
<1>3. r.start \in SpanDays(i)'
  BY <1>1 DEF SpanDays, Days
<1>4. SpanDays(i)' \subseteq Days
  BY DEF SpanDays
<1>5. \A j \in Ids \ {i} : SpanDays(j)' = SpanDays(j)
  BY <1>1 DEF SpanDays
<1>6. Asked' = [Asked EXCEPT ![i] = SpanDays(i)'] /\ Asked[i] = {} /\ Booked' = Booked
  BY <1>1, <1>2, <1>5 DEF Asked, Booked
<1>7. SpanDays(i)' \in (SUBSET Days) \ {{}}
  BY <1>3, <1>4
<1>8. \E days \in (SUBSET Days) \ {{}} : Asked' = [Asked EXCEPT ![i] = days]
  BY <1>6, <1>7
<1>9. Calendar!Ask(i)
  BY <1>6, <1>8 DEF Calendar!Ask, Asked, Booked
<1> QED BY <1>9 DEF Calendar!Next

LEMMA CreateAsks == TypeOK /\ WebInv /\ CreateOverride => Calendar!Next
<1> SUFFICES ASSUME TypeOK, WebInv, CreateOverride PROVE Calendar!Next
  OBVIOUS
<1>1. PICK i \in Ids, start \in Days, end \in Days :
        /\ IsValidRange(start, end)
        /\ \E who \in Parents, holiday \in BOOLEAN, at \in 0..now :
             Insert(i, "Pending",
                    [requester |-> who, start |-> start, end |-> end,
                     expires |-> ExpiryAt(at, holiday, start, end), sms |-> FALSE])
  BY DEF CreateOverride
<1>2. PICK r : /\ r.start = start /\ r.end = end
              /\ Insert(i, "Pending", r)
  BY <1>1
<1> QED BY <1>1, <1>2, InsertAsks DEF IsValidRange, WebInv

\* Committing an approval is booking it: the bookings released are those the
\* session read, and they are exactly the ones that overlap it at the commit.
LEMMA ActivateBooks ==
  ASSUME TypeOK, WebInv, NEW s \in Sessions, ActivateCommit(s)
  PROVE  Calendar!Next
<1>0. PICK i \in Ids : i = ses[s].target
  BY DEF ActivateCommit, TypeOK
<1> DEFINE gone == ses[s].batch
<1>1. /\ i \in Ids /\ gone \subseteq Ids /\ i \notin gone /\ ~ses[s].seen.active
      /\ row[i].status # "Absent"
      /\ \A j \in gone : row[j].status # "Absent" /\ RangesOverlap(i, j)
  BY <1>0 DEF ActivateCommit, TypeOK, SessionState, WebInv, SessionOK
<1>2. /\ row'[i].active
      /\ \A j \in gone : ~row'[j].active
      /\ \A j \in Ids \ ({i} \cup gone) : row'[j] = row[j]
  <2>1. row' = [j \in Ids |->
           IF j = i THEN Approve(row[i], ses[s].seen, ses[s].by)
           ELSE IF j \in gone THEN [row[j] EXCEPT !.active = FALSE] ELSE row[j]]
    BY <1>0 DEF ActivateCommit
  <2>2. Approve(row[i], ses[s].seen, ses[s].by).active
    BY <1>1 DEF Approve, Flush
  <2> QED BY <1>1, <2>1, <2>2 DEF TypeOK, Columns
<1>3. \A d \in SpanDays(i) : claim[d] \in gone \/ claim[d] = None
  BY <1>0 DEF ActivateCommit, Conflict, Released, SpanDays
<1>4. \A j \in Ids, d \in Days : claim[d] = j <=> row[j].active /\ d \in SpanDays(j)
  BY DEF WebInv, ActiveOwnsDays
<1>5. request[i].start \in SpanDays(i)
  BY <1>1 DEF WebInv, RequestOK, SpanDays, Days
<1>6. ~row[i].active
  BY <1>1, <1>3, <1>4, <1>5, OverridesAssumption DEF SpanDays
<1>7. \A j \in gone : SpanDays(j) \cap SpanDays(i) # {}
  BY <1>1, OverlapIsSharedDay DEF WebInv, RequestOK
<1>8. \A j \in Ids \ gone : row[j].active => SpanDays(j) \cap SpanDays(i) = {}
  BY <1>3, <1>4, OverridesAssumption DEF SpanDays
<1>9. \A j \in Ids : SpanDays(j)' = SpanDays(j)
  BY DEF ActivateCommit, SpanDays
<1>10. Booked' = {j \in Booked : SpanDays(j) \cap SpanDays(i) = {}} \cup {i}
  BY <1>1, <1>2, <1>6, <1>7, <1>8 DEF Booked
<1>11. Asked' = Asked /\ Asked[i] # {} /\ i \notin Booked
  BY <1>1, <1>5, <1>6, <1>9 DEF Asked, Booked
<1>12. \A j \in Booked : Asked[j] \cap Asked[i] = SpanDays(j) \cap SpanDays(i)
  BY <1>1 DEF Asked, Booked
<1>13. Booked' = {j \in Booked : ~(Asked[j] \cap Asked[i] # {})} \cup {i}
  BY <1>10, <1>12
<1>14. Calendar!Book(i)
  BY <1>11, <1>13 DEF Calendar!Book, Calendar!Overlaps, Asked, Booked
<1> QED BY <1>14 DEF Calendar!Next

LEMMA CalendarStutter ==
  ASSUME UNCHANGED request, \A j \in Ids : row'[j].active = row[j].active
  PROVE  UNCHANGED Calendar!vars
<1>1. \A j \in Ids : SpanDays(j)' = SpanDays(j)
  BY DEF SpanDays
<1> QED BY <1>1 DEF Calendar!vars

LEMMA CalendarStep == TypeOK /\ WebInv /\ [WebNext]_vars => [Calendar!Next]_Calendar!vars
<1> SUFFICES ASSUME TypeOK, WebInv, [WebNext]_vars
             PROVE  Calendar!Next \/ UNCHANGED Calendar!vars
  OBVIOUS
<1>1. CASE CreateOverride
  BY <1>1, CreateAsks
<1>2. ASSUME NEW s \in Sessions, ActivateCommit(s) PROVE Calendar!Next
  BY <1>2, ActivateBooks
<1>3. ASSUME NEW s \in Sessions, WebSession(s), ~ActivateCommit(s)
      PROVE  UNCHANGED request /\ \A j \in Ids : row'[j].active = row[j].active
  <2>0. row \in [Ids -> Columns]
    BY DEF TypeOK
  <2>1. CASE DecideExpired(s)
    BY <2>0, <2>1 DEF DecideExpired, Columns
  <2>2. CASE DecideRejected(s)
    BY <2>0, <2>2 DEF DecideRejected, Columns
  <2>3. CASE SweepCommit(s)
    BY <2>0, <2>3 DEF SweepCommit, Columns
  <2>4. CASE UNCHANGED <<request, row>>
    BY <2>4
  <2> QED BY <1>3, <2>1, <2>2, <2>3, <2>4
          DEF WebSession, DecideRead, DecideRefused, DecideJudged, ReadActives,
              ActivateConflict, SweepRead
<1>4. CASE Restart \/ Tick \/ UNCHANGED vars
  BY <1>4, CalendarStutter DEF Restart, Tick, vars
<1> QED BY <1>1, <1>2, <1>3, <1>4, CalendarStutter DEF WebNext

\* Whatever web requests interleave, what the family sees is a calendar in
\* which approvals happen one at a time, each superseding what it overlaps.
THEOREM WebImplementsCalendar == WebSpec => ImplementsCalendar
<1>1. Init => Calendar!Init
  BY InitCalendar
<1>2. TypeOK /\ WebInv /\ [WebNext]_vars => [Calendar!Next]_Calendar!vars
  BY CalendarStep
<1> QED BY <1>1, <1>2, WebInvariant, PTL DEF WebSpec, ImplementsCalendar, Calendar!Spec
------------------------------------------------------------------------------
(* The whole system, with any number of requests at once.  Overlapping     *)
(* texts and approvals can double-book a day (the run double_booking);     *)
(* these proofs are about what no interleaving does.                       *)

\* The counterparty has been asked, or the request has been decided.
WasPut(i) == row[i].status \notin {"Absent", "Draft"}

\* A day is claimed only by a request that asked for that day and was put to
\* the other parent (database/activation.py:99 claims the override's own span).
OrderlyClaims ==
  \A d \in Days : claim[d] # None => d \in SpanDays(claim[d]) /\ WasPut(claim[d])

\* No override becomes active, and no day is claimed that is not the backfill of
\* an active override, but by committing the approval of the other parent.
ApprovedByTheOther(i) ==
  \E s \in Sessions : /\ ActivateCommit(s)
                      /\ ses[s].target = i
                      /\ ses[s].by \in Parents \ {request[i].requester}

TakenOnlyByTheOther ==
  [][/\ \A i \in Ids : ~row[i].active /\ row'[i].active => ApprovedByTheOther(i)
     /\ \A d \in Days, i \in Ids :
          claim[d] # i /\ claim'[d] = i => row[i].active \/ ApprovedByTheOther(i)]_vars

\* A step that inserts an open request.
Inserted ==
  \E i \in Ids, status \in {"Draft", "Pending"}, r \in Request :
    /\ Insert(i, status, r)
    /\ r.requester \in Parents /\ r.start \in Days /\ r.end \in Days /\ r.start <= r.end

\* Both ways of asking insert one open request with a range in the right order.
LEMMA CreateInserts == ASSUME TypeOK, CreateOverride \/ CreateDraft PROVE Inserted
<1>1. CASE CreateOverride
  <2>1. PICK i \in Ids, who \in Parents, start \in Days, end \in Days,
             holiday \in BOOLEAN, at \in 0..now :
          /\ IsValidRange(start, end)
          /\ Insert(i, "Pending", [requester |-> who, start |-> start, end |-> end,
                 expires |-> ExpiryAt(at, holiday, start, end), sms |-> FALSE])
    BY <1>1 DEF CreateOverride
  <2> DEFINE r == [requester |-> who, start |-> start, end |-> end,
                   expires |-> ExpiryAt(at, holiday, start, end), sms |-> FALSE]
  <2>2. ExpiryAt(at, holiday, start, end) \in Nat
    BY OverridesAssumption DEF ExpiryAt, TypeOK, Days
  <2>3. r \in Request /\ r.requester = who /\ r.start = start /\ r.end = end
    BY <2>2 DEF Request, Days
  <2>4. Insert(i, "Pending", r) /\ start <= end
    BY <2>1 DEF IsValidRange
  <2> HIDE DEF r
  <2> QED BY <2>3, <2>4 DEF Inserted
<1>2. CASE CreateDraft
  <2>1. PICK i \in Ids, who \in Parents, start \in Days, end \in Days, at \in 0..now :
          /\ IsValidRange(start, end)
          /\ Insert(i, "Draft", [requester |-> who, start |-> start, end |-> end,
                 expires |-> at + RequestTtl, sms |-> TRUE])
    BY <1>2 DEF CreateDraft
  <2> DEFINE r == [requester |-> who, start |-> start, end |-> end,
                   expires |-> at + RequestTtl, sms |-> TRUE]
  <2>2. at + RequestTtl \in Nat
    BY OverridesAssumption DEF TypeOK
  <2>3. r \in Request /\ r.requester = who /\ r.start = start /\ r.end = end
    BY <2>2 DEF Request, Days
  <2>4. Insert(i, "Draft", r) /\ start <= end
    BY <2>1 DEF IsValidRange
  <2> HIDE DEF r
  <2> QED BY <2>3, <2>4 DEF Inserted
<1> QED BY <1>1, <1>2

\* What a session knows although others write between its steps: its request
\* exists and was put to the other parent, for whom it acts if it approves.
AnySession(s) ==
  LET i == ses[s].target IN
  /\ ses[s].pc \notin {"idle", "sweeping"} => row[i].status # "Absent"
  /\ ses[s].pc = "deciding" =>
       ses[s].by \in Parents /\ (ses[s].seen.status = "Pending" => WasPut(i))
  /\ ses[s].pc \in {"expiring", "rejecting", "reloading", "activating", "claiming"} => WasPut(i)
  /\ ses[s].pc \in {"reloading", "activating", "claiming"} =>
       ses[s].by \in Parents \ {request[i].requester}
  /\ ses[s].pc \in {"setting", "saving"} => ses[s].goal \in {"Expired", "Rejected", "Pending"}
  /\ \A j \in ses[s].batch : row[j].status # "Absent"

AnyStore == /\ \A i \in Ids : RequestOK(i)
            /\ OrderlyClaims
            /\ \A i \in Ids : row[i].active => WasPut(i)

AnyInv == AnyStore /\ \A s \in Sessions : AnySession(s)

LEMMA InitAnyInv == Init => AnyInv
  BY OverridesAssumption
  DEF Init, AnyInv, AnyStore, AnySession, RequestOK, OrderlyClaims, NoRequest, NoColumns, Idle

\* What no step of anybody undoes.
Forward == \A j \in Ids :
  /\ row[j].status # "Absent" => row'[j].status # "Absent" /\ request'[j] = request[j]
  /\ WasPut(j) => WasPut(j)'

\* A step that lets days go, at most, and activates nothing.
Releases ==
  /\ UNCHANGED request
  /\ \A j \in Ids : /\ row'[j].active => row[j].active
                    /\ row[j].status = "Absent" <=> row'[j].status = "Absent"
                    /\ WasPut(j) => WasPut(j)'
  /\ \A d \in Days : claim'[d] # None => claim'[d] = claim[d]

LEMMA ReleasesStore == ASSUME TypeOK, AnyStore, Releases PROVE AnyStore' /\ Forward
<1>1. \A j \in Ids : SpanDays(j)' = SpanDays(j)
  BY DEF SpanDays, Releases
<1>2. Forward
  BY DEF Forward, Releases
<1>3. \A j \in Ids : RequestOK(j)'
  BY DEF AnyStore, RequestOK, Releases
<1>4. \A j \in Ids : row'[j].active => WasPut(j)'
  BY DEF AnyStore, Releases
<1>5. OrderlyClaims'
  <2> SUFFICES ASSUME NEW d \in Days, claim'[d] # None
               PROVE  d \in SpanDays(claim[d])' /\ WasPut(claim[d])' /\ claim'[d] = claim[d]
    BY DEF OrderlyClaims
  <2>1. claim'[d] = claim[d] /\ claim[d] \in Ids
    BY DEF Releases, TypeOK
  <2> QED BY <1>1, <1>2, <2>1 DEF AnyStore, OrderlyClaims, Forward
<1> QED BY <1>2, <1>3, <1>4, <1>5 DEF AnyStore

LEMMA AnyFrame ==
  ASSUME TypeOK, Forward, NEW t \in Sessions, AnySession(t), ses'[t] = ses[t]
  PROVE  AnySession(t)'
<1>1. /\ ses[t].batch \subseteq Ids
      /\ (ses[t].pc \notin {"idle", "sweeping"} => ses[t].target \in Ids)
  BY DEF TypeOK, SessionState
<1>2. \A j \in Ids : row[j].status # "Absent" =>
        row'[j].status # "Absent" /\ request'[j].requester = request[j].requester
  BY DEF Forward
<1>3. \A j \in Ids : WasPut(j) => WasPut(j)' /\ row[j].status # "Absent"
  BY DEF Forward, WasPut
<1> HIDE DEF WasPut
<1> QED BY <1>1, <1>2, <1>3 DEF AnySession

\* A session writes its own state only.
LEMMA OwnState ==
  ASSUME TypeOK, NEW s \in Sessions, WebSession(s) \/ SmsSession(s), NEW t \in Sessions, t # s
  PROVE  ses'[t] = ses[t]
<1>1. \E f : ses' = [ses EXCEPT ![s] = f]
  BY DEF WebSession, SmsSession, DecideRead, DecideRefused, DecideJudged, DecideExpired,
         DecideRejected, ReadActives, ActivateCommit, ActivateConflict, SweepRead, SweepCommit,
         InitiatorReply, CounterpartyReply, ActivateReload, StopWithdraw, SetStatusLoad,
         SetStatusCommit, Begin, Goto, Finish
<1> QED BY <1>1 DEF TypeOK

LEMMA AnyFinished == ASSUME TypeOK, NEW s \in Sessions, Finish(s) PROVE AnySession(s)'
  BY DEF TypeOK, Finish, Idle, AnySession

\* Steps of a session that only look.
LEMMA LookReleases ==
  ASSUME UNCHANGED <<request, row, claim>> PROVE Releases
  BY DEF Releases, WasPut

LEMMA AnyWebSession ==
  ASSUME TypeOK, AnyInv, NEW s \in Sessions, WebSession(s), ~ActivateCommit(s)
  PROVE  Releases /\ AnySession(s)'
<1>0. /\ ses \in [Sessions -> SessionState] /\ ses[s] \in SessionState
      /\ row \in [Ids -> Columns]
      /\ (ses[s].pc \notin {"idle", "sweeping"} => ses[s].target \in Ids)
      /\ AnySession(s)
  BY DEF TypeOK, AnyInv
<1>1. CASE DecideRead(s)
  <2>1. PICK i \in Ids, who \in Parents :
          /\ row[i].status # "Absent"
          /\ ses' = [ses EXCEPT ![s] =
               [Idle EXCEPT !.pc = "deciding", !.target = i, !.by = who, !.seen = row[i]]]
    BY <1>1 DEF DecideRead, Begin
  <2>2. UNCHANGED <<request, row, claim>>
    BY <1>1 DEF DecideRead
  <2>3. AnySession(s)'
    BY <1>0, <2>1, <2>2 DEF AnySession, Idle, WasPut
  <2> QED BY <2>2, <2>3, LookReleases
<1>2. CASE DecideRefused(s) \/ ActivateConflict(s)
  <2>1. UNCHANGED <<request, row, claim>> /\ Finish(s)
    BY <1>2 DEF DecideRefused, ActivateConflict
  <2> QED BY <2>1, LookReleases, AnyFinished
<1>3. CASE DecideJudged(s)
  <2>1. PICK label \in {"expiring", "rejecting", "activating"} :
          /\ ses' = [ses EXCEPT ![s].pc = label]
          /\ label = "activating" => WebVerdict(s) = "ok"
          /\ WebVerdict(s) \in {"expired", "ok"} /\ ses[s].pc = "deciding"
    BY <1>3 DEF DecideJudged, Goto
  <2>2. /\ ses[s].seen.status = "Pending"
        /\ WebVerdict(s) = "ok" => ses[s].by # request[ses[s].target].requester
    BY <2>1 DEF WebVerdict, Verdict
  <2>3. /\ ses'[s].pc = label /\ ses'[s].target = ses[s].target /\ ses'[s].by = ses[s].by
        /\ ses'[s].seen = ses[s].seen /\ ses'[s].batch = ses[s].batch
    BY <1>0, <2>1 DEF SessionState
  <2>4. UNCHANGED <<request, row, claim>>
    BY <1>3 DEF DecideJudged
  <2>5. AnySession(s)'
    BY <1>0, <2>1, <2>2, <2>3, <2>4 DEF AnySession, WasPut
  <2> QED BY <2>4, <2>5, LookReleases
<1>4. CASE DecideExpired(s) \/ DecideRejected(s)
  <2> DEFINE i == ses[s].target
  <2>1. i \in Ids /\ WasPut(i) /\ Finish(s) /\ UNCHANGED <<request, claim>>
    BY <1>0, <1>4 DEF DecideExpired, DecideRejected, AnySession
  <2>2. \/ row' = [row EXCEPT ![i].status = "Expired"]
        \/ row' = [row EXCEPT ![i] = [@ EXCEPT !.status = "Rejected", !.decidedBy = ses[s].by]]
    BY <1>4 DEF DecideExpired, DecideRejected
  <2> HIDE DEF i
  <2>3. /\ row'[i].active = row[i].active /\ row'[i].status \in {"Expired", "Rejected"}
        /\ \A j \in Ids \ {i} : row'[j] = row[j]
    BY <1>0, <2>1, <2>2 DEF Columns
  <2>4. Releases
    BY <2>1, <2>3 DEF Releases, WasPut
  <2> QED BY <2>1, <2>4, AnyFinished
<1>5. CASE ReadActives(s)
  <2>1. /\ ses'[s] = [ses[s] EXCEPT !.pc = "claiming", !.batch = OverlappingActives(ses[s].target)]
        /\ ses[s].pc = "activating" /\ UNCHANGED <<request, row, claim>>
    BY <1>0, <1>5 DEF ReadActives
  <2>2. /\ ses'[s].pc = "claiming" /\ ses'[s].target = ses[s].target /\ ses'[s].by = ses[s].by
        /\ ses'[s].batch = OverlappingActives(ses[s].target)
    BY <1>0, <2>1 DEF SessionState
  <2>3. \A j \in OverlappingActives(ses[s].target) : row[j].status # "Absent"
    BY DEF AnyInv, AnyStore, OverlappingActives, WasPut
  <2>4. AnySession(s)'
    BY <1>0, <2>1, <2>2, <2>3 DEF AnySession, WasPut
  <2> QED BY <2>1, <2>4, LookReleases
<1>6. CASE SweepRead(s)
  <2>1. PICK at \in 0..now :
          ses' = [ses EXCEPT ![s] = [Idle EXCEPT !.pc = "sweeping", !.batch = ExpiredPending(at)]]
    BY <1>6 DEF SweepRead, Begin
  <2>2. UNCHANGED <<request, row, claim>>
    BY <1>6 DEF SweepRead
  <2>3. ses'[s].pc = "sweeping" /\ ses'[s].batch = ExpiredPending(at)
    BY <1>0, <2>1 DEF Idle
  <2>4. AnySession(s)'
    BY <2>2, <2>3 DEF AnySession, ExpiredPending
  <2> QED BY <2>2, <2>4, LookReleases
<1>7. CASE SweepCommit(s)
  <2>1. /\ Finish(s) /\ UNCHANGED <<request, claim>>
        /\ row' = [i \in Ids |-> IF i \in ses[s].batch
                                   THEN [row[i] EXCEPT !.status = "Expired"] ELSE row[i]]
    BY <1>7 DEF SweepCommit
  <2>2. \A j \in ses[s].batch : row[j].status # "Absent"
    BY <1>0 DEF AnySession
  <2>3. ASSUME NEW j \in Ids
        PROVE  /\ row'[j].active = row[j].active
               /\ row'[j].status = IF j \in ses[s].batch THEN "Expired" ELSE row[j].status
    BY <1>0, <2>1 DEF Columns
  <2>4. Releases
    BY <2>1, <2>2, <2>3 DEF Releases, WasPut
  <2> QED BY <2>1, <2>4, AnyFinished
<1> QED BY <1>1, <1>2, <1>3, <1>4, <1>5, <1>6, <1>7 DEF WebSession

\* A session that is told to set the status of an override that exists.
LEMMA AnySetting ==
  ASSUME TypeOK, NEW s \in Sessions, UNCHANGED row, NEW i \in Ids, NEW goal, NEW by, NEW rest,
         ses'[s] = SetStatus(i, goal, by, rest), row[i].status # "Absent",
         \A j \in rest : row[j].status # "Absent", goal \in {"Expired", "Rejected", "Pending"}
  PROVE  AnySession(s)'
  BY DEF SetStatus, Idle, AnySession

LEMMA AnySmsSession ==
  ASSUME TypeOK, AnyInv, NEW s \in Sessions, SmsSession(s)
  PROVE  Releases /\ AnySession(s)'
<1>0. /\ ses \in [Sessions -> SessionState] /\ ses[s] \in SessionState
      /\ row \in [Ids -> Columns]
      /\ (ses[s].pc \notin {"idle", "sweeping"} => ses[s].target \in Ids)
      /\ AnySession(s)
  BY DEF TypeOK, AnyInv
<1>1. CASE InitiatorReply(s)
  <2>1. UNCHANGED <<request, row, claim>>
    BY <1>1 DEF InitiatorReply
  <2>2. PICK i \in Ids, goal \in {"Expired", "Rejected", "Pending"} :
          row[i].status = "Draft" /\ ses'[s] = SetStatus(i, goal, None, {})
    BY <1>0, <1>1 DEF InitiatorReply, Begin
  <2> QED BY <2>1, <2>2, AnySetting, LookReleases
<1>2. CASE CounterpartyReply(s)
  <2>1. UNCHANGED <<request, row, claim>>
    BY <1>2 DEF CounterpartyReply
  <2>2. PICK i \in Ids, who \in Parents, at \in 0..now :
          /\ who # request[i].requester
          /\ LET v == Verdict(row[i].status, request[i], who, at)
             IN  \/ v = "expired" /\ Begin(s, SetStatus(i, "Expired", None, {}))
                 \/ v = "ok" /\ Begin(s, SetStatus(i, "Rejected", who, {}))
                 \/ v = "ok" /\ Begin(s, [Idle EXCEPT !.pc = "reloading", !.target = i, !.by = who])
    BY <1>2 DEF CounterpartyReply
  <2>3. row[i].status = "Pending"
    BY <2>2 DEF Verdict
  <2>4. CASE ses' = [ses EXCEPT ![s] = [Idle EXCEPT !.pc = "reloading", !.target = i, !.by = who]]
    <3>1. /\ ses'[s].pc = "reloading" /\ ses'[s].target = i /\ ses'[s].by = who
          /\ ses'[s].batch = {}
      BY <1>0, <2>4 DEF Idle
    <3>2. AnySession(s)'
      BY <2>1, <2>2, <2>3, <3>1 DEF AnySession, WasPut
    <3> QED BY <2>1, <3>2, LookReleases
  <2>5. CASE \E goal \in {"Expired", "Rejected"} : \E by :
               ses'[s] = SetStatus(i, goal, by, {})
    BY <2>1, <2>3, <2>5, AnySetting, LookReleases
  <2> QED BY <1>0, <2>2, <2>4, <2>5 DEF Begin
<1>3. CASE ActivateReload(s)
  <2>1. /\ UNCHANGED <<request, row, claim>> /\ ses[s].pc = "reloading"
        /\ ses' = [ses EXCEPT ![s] = [@ EXCEPT !.pc = "activating", !.seen = row[ses[s].target]]]
    BY <1>3 DEF ActivateReload
  <2>2. /\ ses'[s].pc = "activating" /\ ses'[s].target = ses[s].target /\ ses'[s].by = ses[s].by
        /\ ses'[s].batch = ses[s].batch
    BY <1>0, <2>1 DEF SessionState
  <2>3. AnySession(s)'
    BY <1>0, <2>1, <2>2 DEF AnySession, WasPut
  <2> QED BY <2>1, <2>3, LookReleases
<1>4. CASE StopWithdraw(s)
  <2>1. UNCHANGED <<request, row, claim>>
    BY <1>4 DEF StopWithdraw
  <2>2. PICK who \in Parents, at \in 0..now : \E i \in OpenRequests(who, at) :
          ses' = [ses EXCEPT ![s] = SetStatus(i, "Rejected", who, OpenRequests(who, at) \ {i})]
    BY <1>4 DEF StopWithdraw, Begin
  <2> DEFINE open == OpenRequests(who, at)
  <2>3. open \subseteq Ids /\ \A j \in open : row[j].status # "Absent"
    BY DEF OpenRequests
  <2>4. PICK i \in open : ses'[s] = SetStatus(i, "Rejected", who, open \ {i})
    BY <1>0, <2>2
  <2> HIDE DEF open
  <2> QED BY <2>1, <2>3, <2>4, AnySetting, LookReleases
<1>5. CASE SetStatusLoad(s)
  <2>1. /\ UNCHANGED <<request, row, claim>> /\ ses[s].pc = "setting"
        /\ ses' = [ses EXCEPT ![s] = [@ EXCEPT !.pc = "saving", !.seen = row[ses[s].target]]]
    BY <1>5 DEF SetStatusLoad
  <2>2. /\ ses'[s].pc = "saving" /\ ses'[s].target = ses[s].target
        /\ ses'[s].goal = ses[s].goal /\ ses'[s].batch = ses[s].batch
    BY <1>0, <2>1 DEF SessionState
  <2>3. AnySession(s)'
    BY <1>0, <2>1, <2>2 DEF AnySession
  <2> QED BY <2>1, <2>3, LookReleases
<1>6. CASE SetStatusCommit(s)
  <2> DEFINE i == ses[s].target
             rest == ses[s].batch
             goal == ses[s].goal
             by == ses[s].by
             seen == ses[s].seen
             saved == [status    |-> Flush(row[i].status, seen.status, goal),
                       active    |-> Flush(row[i].active, seen.active, FALSE),
                       decidedBy |-> IF by = None THEN row[i].decidedBy
                                     ELSE Flush(row[i].decidedBy, seen.decidedBy, by)]
  <2>1. /\ i \in Ids /\ rest \subseteq Ids /\ row[i].status # "Absent"
        /\ \A j \in rest : row[j].status # "Absent"
        /\ goal \in {"Expired", "Rejected", "Pending"}
    BY <1>0, <1>6 DEF SetStatusCommit, AnySession, SessionState
  <2>2. /\ row' = [row EXCEPT ![i] = saved] /\ claim' = Released({i}) /\ UNCHANGED request
        /\ \/ Finish(s)
           \/ \E j \in rest : ses' = [ses EXCEPT ![s] = SetStatus(j, goal, by, rest \ {j})]
    BY <1>6 DEF SetStatusCommit
  <2>3. /\ saved.status \in {row[i].status, goal}
        /\ saved.active => row[i].active
    BY DEF Flush
  <2> HIDE DEF i, rest, goal, by, seen, saved
  <2>4. row'[i] = saved /\ \A j \in Ids : j # i => row'[j] = row[j]
    BY <1>0, <2>1, <2>2
  <2>5. \A d \in Days : claim'[d] # None => claim'[d] = claim[d]
    BY <2>2 DEF Released
  <2>6. Releases
    BY <2>1, <2>2, <2>3, <2>4, <2>5 DEF Releases, WasPut
  <2>7. CASE \E j \in rest : ses' = [ses EXCEPT ![s] = SetStatus(j, goal, by, rest \ {j})]
    <3>1. PICK j \in rest : ses' = [ses EXCEPT ![s] = SetStatus(j, goal, by, rest \ {j})]
      BY <2>7
    <3>2. /\ ses'[s].pc = "setting" /\ ses'[s].target = j /\ ses'[s].goal = goal
          /\ ses'[s].by = by /\ ses'[s].batch = rest \ {j}
      BY <1>0, <3>1 DEF SetStatus, Idle
    <3>3. \A k \in rest : row'[k].status # "Absent"
      BY <2>1, <2>6 DEF Releases
    <3>4. AnySession(s)'
      BY <2>1, <3>1, <3>2, <3>3 DEF AnySession
    <3> QED BY <2>6, <3>4
  <2> QED BY <2>2, <2>6, <2>7, AnyFinished
<1> QED BY <1>1, <1>2, <1>3, <1>4, <1>5, <1>6 DEF SmsSession

\* What a step does to the store, whoever else is under way.
AnyEffect == \/ Releases
             \/ Inserted
             \/ Restart
             \/ \E s \in Sessions : ActivateCommit(s)

LEMMA AnyInsertedStore == ASSUME TypeOK, AnyStore, Inserted PROVE AnyStore' /\ Forward
<1>1. PICK i \in Ids, status \in {"Draft", "Pending"}, r \in Request :
        /\ Insert(i, status, r)
        /\ r.requester \in Parents /\ r.start \in Days /\ r.end \in Days /\ r.start <= r.end
  BY DEF Inserted
<1>2. /\ row[i].status = "Absent" /\ row'[i].status = status /\ row'[i].active = row[i].active
      /\ request'[i] = r /\ claim' = claim
      /\ \A j \in Ids \ {i} : row'[j] = row[j] /\ request'[j] = request[j]
  BY <1>1 DEF Insert, TypeOK, Columns
<1>3. Forward
  BY <1>2 DEF Forward, WasPut
<1>4. \A j \in Ids : RequestOK(j)'
  BY <1>1, <1>2 DEF AnyStore, RequestOK
<1>5. \A j \in Ids : row'[j].active => WasPut(j)'
  BY <1>1, <1>2 DEF AnyStore, WasPut
<1>6. OrderlyClaims'
  <2> SUFFICES ASSUME NEW d \in Days, claim[d] # None
               PROVE  d \in SpanDays(claim[d])' /\ WasPut(claim[d])'
    BY <1>2 DEF OrderlyClaims
  <2>1. /\ claim[d] \in Ids /\ d \in SpanDays(claim[d]) /\ WasPut(claim[d])
    BY DEF TypeOK, AnyStore, OrderlyClaims
  <2>2. claim[d] # i
    BY <1>2, <2>1 DEF WasPut
  <2> QED BY <1>2, <2>1, <2>2 DEF SpanDays, WasPut
<1> QED BY <1>3, <1>4, <1>5, <1>6 DEF AnyStore

\* An approval activates its own request, claims the days of its span and
\* deactivates others, whatever was read how long ago.
LEMMA AnyBooked ==
  ASSUME TypeOK, AnyInv, NEW s \in Sessions, ActivateCommit(s)
  PROVE  /\ UNCHANGED request /\ ses[s].target \in Ids /\ WasPut(ses[s].target)
         /\ ApprovedByTheOther(ses[s].target)
         /\ row'[ses[s].target].status \in {row[ses[s].target].status, "Approved"}
         /\ \A j \in Ids : j # ses[s].target =>
              /\ row'[j].status = row[j].status
              /\ row'[j].active => row[j].active
         /\ \A d \in Days : claim'[d] # None =>
              claim'[d] = claim[d] \/ (d \in SpanDays(ses[s].target) /\ claim'[d] = ses[s].target)
<1> DEFINE i == ses[s].target
           gone == ses[s].batch
<1>1. /\ ses[s].pc = "claiming" /\ UNCHANGED request /\ claim' = Claimed(i, gone)
      /\ row' = [j \in Ids |->
           IF j = i THEN Approve(row[i], ses[s].seen, ses[s].by)
           ELSE IF j \in gone THEN [row[j] EXCEPT !.active = FALSE] ELSE row[j]]
  BY DEF ActivateCommit
<1>2. i \in Ids /\ WasPut(i) /\ ses[s].by \in Parents \ {request[i].requester}
  BY <1>1 DEF AnyInv, AnySession, TypeOK
<1>3. ApprovedByTheOther(i)
  BY <1>2 DEF ApprovedByTheOther
<1>4. row \in [Ids -> Columns]
  BY DEF TypeOK
<1> HIDE DEF i, gone
<1>5. row'[i].status \in {row[i].status, "Approved"}
  BY <1>1, <1>2 DEF Approve, Flush
<1>6. ASSUME NEW j \in Ids, j # i
      PROVE  row'[j].status = row[j].status /\ (row'[j].active => row[j].active)
  BY <1>1, <1>4, <1>6 DEF Columns
<1>7. ASSUME NEW d \in Days, claim'[d] # None
      PROVE  claim'[d] = claim[d] \/ (d \in SpanDays(i) /\ claim'[d] = i)
  <2>1. claim' = [e \in Days |-> IF e \in SpanDays(i) THEN i ELSE Released(gone)[e]]
    BY <1>1 DEF Claimed
  <2>2. claim'[d] = IF d \in SpanDays(i) THEN i ELSE Released(gone)[d]
    BY <2>1
  <2>3. Released(gone)[d] = IF claim[d] \in gone THEN None ELSE claim[d]
    BY DEF Released
  <2> QED BY <1>7, <2>2, <2>3
<1> QED BY <1>1, <1>2, <1>3, <1>5, <1>6, <1>7 DEF i

LEMMA AnyBookedStore ==
  ASSUME TypeOK, AnyInv, NEW s \in Sessions, ActivateCommit(s)
  PROVE  AnyStore' /\ Forward
<1> DEFINE i == ses[s].target
<1>1. /\ UNCHANGED request /\ i \in Ids /\ WasPut(i)
      /\ row'[i].status \in {row[i].status, "Approved"}
      /\ \A j \in Ids : j # i => row'[j].status = row[j].status
                                 /\ (row'[j].active => row[j].active)
      /\ \A d \in Days : claim'[d] # None =>
           claim'[d] = claim[d] \/ (d \in SpanDays(i) /\ claim'[d] = i)
  BY AnyBooked
<1>0. AnyStore
  BY DEF AnyInv
<1> HIDE DEF i
<1>2. Forward
  BY <1>1 DEF Forward, WasPut
<1>3. \A j \in Ids : RequestOK(j)'
  BY <1>0, <1>1 DEF AnyStore, RequestOK, WasPut
<1>4. \A j \in Ids : row'[j].active => WasPut(j)'
  BY <1>0, <1>1, <1>2 DEF AnyStore, Forward
<1>5. \A j \in Ids : SpanDays(j)' = SpanDays(j)
  BY <1>1 DEF SpanDays
<1>6. OrderlyClaims'
  <2> SUFFICES ASSUME NEW d \in Days, claim'[d] # None
               PROVE  \E j \in Ids : claim'[d] = j /\ d \in SpanDays(j)' /\ WasPut(j)'
    BY DEF OrderlyClaims
  <2>1. CASE claim'[d] = claim[d]
    <3>1. claim[d] \in Ids /\ d \in SpanDays(claim[d]) /\ WasPut(claim[d])
      BY <1>0, <2>1 DEF AnyStore, OrderlyClaims, TypeOK
    <3> QED BY <1>2, <1>5, <2>1, <3>1 DEF Forward
  <2>2. CASE d \in SpanDays(i) /\ claim'[d] = i
    BY <1>1, <1>2, <1>5, <2>2 DEF Forward
  <2> QED BY <1>1, <2>1, <2>2
<1> QED BY <1>2, <1>3, <1>4, <1>6 DEF AnyStore

\* The boot gives days to active overrides only.
LEMMA RestartBackfills ==
  ASSUME TypeOK, Restart, NEW d \in Days, claim'[d] # claim[d]
  PROVE  claim'[d] \in ActiveOn(d)
  BY DEF Restart, Backfill

LEMMA AnyRestartStore == ASSUME TypeOK, AnyStore, Restart PROVE AnyStore' /\ Forward
<1>1. UNCHANGED <<request, row>>
  BY DEF Restart
<1>2. Forward /\ \A j \in Ids : SpanDays(j)' = SpanDays(j)
  BY <1>1 DEF Forward, WasPut, SpanDays
<1>3. /\ \A j \in Ids : RequestOK(j)'
      /\ \A j \in Ids : row'[j].active => WasPut(j)'
  BY <1>1 DEF AnyStore, RequestOK, WasPut
<1>4. OrderlyClaims'
  <2> SUFFICES ASSUME NEW d \in Days, claim'[d] # None
               PROVE  d \in SpanDays(claim'[d]) /\ WasPut(claim'[d]) /\ claim'[d] \in Ids
    BY <1>1, <1>2 DEF OrderlyClaims, WasPut
  <2>1. CASE claim'[d] = claim[d]
    BY <2>1 DEF AnyStore, OrderlyClaims, TypeOK
  <2>2. CASE claim'[d] # claim[d]
    BY <2>2, RestartBackfills DEF AnyStore, ActiveOn
  <2> QED BY <2>1, <2>2
<1> QED BY <1>2, <1>3, <1>4 DEF AnyStore

LEMMA AnyStep ==
  ASSUME TypeOK, AnyInv, [Next]_vars
  PROVE  AnyEffect /\ AnyInv'
<1>0. AnyStore /\ \A s \in Sessions : AnySession(s)
  BY DEF AnyInv
<1>1. CASE CreateOverride \/ CreateDraft
  <2>1. UNCHANGED ses
    BY <1>1 DEF CreateOverride, CreateDraft, Insert
  <2>2. Inserted
    BY <1>1, CreateInserts
  <2>3. AnyStore' /\ Forward
    BY <1>0, <2>2, AnyInsertedStore
  <2> QED BY <1>0, <2>1, <2>2, <2>3, AnyFrame DEF AnyEffect, AnyInv
<1>2. CASE Tick \/ UNCHANGED vars
  <2>1. UNCHANGED <<request, row, claim, ses>>
    BY <1>2 DEF Tick, vars
  <2>2. Releases /\ AnyStore' /\ Forward
    BY <1>0, <2>1, LookReleases, ReleasesStore
  <2> QED BY <1>0, <2>1, <2>2, AnyFrame DEF AnyEffect, AnyInv
<1>3. CASE Restart
  <2>1. AnyStore'
    BY <1>0, <1>3, AnyRestartStore
  <2>2. \A s \in Sessions : AnySession(s)'
    BY <1>3 DEF Restart, Idle, AnySession
  <2> QED BY <1>3, <2>1, <2>2 DEF AnyEffect, AnyInv
<1>4. ASSUME NEW s \in Sessions, ActivateCommit(s) PROVE AnyEffect /\ AnyInv'
  <2>1. AnyStore' /\ Forward
    BY <1>4, AnyBookedStore
  <2>2. WebSession(s) /\ AnySession(s)'
    BY <1>4, AnyFinished DEF WebSession, ActivateCommit
  <2>3. \A t \in Sessions : AnySession(t)'
    BY <1>0, <2>1, <2>2, OwnState, AnyFrame
  <2> QED BY <1>4, <2>1, <2>3 DEF AnyEffect, AnyInv
<1>5. ASSUME NEW s \in Sessions, (WebSession(s) /\ ~ActivateCommit(s)) \/ SmsSession(s)
      PROVE  AnyEffect /\ AnyInv'
  <2>1. Releases /\ AnySession(s)'
    BY <1>5, AnyWebSession, AnySmsSession
  <2>2. AnyStore' /\ Forward
    BY <1>0, <2>1, ReleasesStore
  <2>3. \A t \in Sessions : AnySession(t)'
    BY <1>0, <1>5, <2>1, <2>2, OwnState, AnyFrame
  <2> QED BY <2>1, <2>2, <2>3 DEF AnyEffect, AnyInv
<1> QED BY <1>1, <1>2, <1>3, <1>4, <1>5 DEF Next, WebNext

\* The strengthening for any number of web requests, texts, withdrawals, sweeps
\* and boots at once.
LEMMA AnyInvariant == Spec => [](TypeOK /\ AnyInv)
<1>1. Init => TypeOK /\ AnyInv
  BY InitTyped, InitAnyInv
<1>2. TypeOK /\ AnyInv /\ [Next]_vars => (TypeOK /\ AnyInv)'
  BY TypeStep, AnyStep
<1> QED BY <1>1, <1>2, PTL DEF Spec

\* However web requests, texts, withdrawals, sweeps and boots interleave, a claimed
\* day was asked for by the request that claims it, and that request was put to
\* the other parent: no draft ever holds a day (database/activation.py:72-104).
THEOREM ClaimsAreOrderly == Spec => []OrderlyClaims
<1>1. AnyInv => OrderlyClaims
  BY DEF AnyInv, AnyStore
<1> QED BY <1>1, AnyInvariant, PTL

\* core/approvals.py SELF_APPROVAL, for the calendar and not the columns: no
\* interleaving of anything makes an override active, or gives it a day it did
\* not have, except the approval of the parent who did not ask for it (a boot may
\* give it back the days of an override that already is active).
THEOREM CalendarMovesByConsent == Spec => TakenOnlyByTheOther
<1> DEFINE Moves ==
      /\ \A i \in Ids : ~row[i].active /\ row'[i].active => ApprovedByTheOther(i)
      /\ \A d \in Days, i \in Ids :
           claim[d] # i /\ claim'[d] = i => row[i].active \/ ApprovedByTheOther(i)
<1>1. ASSUME TypeOK, AnyInv, [Next]_vars PROVE Moves
  <2>0. /\ None \notin Ids /\ AnyEffect
    BY <1>1, AnyStep, OverridesAssumption
  <2>1. CASE Releases
    BY <2>0, <2>1 DEF Releases
  <2>2. CASE Inserted
    <3>1. claim' = claim /\ \A i \in Ids : row'[i].active = row[i].active
      BY <1>1, <2>2 DEF Inserted, Insert, TypeOK, Columns
    <3> QED BY <3>1
  <2>3. CASE Restart
    <3>1. row' = row
      BY <2>3 DEF Restart
    <3>2. ASSUME NEW d \in Days, NEW i \in Ids, claim[d] # i, claim'[d] = i
          PROVE  row[i].active
      BY <1>1, <2>3, <3>2, RestartBackfills DEF ActiveOn
    <3> QED BY <3>1, <3>2
  <2>4. ASSUME NEW s \in Sessions, ActivateCommit(s) PROVE Moves
    BY <1>1, <2>0, <2>4, AnyBooked
  <2> QED BY <2>0, <2>1, <2>2, <2>3, <2>4 DEF AnyEffect
<1>2. TypeOK /\ AnyInv /\ [Next]_vars => [Moves]_vars
  BY <1>1
<1> QED BY <1>2, AnyInvariant, PTL DEF Spec, TakenOnlyByTheOther

------------------------------------------------------------------------------
(* Any number of requests at once, from web and phone: what is true of     *)
(* every override that was not decided while a second session was at it.   *)

IsOpen(i) == row[i].status \in {"Draft", "Pending"}

\* The override owns exactly its days while it is in force, is in force only if
\* the other parent approved it, and holds nothing while it is open.
Sound(i) ==
  /\ \A d \in Days : claim[d] = i <=> row[i].active /\ d \in SpanDays(i)
  /\ row[i].active => row[i].status = "Approved"
  /\ row[i].status = "Approved" => row[i].decidedBy \in Parents \ {request[i].requester}
  /\ row[i].status \in {"Absent", "Draft", "Pending"} =>
       ~row[i].active /\ row[i].decidedBy = None

SoundStore == \A i \in Ids : IF i \in contested THEN row[i].status # "Absent" ELSE Sound(i)

Blank(seen) == ~seen.active /\ seen.decidedBy = None

\* What a session has read of an uncontested override it is at still holds.
StillOpen(t) ==
  LET i == ses[t].target
      pc == ses[t].pc
      seen == ses[t].seen
  IN  /\ pc = "deciding" /\ seen.status = "Pending" => row[i].status = "Pending" /\ Blank(seen)
      /\ pc \in {"expiring", "rejecting", "reloading", "activating", "claiming"} =>
           row[i].status = "Pending"
      /\ pc \in {"activating", "claiming"} => seen.status = "Pending" /\ Blank(seen)
      /\ pc \in {"setting", "saving"} => IsOpen(i)
      /\ pc = "saving" => seen.status \in {"Draft", "Pending"} /\ Blank(seen)

\* The same of what is left of its batch.
BatchOpen(t) ==
  \A j \in ses[t].batch \ contested :
    /\ ses[t].pc = "sweeping" => row[j].status = "Pending"
    /\ ses[t].pc \in {"setting", "saving"} => IsOpen(j)

\* A withdrawal goes through its overrides once each; a confirmation has one.
\* An approval supersedes others that overlap its own request.
Batched(t) ==
  /\ ses[t].pc \in {"setting", "saving"} =>
       /\ ses[t].target \notin ses[t].batch
       /\ ses[t].goal = "Pending" => ses[t].batch = {} /\ ses[t].by = None
  /\ ses[t].pc = "claiming" =>
       \A j \in ses[t].batch : j # ses[t].target /\ RangesOverlap(ses[t].target, j)

SoundSession(t) == /\ ses[t].target \in Ids \ contested => StillOpen(t)
                   /\ BatchOpen(t)
                   /\ Batched(t)

SoundInv == SoundStore /\ \A t \in Sessions : SoundSession(t)

LEMMA InitSound == Init => SoundInv
  BY OverridesAssumption
  DEF Init, SoundInv, SoundStore, Sound, SoundSession, StillOpen, BatchOpen, Batched,
      NoRequest, NoColumns, Idle

\* What a step may do to the overrides that others are at and nobody contests.
Gentle(T) ==
  /\ contested \subseteq contested'
  /\ \A j \in Ids : row[j].status # "Absent" =>
       row'[j].status # "Absent" /\ request'[j] = request[j]
  /\ \A t \in T : \A j \in AtWork(t) \ contested' :
       j \in Ids /\ row[j].status # "Absent" =>
       \/ row'[j].status = row[j].status
       \/ row[j].status = "Draft" /\ row'[j].status = "Pending"

LEMMA SoundFrame ==
  ASSUME TypeOK, NEW T \in SUBSET Sessions, Gentle(T), NEW t \in T,
         AnySession(t), SoundSession(t), ses'[t] = ses[t]
  PROVE  SoundSession(t)'
<1>1. /\ ses[t].batch \subseteq Ids /\ contested \subseteq contested'
      /\ (ses[t].pc \notin {"idle", "sweeping"} => ses[t].target \in Ids)
  BY DEF TypeOK, SessionState, Gentle
<1>2. ASSUME ses[t].target \in Ids \ contested' PROVE StillOpen(t)'
  <2> DEFINE i == ses[t].target
  <2>1. StillOpen(t) /\ i \in Ids
    BY <1>1, <1>2 DEF SoundSession
  <2>2. CASE ses[t].pc \in {"idle", "sweeping"}
    BY <2>2 DEF StillOpen
  <2>3. CASE ses[t].pc \notin {"idle", "sweeping"}
    <3>1. row[i].status # "Absent"
      BY <2>3 DEF AnySession
    <3>2. \/ row'[i].status = row[i].status
          \/ row[i].status = "Draft" /\ row'[i].status = "Pending"
      BY <1>2, <3>1 DEF Gentle, AtWork
    <3> QED BY <2>1, <3>2 DEF StillOpen, Blank, IsOpen
  <2> QED BY <2>2, <2>3
<1>3. BatchOpen(t)'
  <2> SUFFICES ASSUME NEW j \in ses[t].batch, j \notin contested',
                      ses[t].pc \in {"sweeping", "setting", "saving"}
               PROVE  /\ ses[t].pc = "sweeping" => row'[j].status = "Pending"
                      /\ ses[t].pc \in {"setting", "saving"} =>
                           row'[j].status \in {"Draft", "Pending"}
    BY DEF BatchOpen, IsOpen
  <2>1. j \in Ids /\ j \in AtWork(t) /\ j \notin contested
    BY <1>1 DEF AtWork
  <2>2. \/ row'[j].status = row[j].status
        \/ row[j].status = "Draft" /\ row'[j].status = "Pending"
    BY <2>1 DEF Gentle, AnySession
  <2> QED BY <2>1, <2>2 DEF SoundSession, BatchOpen, IsOpen
<1>4. Batched(t)'
  <2>1. CASE ses[t].pc = "claiming"
    <3>1. row[ses[t].target].status # "Absent" /\ \A j \in ses[t].batch : row[j].status # "Absent"
      BY <2>1 DEF AnySession
    <3>2. /\ request'[ses[t].target] = request[ses[t].target]
          /\ \A j \in ses[t].batch : request'[j] = request[j]
      BY <1>1, <2>1, <3>1 DEF Gentle
    <3> QED BY <2>1, <3>2 DEF SoundSession, Batched, RangesOverlap
  <2> QED BY <2>1 DEF SoundSession, Batched
<1> QED BY <1>2, <1>3, <1>4 DEF SoundSession

LEMMA SoundIdle ==
  ASSUME TypeOK, NEW s \in Sessions, Finish(s) PROVE SoundSession(s)'
  BY OverridesAssumption
  DEF TypeOK, Finish, Idle, SoundSession, StillOpen, BatchOpen, Batched

\* A step that only looks.
Looks == UNCHANGED <<request, row, claim, contested>>

LEMMA LooksSound ==
  ASSUME SoundStore, Looks PROVE SoundStore' /\ \A T \in SUBSET Sessions : Gentle(T)
<1>1. SoundStore'
  BY DEF SoundStore, Sound, SpanDays, Looks
<1>2. \A T \in SUBSET Sessions : Gentle(T)
  BY DEF Looks, Gentle
<1> QED BY <1>1, <1>2

\* The reads and local decisions of the web handlers.
LEMMA SoundWebLooks ==
  ASSUME TypeOK, AnyInv, SoundInv, NEW s \in Sessions,
         \/ DecideRead(s) \/ DecideRefused(s) \/ DecideJudged(s) \/ ReadActives(s)
         \/ ActivateConflict(s) \/ SweepRead(s)
  PROVE  Looks /\ SoundSession(s)'
<1>0. /\ ses \in [Sessions -> SessionState] /\ ses[s] \in SessionState /\ SoundSession(s)
      /\ None \notin Ids /\ SoundStore
  BY OverridesAssumption DEF TypeOK, SoundInv
<1>1. Looks
  BY DEF Looks, DecideRead, DecideRefused, DecideJudged, ReadActives, ActivateConflict, SweepRead
<1>2. \A j \in Ids : row'[j] = row[j] /\ contested' = contested /\ request' = request
  BY <1>1 DEF Looks
<1>3. CASE DecideRead(s)
  <2>1. PICK i \in Ids, who \in Parents :
          ses' = [ses EXCEPT ![s] =
            [Idle EXCEPT !.pc = "deciding", !.target = i, !.by = who, !.seen = row[i]]]
    BY <1>3 DEF DecideRead, Begin
  <2>2. /\ ses'[s].pc = "deciding" /\ ses'[s].target = i /\ ses'[s].seen = row[i]
        /\ ses'[s].batch = {}
    BY <1>0, <2>1 DEF Idle
  <2>3. i \notin contested => (row[i].status = "Pending" => Blank(row[i]))
    BY <1>0 DEF SoundStore, Sound, Blank
  <2>4. ses'[s].target \in Ids \ contested' => StillOpen(s)'
    BY <1>2, <2>2, <2>3 DEF StillOpen, Blank
  <2>5. BatchOpen(s)' /\ Batched(s)'
    BY <2>2 DEF BatchOpen, Batched
  <2> QED BY <1>1, <2>4, <2>5 DEF SoundSession
<1>4. CASE DecideRefused(s) \/ ActivateConflict(s)
  BY <1>1, <1>4, SoundIdle DEF DecideRefused, ActivateConflict
<1>5. CASE DecideJudged(s)
  <2>1. PICK label \in {"expiring", "rejecting", "activating"} :
          /\ ses' = [ses EXCEPT ![s].pc = label]
          /\ WebVerdict(s) \in {"expired", "ok"} /\ ses[s].pc = "deciding"
    BY <1>5 DEF DecideJudged, Goto
  <2>2. ses[s].seen.status = "Pending"
    BY <2>1 DEF WebVerdict, Verdict
  <2>3. /\ ses'[s].pc = label /\ ses'[s].target = ses[s].target
        /\ ses'[s].seen = ses[s].seen /\ ses'[s].batch = ses[s].batch
    BY <1>0, <2>1 DEF SessionState
  <2>4. ses'[s].target \in Ids \ contested' => StillOpen(s)'
    BY <1>0, <1>2, <2>1, <2>2, <2>3 DEF SoundSession, StillOpen, Blank
  <2>5. BatchOpen(s)' /\ Batched(s)'
    BY <2>3 DEF BatchOpen, Batched
  <2> QED BY <1>1, <2>4, <2>5 DEF SoundSession
<1>6. CASE ReadActives(s)
  <2> DEFINE i == ses[s].target
  <2>1. /\ ses'[s] = [ses[s] EXCEPT !.pc = "claiming", !.batch = OverlappingActives(i)]
        /\ ses[s].pc = "activating"
    BY <1>0, <1>6 DEF ReadActives
  <2>2. /\ ses'[s].pc = "claiming" /\ ses'[s].target = i /\ ses'[s].seen = ses[s].seen
        /\ ses'[s].batch = OverlappingActives(i)
    BY <1>0, <2>1 DEF SessionState
  <2>3. ses'[s].target \in Ids \ contested' => StillOpen(s)'
    BY <1>0, <1>2, <2>1, <2>2 DEF SoundSession, StillOpen, Blank
  <2>4. Batched(s)'
    BY <1>2, <2>2 DEF Batched, OverlappingActives, RangesOverlap
  <2>5. BatchOpen(s)'
    BY <2>2 DEF BatchOpen
  <2> QED BY <1>1, <2>3, <2>4, <2>5 DEF SoundSession
<1>7. CASE SweepRead(s)
  <2>1. PICK at \in 0..now :
          ses' = [ses EXCEPT ![s] = [Idle EXCEPT !.pc = "sweeping", !.batch = ExpiredPending(at)]]
    BY <1>7 DEF SweepRead, Begin
  <2>2. ses'[s].pc = "sweeping" /\ ses'[s].batch = ExpiredPending(at) /\ ses'[s].target = None
    BY <1>0, <2>1 DEF Idle
  <2>3. BatchOpen(s)'
    BY <1>2, <2>2 DEF BatchOpen, ExpiredPending
  <2>4. Batched(s)'
    BY <2>2 DEF Batched
  <2> QED BY <1>0, <1>1, <2>2, <2>3, <2>4 DEF SoundSession
<1> QED BY <1>3, <1>4, <1>5, <1>6, <1>7

\* A session that is about to set the status of open overrides.
LEMMA SoundSetting ==
  ASSUME TypeOK, NEW s \in Sessions, NEW i \in Ids, NEW goal, NEW by, NEW rest \in SUBSET Ids,
         ses'[s] = SetStatus(i, goal, by, rest), i \notin rest,
         goal = "Pending" => rest = {} /\ by = None,
         \A j \in rest \cup {i} : j \notin contested' => row'[j].status \in {"Draft", "Pending"}
  PROVE  SoundSession(s)'
<1>1. /\ ses'[s].pc = "setting" /\ ses'[s].target = i /\ ses'[s].goal = goal
      /\ ses'[s].by = by /\ ses'[s].batch = rest
  BY DEF SetStatus, Idle
<1>2. i \notin contested' => StillOpen(s)'
  BY <1>1 DEF StillOpen, IsOpen
<1>3. BatchOpen(s)'
  BY <1>1 DEF BatchOpen, IsOpen
<1>4. Batched(s)'
  BY <1>1 DEF Batched
<1> QED BY <1>1, <1>2, <1>3, <1>4 DEF SoundSession

\* The reads of the SMS handlers.
LEMMA SoundSmsLooks ==
  ASSUME TypeOK, AnyInv, SoundInv, NEW s \in Sessions,
         \/ InitiatorReply(s) \/ CounterpartyReply(s) \/ ActivateReload(s)
         \/ StopWithdraw(s) \/ SetStatusLoad(s)
  PROVE  Looks /\ SoundSession(s)'
<1>0. /\ ses \in [Sessions -> SessionState] /\ ses[s] \in SessionState /\ SoundSession(s)
      /\ SoundStore
  BY DEF TypeOK, SoundInv
<1>1. Looks
  BY DEF Looks, InitiatorReply, CounterpartyReply, ActivateReload, StopWithdraw, SetStatusLoad
<1>2. \A j \in Ids : row'[j] = row[j] /\ contested' = contested
  BY <1>1 DEF Looks
<1>3. CASE InitiatorReply(s)
  <2>1. PICK i \in Ids, goal \in {"Expired", "Rejected", "Pending"} :
          row[i].status = "Draft" /\ ses'[s] = SetStatus(i, goal, None, {})
    BY <1>0, <1>3 DEF InitiatorReply, Begin
  <2> QED BY <1>1, <1>2, <2>1, SoundSetting
<1>4. CASE CounterpartyReply(s)
  <2>1. PICK i \in Ids, who \in Parents :
          /\ row[i].status = "Pending"
          /\ \/ ses' = [ses EXCEPT ![s] = SetStatus(i, "Expired", None, {})]
             \/ ses' = [ses EXCEPT ![s] = SetStatus(i, "Rejected", who, {})]
             \/ ses' = [ses EXCEPT ![s] =
                  [Idle EXCEPT !.pc = "reloading", !.target = i, !.by = who]]
    BY <1>4 DEF CounterpartyReply, Verdict, Begin
  <2>2. CASE ses'[s] = [Idle EXCEPT !.pc = "reloading", !.target = i, !.by = who]
    <3>1. ses'[s].pc = "reloading" /\ ses'[s].target = i /\ ses'[s].batch = {}
      BY <2>2 DEF Idle
    <3> QED BY <1>1, <1>2, <2>1, <3>1 DEF SoundSession, StillOpen, BatchOpen, Batched
  <2>3. CASE \E goal \in {"Expired", "Rejected"} : \E by : ses'[s] = SetStatus(i, goal, by, {})
    BY <1>1, <1>2, <2>1, <2>3, SoundSetting
  <2> QED BY <1>0, <2>1, <2>2, <2>3
<1>5. CASE ActivateReload(s)
  <2>1. /\ ses'[s] = [ses[s] EXCEPT !.pc = "activating", !.seen = row[ses[s].target]]
        /\ ses[s].pc = "reloading"
    BY <1>0, <1>5 DEF ActivateReload
  <2>2. /\ ses'[s].pc = "activating" /\ ses'[s].target = ses[s].target
        /\ ses'[s].seen = row[ses[s].target] /\ ses'[s].batch = ses[s].batch
    BY <1>0, <2>1 DEF SessionState
  <2>3. ASSUME ses[s].target \in Ids \ contested PROVE StillOpen(s)'
    <3>1. row[ses[s].target].status = "Pending" /\ Blank(row[ses[s].target])
      BY <1>0, <2>1, <2>3 DEF SoundSession, StillOpen, SoundStore, Sound, Blank
    <3> QED BY <1>2, <2>2, <2>3, <3>1 DEF StillOpen, Blank
  <2>4. BatchOpen(s)' /\ Batched(s)'
    BY <2>2 DEF BatchOpen, Batched
  <2> QED BY <1>1, <1>2, <2>2, <2>3, <2>4 DEF SoundSession, Looks
<1>6. CASE StopWithdraw(s)
  <2>1. PICK who \in Parents, at \in 0..now : \E i \in OpenRequests(who, at) :
          ses' = [ses EXCEPT ![s] = SetStatus(i, "Rejected", who, OpenRequests(who, at) \ {i})]
    BY <1>6 DEF StopWithdraw, Begin
  <2> DEFINE open == OpenRequests(who, at)
  <2>2. open \subseteq Ids /\ \A j \in open : row[j].status \in {"Draft", "Pending"}
    BY DEF OpenRequests
  <2>3. PICK i \in open : ses'[s] = SetStatus(i, "Rejected", who, open \ {i})
    BY <1>0, <2>1
  <2> HIDE DEF open
  <2> QED BY <1>1, <1>2, <2>2, <2>3, SoundSetting
<1>7. CASE SetStatusLoad(s)
  <2>1. /\ ses'[s] = [ses[s] EXCEPT !.pc = "saving", !.seen = row[ses[s].target]]
        /\ ses[s].pc = "setting"
    BY <1>0, <1>7 DEF SetStatusLoad
  <2>2. /\ ses'[s].pc = "saving" /\ ses'[s].target = ses[s].target /\ ses'[s].by = ses[s].by
        /\ ses'[s].seen = row[ses[s].target] /\ ses'[s].batch = ses[s].batch
        /\ ses'[s].goal = ses[s].goal
    BY <1>0, <2>1 DEF SessionState
  <2>3. ASSUME ses[s].target \in Ids \ contested PROVE StillOpen(s)'
    <3>1. IsOpen(ses[s].target) /\ Blank(row[ses[s].target])
      BY <1>0, <2>1, <2>3 DEF SoundSession, StillOpen, SoundStore, Sound, Blank, IsOpen
    <3> QED BY <1>2, <2>2, <2>3, <3>1 DEF StillOpen, Blank, IsOpen
  <2>4. BatchOpen(s)'
    <3>1. ses[s].batch \subseteq Ids /\ BatchOpen(s)
      BY <1>0 DEF SessionState, SoundSession
    <3> QED BY <1>2, <2>1, <2>2, <3>1 DEF BatchOpen, IsOpen
  <2>5. Batched(s)'
    BY <1>0, <2>1, <2>2 DEF SoundSession, Batched
  <2> QED BY <1>1, <1>2, <2>2, <2>3, <2>4, <2>5 DEF SoundSession, Looks
<1> QED BY <1>3, <1>4, <1>5, <1>6, <1>7

\* Commits that close overrides: those of `ids` lose their days and end inactive
\* if nobody contests them, and of `decided` it is remembered who else was at them.
LEMMA ClosingSound ==
  ASSUME TypeOK, SoundStore, NEW s \in Sessions, UNCHANGED request,
         NEW ids \in SUBSET Ids, NEW decided \in SUBSET ids, Decide(s, decided),
         \A j \in Ids \ ids : row'[j] = row[j],
         \A j \in ids : row[j].status # "Absent" /\ row'[j].status # "Absent",
         \A j \in ids \ contested :
           /\ IsOpen(j) /\ ~row'[j].active
           /\ \/ row'[j].status \in {"Rejected", "Expired"}
              \/ row'[j].status \in {"Draft", "Pending"} /\ row'[j].decidedBy = None,
         \A j \in ids \ decided : j \notin contested =>
           \/ row'[j].status = row[j].status
           \/ row[j].status = "Draft" /\ row'[j].status = "Pending",
         \A d \in Days : claim'[d] = claim[d] \/ (claim[d] \in ids /\ claim'[d] = None)
  PROVE  SoundStore' /\ Gentle(Sessions \ {s})
<1>0. None \notin Ids
  BY OverridesAssumption
<1>1. /\ contested \subseteq contested' /\ contested' \subseteq contested \cup decided
      /\ \A t \in Sessions \ {s} : \A j \in AtWork(t) : j \in decided => j \in contested'
  BY DEF Decide
<1>2. ASSUME NEW j \in Ids, j \in contested' PROVE row'[j].status # "Absent"
  <2>1. CASE j \in ids
    BY <2>1
  <2>2. CASE j \notin ids
    BY <1>1, <1>2, <2>2 DEF SoundStore
  <2> QED BY <2>1, <2>2
<1>3. ASSUME NEW j \in Ids, j \notin contested' PROVE Sound(j)'
  <2>1. Sound(j) /\ j \notin contested /\ SpanDays(j)' = SpanDays(j)
    BY <1>1, <1>3 DEF SoundStore, SpanDays
  <2>2. CASE j \in ids
    <3>1. ~row[j].active /\ IsOpen(j)
      BY <2>1, <2>2 DEF Sound, IsOpen
    <3>2. \A d \in Days : claim'[d] # j
      BY <1>0, <2>1, <3>1 DEF Sound
    <3> QED BY <2>1, <2>2, <3>2 DEF Sound
  <2>3. CASE j \notin ids
    <3>1. \A d \in Days : claim'[d] = j <=> claim[d] = j
      BY <1>0, <2>3
    <3> QED BY <2>1, <2>3, <3>1 DEF Sound
  <2> QED BY <2>2, <2>3
<1>4. Gentle(Sessions \ {s})
  <2>1. \A j \in Ids : row[j].status # "Absent" => row'[j].status # "Absent"
    OBVIOUS
  <2>2. ASSUME NEW t \in Sessions \ {s}, NEW j \in AtWork(t) \ contested', j \in Ids
        PROVE  \/ row'[j].status = row[j].status
               \/ row[j].status = "Draft" /\ row'[j].status = "Pending"
    <3>1. j \notin decided /\ j \notin contested
      BY <1>1, <2>2
    <3> QED BY <2>2, <3>1
  <2> QED BY <1>1, <2>1, <2>2 DEF Gentle
<1> QED BY <1>2, <1>3, <1>4 DEF SoundStore

LEMMA SoundWebCloses ==
  ASSUME TypeOK, AnyInv, SoundInv, NEW s \in Sessions,
         DecideExpired(s) \/ DecideRejected(s) \/ SweepCommit(s)
  PROVE  SoundStore' /\ Gentle(Sessions \ {s}) /\ SoundSession(s)'
<1>0. /\ ses[s] \in SessionState /\ row \in [Ids -> Columns] /\ SoundStore
      /\ (ses[s].pc \notin {"idle", "sweeping"} => ses[s].target \in Ids)
      /\ AnySession(s) /\ SoundSession(s) /\ None \notin Parents
  BY OverridesAssumption DEF TypeOK, AnyInv, SoundInv
<1>1. SoundSession(s)'
  BY SoundIdle DEF DecideExpired, DecideRejected, SweepCommit
<1>2. CASE DecideExpired(s) \/ DecideRejected(s)
  <2> DEFINE i == ses[s].target
  <2>1. /\ i \in Ids /\ UNCHANGED <<request, claim>> /\ Decide(s, {i}) /\ row[i].status # "Absent"
        /\ \/ row' = [row EXCEPT ![i].status = "Expired"]
           \/ row' = [row EXCEPT ![i] = [@ EXCEPT !.status = "Rejected", !.decidedBy = ses[s].by]]
    BY <1>0, <1>2 DEF DecideExpired, DecideRejected, AnySession
  <2>2. i \notin contested => IsOpen(i) /\ ~row[i].active
    <3>1. i \notin contested => row[i].status = "Pending"
      BY <1>0, <1>2, <2>1 DEF SoundSession, StillOpen, DecideExpired, DecideRejected
    <3> QED BY <1>0, <2>1, <3>1 DEF SoundStore, Sound, IsOpen
  <2> HIDE DEF i
  <2>3. /\ row'[i].status \in {"Rejected", "Expired"} /\ row'[i].active = row[i].active
        /\ \A j \in Ids \ {i} : row'[j] = row[j]
    BY <1>0, <2>1 DEF Columns
  <2> QED BY <1>0, <1>1, <2>1, <2>2, <2>3, ClosingSound
<1>3. CASE SweepCommit(s)
  <2> DEFINE gone == ses[s].batch
  <2>1. /\ gone \in SUBSET Ids /\ UNCHANGED <<request, claim>> /\ Decide(s, gone)
        /\ row' = [j \in Ids |-> IF j \in gone THEN [row[j] EXCEPT !.status = "Expired"] ELSE row[j]]
        /\ \A j \in gone : row[j].status # "Absent"
    BY <1>0, <1>3 DEF SweepCommit, SessionState, AnySession
  <2>2. \A j \in gone : j \notin contested => row[j].status = "Pending"
    BY <1>0, <1>3 DEF SweepCommit, SoundSession, BatchOpen
  <2> HIDE DEF gone
  <2>3. \A j \in gone : j \notin contested => IsOpen(j) /\ ~row[j].active
    BY <1>0, <2>1, <2>2 DEF SoundStore, Sound, IsOpen
  <2>4. /\ \A j \in gone : row'[j].status = "Expired" /\ row'[j].active = row[j].active
        /\ \A j \in Ids \ gone : row'[j] = row[j]
    BY <1>0, <2>1 DEF Columns
  <2> QED BY <1>0, <1>1, <2>1, <2>3, <2>4, ClosingSound
<1> QED BY <1>2, <1>3

LEMMA SoundSmsCloses ==
  ASSUME TypeOK, AnyInv, SoundInv, NEW s \in Sessions, SetStatusCommit(s)
  PROVE  SoundStore' /\ Gentle(Sessions \ {s}) /\ SoundSession(s)'
<1> DEFINE i == ses[s].target
           rest == ses[s].batch
           goal == ses[s].goal
           by == ses[s].by
           seen == ses[s].seen
           decided == IF goal = "Pending" THEN {} ELSE {i}
<1>0. /\ ses \in [Sessions -> SessionState] /\ row \in [Ids -> Columns] /\ SoundStore
      /\ claim \in [Days -> Ids \cup {None}]
      /\ AnySession(s) /\ SoundSession(s) /\ None \notin Ids
  BY OverridesAssumption DEF TypeOK, AnyInv, SoundInv
<1>1. /\ ses[s].pc = "saving" /\ UNCHANGED request /\ claim' = Released({i})
      /\ Decide(s, decided)
      /\ row' = [row EXCEPT ![i] =
           [status    |-> Flush(row[i].status, seen.status, goal),
            active    |-> Flush(row[i].active, seen.active, FALSE),
            decidedBy |-> IF by = None THEN row[i].decidedBy
                          ELSE Flush(row[i].decidedBy, seen.decidedBy, by)]]
      /\ \/ Finish(s)
         \/ \E j \in rest : ses' = [ses EXCEPT ![s] = SetStatus(j, goal, by, rest \ {j})]
  BY DEF SetStatusCommit
<1>2. /\ i \in Ids /\ rest \in SUBSET Ids /\ row[i].status # "Absent"
      /\ goal \in {"Expired", "Rejected", "Pending"}
  BY <1>0, <1>1 DEF TypeOK, AnySession, SessionState
<1>3. i \notin contested =>
        /\ IsOpen(i) /\ seen.status \in {"Draft", "Pending"} /\ Blank(seen)
        /\ ~row[i].active /\ row[i].decidedBy = None
  <2>1. i \notin contested =>
          IsOpen(i) /\ seen.status \in {"Draft", "Pending"} /\ Blank(seen)
    BY <1>1, <1>2, <1>0 DEF SoundSession, StillOpen
  <2> QED BY <1>0, <1>2, <2>1 DEF SoundStore, Sound, IsOpen
<1>4. /\ i \notin rest
      /\ goal = "Pending" => rest = {} /\ by = None
      /\ \A j \in rest : j \notin contested => IsOpen(j)
  BY <1>0, <1>1 DEF SoundSession, Batched, BatchOpen
<1> HIDE DEF i, rest, goal, by, seen
<1>5. /\ row'[i].status = Flush(row[i].status, seen.status, goal)
      /\ row'[i].active = Flush(row[i].active, seen.active, FALSE)
      /\ row'[i].decidedBy = IF by = None THEN row[i].decidedBy
                             ELSE Flush(row[i].decidedBy, seen.decidedBy, by)
      /\ \A j \in Ids \ {i} : row'[j] = row[j]
  BY <1>0, <1>1, <1>2
<1>6. row'[i].status # "Absent"
  BY <1>2, <1>5 DEF Flush
<1>7. i \notin contested =>
        /\ ~row'[i].active
        /\ goal = "Pending" => /\ row'[i].status \in {row[i].status, "Pending"}
                               /\ row'[i].decidedBy = None
        /\ goal # "Pending" => row'[i].status = goal
  BY <1>2, <1>3, <1>4, <1>5 DEF Flush, Blank
<1>8. \A d \in Days : claim'[d] = claim[d] \/ (claim[d] \in {i} /\ claim'[d] = None)
  BY <1>1 DEF Released
<1>9. SoundStore' /\ Gentle(Sessions \ {s})
  <2>1. decided \in SUBSET {i}
    OBVIOUS
  <2>2. i \notin contested =>
          /\ IsOpen(i) /\ ~row'[i].active
          /\ \/ row'[i].status \in {"Rejected", "Expired"}
             \/ row'[i].status \in {"Draft", "Pending"} /\ row'[i].decidedBy = None
    BY <1>2, <1>3, <1>7 DEF IsOpen
  <2>3. i \notin decided => (i \notin contested =>
          \/ row'[i].status = row[i].status
          \/ row[i].status = "Draft" /\ row'[i].status = "Pending")
    BY <1>3, <1>7 DEF IsOpen
  <2>4. {i} \in SUBSET Ids
    BY <1>2
  <2>5. Decide(s, decided) /\ UNCHANGED request
    BY <1>1
  <2> HIDE DEF decided
  <2> QED BY <1>0, <2>4, <2>5, <1>2, <1>5, <1>6, <1>8, <2>1, <2>2, <2>3, ClosingSound
<1>10. SoundSession(s)'
  <2>1. CASE Finish(s)
    BY <2>1, SoundIdle
  <2>2. ASSUME NEW j \in rest, ses' = [ses EXCEPT ![s] = SetStatus(j, goal, by, rest \ {j})]
        PROVE  SoundSession(s)'
    <3>1. ses'[s] = SetStatus(j, goal, by, rest \ {j})
      BY <1>0, <2>2
    <3>2. \A k \in rest : k \notin contested' => row'[k].status \in {"Draft", "Pending"}
      BY <1>2, <1>4, <1>5, <1>9 DEF IsOpen, Gentle
    <3>3. goal # "Pending"
      BY <1>4, <2>2
    <3> QED BY <1>2, <1>4, <3>1, <3>2, <3>3, SoundSetting
  <2> QED BY <1>1, <2>1, <2>2
<1> QED BY <1>9, <1>10

\* An approval whatever was read how long ago: the commit's conflict check keeps
\* it off the days of everything that is not superseded.
LEMMA SoundActivates ==
  ASSUME TypeOK, AnyInv, SoundInv, NEW s \in Sessions, ActivateCommit(s)
  PROVE  SoundStore' /\ Gentle(Sessions \ {s}) /\ SoundSession(s)'
<1> DEFINE i == ses[s].target
           gone == ses[s].batch
           by == ses[s].by
           seen == ses[s].seen
<1>0. /\ ses[s] \in SessionState /\ row \in [Ids -> Columns] /\ SoundStore
      /\ AnySession(s) /\ SoundSession(s) /\ None \notin Ids /\ None \notin Parents
  BY OverridesAssumption DEF TypeOK, AnyInv, SoundInv
<1>1. /\ ses[s].pc = "claiming" /\ UNCHANGED request /\ claim' = Claimed(i, gone)
      /\ ~Conflict(i, gone) /\ Decide(s, {i}) /\ Finish(s)
      /\ row' = [j \in Ids |->
           IF j = i THEN Approve(row[i], seen, by)
           ELSE IF j \in gone THEN [row[j] EXCEPT !.active = FALSE] ELSE row[j]]
  BY DEF ActivateCommit
<1>2. /\ i \in Ids /\ gone \subseteq Ids /\ i \notin gone
      /\ by \in Parents \ {request[i].requester}
      /\ \A j \in gone \cup {i} : row[j].status # "Absent"
  BY <1>0, <1>1 DEF TypeOK, SessionState, AnySession, SoundSession, Batched
<1>3. i \notin contested =>
        /\ row[i].status = "Pending" /\ ~row[i].active /\ row[i].decidedBy = None
        /\ seen.status = "Pending" /\ Blank(seen)
  BY <1>0, <1>1, <1>2 DEF SoundSession, StillOpen, SoundStore, Sound
<1>4. SoundSession(s)'
  BY <1>1, SoundIdle
<1> HIDE DEF i, gone, by, seen
<1>5. /\ row'[i] = Approve(row[i], seen, by)
      /\ \A j \in gone : row'[j] = [row[j] EXCEPT !.active = FALSE]
      /\ \A j \in Ids \ (gone \cup {i}) : row'[j] = row[j]
  BY <1>1, <1>2
<1>6. /\ \A j \in gone : ~row'[j].active /\ row'[j].status = row[j].status
                         /\ row'[j].decidedBy = row[j].decidedBy
      /\ row'[i].status \in {row[i].status, "Approved"}
  <2>1. ASSUME NEW j \in gone
        PROVE  /\ ~row'[j].active /\ row'[j].status = row[j].status
               /\ row'[j].decidedBy = row[j].decidedBy
    <3>1. row[j] \in Columns /\ row'[j] = [row[j] EXCEPT !.active = FALSE]
      BY <1>0, <1>2, <1>5, <2>1
    <3> QED BY <3>1 DEF Columns
  <2>2. row'[i].status \in {row[i].status, "Approved"}
    BY <1>5 DEF Approve, Flush
  <2> QED BY <2>1, <2>2
<1>7. \A d \in Days : claim'[d] = IF d \in SpanDays(i) THEN i
                                  ELSE IF claim[d] \in gone THEN None ELSE claim[d]
  BY <1>1 DEF Claimed, Released
<1>8. \A d \in SpanDays(i) : claim[d] = None \/ claim[d] \in gone
  BY <1>1 DEF Conflict, Released, SpanDays
<1>9. /\ contested \subseteq contested' /\ contested' \subseteq contested \cup {i}
      /\ \A t \in Sessions \ {s} : i \in AtWork(t) => i \in contested'
  BY <1>1 DEF Decide
<1>10. \A j \in Ids : row[j].status # "Absent" => row'[j].status # "Absent"
  BY <1>2, <1>5, <1>6
<1>11. ASSUME NEW j \in Ids, j \notin contested' PROVE Sound(j)'
  <2>1. Sound(j) /\ j \notin contested /\ SpanDays(j)' = SpanDays(j)
    BY <1>0, <1>1, <1>9, <1>11 DEF SoundStore, SpanDays
  <2>2. CASE j = i
    <3>1. /\ row'[i].status = "Approved" /\ row'[i].active /\ row'[i].decidedBy = by
      BY <1>0, <1>2, <1>3, <1>5, <2>1, <2>2 DEF Approve, Flush, Blank
    <3>2. \A d \in Days : claim[d] # i
      BY <1>3, <2>1, <2>2 DEF Sound
    <3>3. \A d \in Days : claim'[d] = i <=> d \in SpanDays(i)
      BY <1>0, <1>2, <1>7, <3>2
    <3> QED BY <1>1, <1>2, <2>1, <2>2, <3>1, <3>3 DEF Sound
  <2>3. CASE j \in gone
    <3>1. \A d \in Days : claim'[d] # j
      BY <1>0, <1>2, <1>7, <2>3
    <3> QED BY <1>1, <1>6, <2>1, <2>3, <3>1 DEF Sound
  <2>4. CASE j \notin gone /\ j # i
    <3>1. \A d \in Days : claim'[d] = j <=> claim[d] = j
      BY <1>0, <1>7, <1>8, <2>4
    <3>2. row'[j] = row[j]
      BY <1>5, <2>4
    <3> QED BY <1>1, <2>1, <3>1, <3>2 DEF Sound
  <2> QED BY <2>2, <2>3, <2>4
<1>12. ASSUME NEW j \in Ids, j \in contested' PROVE row'[j].status # "Absent"
  BY <1>0, <1>2, <1>9, <1>10, <1>12 DEF SoundStore
<1>13. Gentle(Sessions \ {s})
  <2>1. ASSUME NEW t \in Sessions \ {s}, NEW j \in AtWork(t) \ contested', j \in Ids
        PROVE  row'[j].status = row[j].status
    BY <1>5, <1>6, <1>9, <2>1
  <2> QED BY <1>1, <1>9, <1>10, <2>1 DEF Gentle
<1> QED BY <1>4, <1>11, <1>12, <1>13 DEF SoundStore

LEMMA SoundInserts ==
  ASSUME TypeOK, SoundStore, Inserted
  PROVE  SoundStore' /\ \A T \in SUBSET Sessions : Gentle(T)
<1>0. None \notin Ids
  BY OverridesAssumption
<1>1. PICK i \in Ids, status \in {"Draft", "Pending"}, r \in Request : Insert(i, status, r)
  BY DEF Inserted
<1>2. /\ row[i].status = "Absent" /\ row'[i].status = status /\ row'[i].active = row[i].active
      /\ row'[i].decidedBy = row[i].decidedBy /\ claim' = claim /\ contested' = contested
      /\ \A j \in Ids \ {i} : row'[j] = row[j] /\ request'[j] = request[j]
  BY <1>1 DEF Insert, TypeOK, Columns
<1>3. i \notin contested
  BY <1>2 DEF SoundStore
<1>4. Sound(i)'
  <2>1. ~row[i].active /\ row[i].decidedBy = None /\ \A d \in Days : claim[d] # i
    BY <1>2, <1>3 DEF SoundStore, Sound
  <2> QED BY <1>2, <2>1 DEF Sound
<1>5. ASSUME NEW j \in Ids \ {i} PROVE IF j \in contested' THEN row'[j].status # "Absent" ELSE Sound(j)'
  <2>1. SpanDays(j)' = SpanDays(j)
    BY <1>2 DEF SpanDays
  <2> QED BY <1>2, <2>1 DEF SoundStore, Sound
<1>6. SoundStore'
  BY <1>2, <1>3, <1>4, <1>5 DEF SoundStore
<1>7. \A T \in SUBSET Sessions : Gentle(T)
  BY <1>2 DEF Gentle
<1> QED BY <1>6, <1>7

\* The boot writes nothing on a day of an uncontested override: those that are in
\* force have all their days, and it gives days to overrides in force only.
LEMMA SoundRestart ==
  ASSUME TypeOK, SoundInv, Restart
  PROVE  SoundInv'
<1>0. SoundStore /\ None \notin Ids
  BY OverridesAssumption DEF SoundInv
<1>1. UNCHANGED <<request, row, contested>> /\ ses' = [t \in Sessions |-> Idle]
  BY DEF Restart
<1>2. ASSUME NEW j \in Ids, j \notin contested, NEW d \in Days
      PROVE  claim'[d] = j <=> claim[d] = j
  <2>1. Sound(j)
    BY <1>0, <1>2 DEF SoundStore
  <2>2. CASE claim'[d] # claim[d]
    <3>1. claim[d] = None /\ claim'[d] \in ActiveOn(d)
      BY <2>2 DEF Restart, Backfill
    <3> QED BY <1>0, <1>2, <2>1, <3>1 DEF Sound, ActiveOn
  <2> QED BY <2>2
<1>3. SoundStore'
  BY <1>0, <1>1, <1>2 DEF SoundStore, Sound, SpanDays
<1>4. \A t \in Sessions : SoundSession(t)'
  BY <1>0, <1>1 DEF SoundSession, StillOpen, BatchOpen, Batched, Idle
<1> QED BY <1>3, <1>4 DEF SoundInv

LEMMA SoundStep ==
  ASSUME TypeOK, AnyInv, SoundInv, [Next]_vars
  PROVE  SoundInv'
<1>0. SoundStore /\ \A t \in Sessions : SoundSession(t) /\ AnySession(t)
  BY DEF SoundInv, AnyInv
<1>1. ASSUME NEW s \in Sessions, WebSession(s) \/ SmsSession(s)
      PROVE  SoundInv'
  <2>1. SoundStore' /\ Gentle(Sessions \ {s}) /\ SoundSession(s)'
    <3>1. CASE ActivateCommit(s)
      BY <3>1, SoundActivates
    <3>2. CASE DecideExpired(s) \/ DecideRejected(s) \/ SweepCommit(s)
      BY <3>2, SoundWebCloses
    <3>3. CASE SetStatusCommit(s)
      BY <3>3, SoundSmsCloses
    <3>4. CASE \/ DecideRead(s) \/ DecideRefused(s) \/ DecideJudged(s) \/ ReadActives(s)
               \/ ActivateConflict(s) \/ SweepRead(s)
      BY <1>0, <3>4, SoundWebLooks, LooksSound
    <3>5. CASE \/ InitiatorReply(s) \/ CounterpartyReply(s) \/ ActivateReload(s)
               \/ StopWithdraw(s) \/ SetStatusLoad(s)
      BY <1>0, <3>5, SoundSmsLooks, LooksSound
    <3> QED BY <1>1, <3>1, <3>2, <3>3, <3>4, <3>5 DEF WebSession, SmsSession
  <2>2. \A t \in Sessions \ {s} : SoundSession(t)'
    BY <1>0, <1>1, <2>1, OwnState, SoundFrame
  <2> QED BY <2>1, <2>2 DEF SoundInv
<1>2. ASSUME UNCHANGED ses, SoundStore', \A T \in SUBSET Sessions : Gentle(T)
      PROVE  SoundInv'
  <2>1. \A t \in Sessions : SoundSession(t)'
    BY <1>0, <1>2, SoundFrame
  <2> QED BY <1>2, <2>1 DEF SoundInv
<1>3. CASE CreateOverride \/ CreateDraft
  <2>1. Inserted /\ UNCHANGED ses
    BY <1>3, CreateInserts DEF CreateOverride, CreateDraft, Insert
  <2> QED BY <1>0, <1>2, <2>1, SoundInserts
<1>4. CASE Restart
  BY <1>4, SoundRestart
<1>5. CASE Tick \/ UNCHANGED vars
  <2>1. Looks /\ UNCHANGED ses
    BY <1>5 DEF Looks, Tick, vars
  <2> QED BY <1>0, <1>2, <2>1, LooksSound
<1> QED BY <1>1, <1>3, <1>4, <1>5 DEF Next, WebNext

\* The strengthening behind the next four theorems.
LEMMA SoundInvariant == Spec => [](TypeOK /\ AnyInv /\ SoundInv)
<1>1. Init => TypeOK /\ AnyInv /\ SoundInv
  BY InitTyped, InitAnyInv, InitSound
<1>2. TypeOK /\ AnyInv /\ SoundInv /\ [Next]_vars => (TypeOK /\ AnyInv /\ SoundInv)'
  BY TypeStep, AnyStep, SoundStep
<1> QED BY <1>1, <1>2, PTL DEF Spec

\* However many web requests, texts, withdrawals, sweeps and boots interleave: an
\* override that was not itself decided twice at once owns exactly its days while
\* it is in force (database/schema.py:98), shares no day with another one in force,
\* is in force only as approved, by the parent who did not ask (core/approvals.py),
\* and holds nothing while it is open.
UncontestedAreSound ==
  \A i \in Ids \ contested :
    /\ Sound(i)
    /\ \A j \in Ids \ contested : row[i].active /\ row[j].active /\ i # j =>
         SpanDays(i) \cap SpanDays(j) = {}

THEOREM UncontestedOverridesAreSound == Spec => []UncontestedAreSound
<1>1. SoundInv => UncontestedAreSound
  <2> SUFFICES ASSUME SoundInv, NEW i \in Ids \ contested PROVE
        /\ Sound(i)
        /\ \A j \in Ids \ contested : row[i].active /\ row[j].active /\ i # j =>
             SpanDays(i) \cap SpanDays(j) = {}
    BY DEF UncontestedAreSound
  <2>1. \A j \in Ids \ contested : Sound(j)
    BY DEF SoundInv, SoundStore
  <2> QED BY <2>1 DEF Sound, SpanDays
<1> QED BY <1>1, SoundInvariant, PTL

\* The day rows and the calendar the engine shows name the same override on every
\* day that no request decided twice at once spans, however requests interleave.
THEOREM CalendarAlwaysShowsClaim == Spec => []CalendarShowsClaim
<1>1. ASSUME TypeOK, AnyInv, SoundInv PROVE CalendarShowsClaim
  <2> SUFFICES ASSUME NEW d \in Days, \A i \in contested : d \notin SpanDays(i)
               PROVE  IF Shown(d) = {} THEN claim[d] = None
                      ELSE claim[d] \in Shown(d) /\ \A i \in Shown(d) : i <= claim[d]
    BY DEF CalendarShowsClaim
  <2>1. \A i \in Ids : d \in SpanDays(i) => Sound(i)
    BY <1>1 DEF SoundInv, SoundStore
  <2>2. \A i \in Shown(d) : i \in Ids /\ claim[d] = i
    BY <2>1 DEF Shown, Sound
  <2>3. CASE Shown(d) = {}
    <3>1. ASSUME claim[d] # None PROVE claim[d] \in Shown(d)
      <4>1. claim[d] \in Ids /\ d \in SpanDays(claim[d])
        BY <1>1, <3>1 DEF TypeOK, AnyInv, AnyStore, OrderlyClaims
      <4>2. row[claim[d]].active /\ row[claim[d]].status = "Approved"
        BY <2>1, <4>1 DEF Sound
      <4> QED BY <4>1, <4>2 DEF Shown
    <3> QED BY <2>3, <3>1
  <2>4. CASE Shown(d) # {}
    <3>1. PICK i \in Shown(d) : TRUE
      BY <2>4
    <3>2. claim[d] = i /\ claim[d] \in Int /\ \A j \in Shown(d) : j = claim[d]
      BY <2>2, <3>1 DEF Ids
    <3> QED BY <2>4, <3>1, <3>2
  <2> QED BY <2>3, <2>4
<1> QED BY <1>1, SoundInvariant, PTL

\* What a step does to an override that is decided, or in force, and uncontested.
LEMMA DecidedStep ==
  ASSUME TypeOK, AnyInv, SoundInv, [Next]_vars, NEW i \in Ids \ contested, Decided(i)
  PROVE  /\ row'[i].status = row[i].status
         /\ row[i].active /\ ~row'[i].active =>
              \E s \in Sessions : ActivateCommit(s) /\ RangesOverlap(i, ses[s].target)
<1>0. /\ row \in [Ids -> Columns] /\ row[i].status \notin {"Absent", "Draft", "Pending"}
      /\ \A s \in Sessions : SoundSession(s) /\ ses[s].batch \subseteq Ids
                             /\ (ses[s].pc \notin {"idle", "sweeping"} => ses[s].target \in Ids)
  BY DEF TypeOK, SessionState, Decided, SoundInv
<1>1. ASSUME NEW s \in Sessions, ActivateCommit(s)
      PROVE  /\ row'[i].status = row[i].status
             /\ ~row'[i].active => \/ ~row[i].active
                                   \/ RangesOverlap(i, ses[s].target)
  <2>1. /\ ses[s].pc = "claiming" /\ ses[s].target \in Ids
        /\ row' = [j \in Ids |->
             IF j = ses[s].target THEN Approve(row[j], ses[s].seen, ses[s].by)
             ELSE IF j \in ses[s].batch THEN [row[j] EXCEPT !.active = FALSE] ELSE row[j]]
    BY <1>0, <1>1 DEF ActivateCommit
  <2>2. ses[s].target # i
    BY <1>0, <2>1 DEF SoundSession, StillOpen
  <2>3. i \in ses[s].batch => RangesOverlap(i, ses[s].target)
    BY <1>0, <2>1 DEF SoundSession, Batched, RangesOverlap
  <2>4. row[i] \in Columns /\ row'[i] = IF i \in ses[s].batch
                                          THEN [row[i] EXCEPT !.active = FALSE] ELSE row[i]
    BY <1>0, <2>1, <2>2
  <2> QED BY <2>3, <2>4 DEF Columns
<1>2. ASSUME NEW s \in Sessions, DecideExpired(s) \/ DecideRejected(s) \/ SetStatusCommit(s)
      PROVE  row'[i] = row[i]
  <2>1. /\ ses[s].pc \in {"expiring", "rejecting", "saving"}
        /\ \E c : row' = [row EXCEPT ![ses[s].target] = c]
    BY <1>2 DEF DecideExpired, DecideRejected, SetStatusCommit
  <2>2. ses[s].target # i
    BY <1>0, <2>1 DEF SoundSession, StillOpen, IsOpen
  <2> QED BY <1>0, <2>1, <2>2
<1>3. ASSUME NEW s \in Sessions, SweepCommit(s) PROVE row'[i] = row[i]
  <2>1. i \notin ses[s].batch
    BY <1>0, <1>3 DEF SweepCommit, SoundSession, BatchOpen
  <2> QED BY <1>3, <2>1 DEF SweepCommit
<1>4. CASE CreateOverride \/ CreateDraft
  <2>1. PICK k \in Ids, status \in Statuses :
          row[k].status = "Absent" /\ row' = [row EXCEPT ![k].status = status]
    BY <1>4, CreateInserts DEF Inserted, Insert, Statuses
  <2> QED BY <1>0, <2>1
<1>5. CASE row' = row
  BY <1>5
<1> QED BY <1>1, <1>2, <1>3, <1>4, <1>5
        DEF Next, WebNext, WebSession, SmsSession, DecideRead, DecideRefused, DecideJudged,
            ReadActives, ActivateConflict, SweepRead, InitiatorReply, CounterpartyReply,
            ActivateReload, StopWithdraw, SetStatusLoad, Restart, Tick, vars

\* core/approvals.py ALREADY_DECIDED: whatever interleaves, a decision stands unless
\* a second answer to the same request was under way when the first was committed.
THEOREM DecisionsAreFinal == Spec => DecidedIsFinal
<1> DEFINE Final == \A i \in Ids \ contested : Decided(i) => row'[i].status = row[i].status
<1>1. TypeOK /\ AnyInv /\ SoundInv /\ [Next]_vars => [Final]_vars
  BY DecidedStep
<1> QED BY <1>1, SoundInvariant, PTL DEF Spec, DecidedIsFinal

\* database/activation.py: whatever interleaves, an override that was approved goes
\* out of force by the approval of an overlapping one and by nothing else.
THEOREM OverridesEndByOverlap == Spec => EndsByOverlap
<1> DEFINE Ends == \A i \in Ids \ contested : row[i].active /\ ~row'[i].active =>
                     \E s \in Sessions : ActivateCommit(s) /\ RangesOverlap(i, ses[s].target)
<1>1. ASSUME TypeOK, AnyInv, SoundInv, [Next]_vars PROVE Ends
  <2> SUFFICES ASSUME NEW i \in Ids \ contested, row[i].active, ~row'[i].active
               PROVE  \E s \in Sessions : ActivateCommit(s) /\ RangesOverlap(i, ses[s].target)
    OBVIOUS
  <2>1. Decided(i)
    BY <1>1 DEF SoundInv, SoundStore, Sound, Decided
  <2> QED BY <1>1, <2>1, DecidedStep
<1>2. TypeOK /\ AnyInv /\ SoundInv /\ [Next]_vars => [Ends]_vars
  BY <1>1
<1> QED BY <1>2, SoundInvariant, PTL DEF Spec, EndsByOverlap
=============================================================================
