---------------------------- MODULE BackupProofs ----------------------------
(***************************************************************************)
(* Theorems about the evidence archive, for any number of concurrent       *)
(* requests, parents, household dates and failures.                        *)
(***************************************************************************)
EXTENDS Backup, WellFoundedInduction, FiniteSetTheorems, TLAPS

------------------------------------------------------------------------------
(* The shapes of the variables.                                            *)

Labels    == {"idle", "today", "build", "claim", "lease", "deliver", "send", "abandon"}
Histories == UNION {[H -> Statuses] : H \in SUBSET Shas}
Docs      == {x \in [sha : Shas, date : Dates, prev : Shas \cup {None}, history : Histories] :
                x.date = x.sha.date}
Records   == [status : Statuses, doc : Docs \cup {None}, held : BOOLEAN, lease : Over..Lease]
Requests  == [pc : Labels, age : 0..MaxAge, date : 0..MaxDate, doc : Docs \cup {None},
              to : 1..(NumParents + 1), sent : BOOLEAN]

Shaped ==
  /\ day \in Dates
  /\ rec \in [Dates -> Records]
  /\ box \in [Parents -> SUBSET Docs]
  /\ writer \in Sessions \cup {None}
  /\ faults \in 0..MaxFaults
  /\ ses \in [Sessions -> Requests]

Made(d) == rec[d].status # "absent"

(* What a request holds: of the record it is working on, and of what it    *)
(* has sent so far.                                                        *)
GoodRequest(x, r, b) ==
  /\ x.pc \notin {"idle", "today"} => x.date \in Dates
  /\ x.pc \in {"lease", "deliver", "send", "abandon"} => r[x.date].status # "absent"
  /\ x.pc = "claim" => x.doc \in Docs /\ x.doc.date = x.date
  /\ x.pc = "send" => x.doc = r[x.date].doc
  /\ x.pc = "send" /\ x.sent => \A p \in Parents : p < x.to => x.doc \in b[p]
  /\ x.pc # "send" => x.to = 1 /\ x.sent

GoodRequests == \A s \in Sessions : GoodRequest(ses[s], rec, box)
DatedRecords == \A d \in Dates : Made(d) => rec[d].doc \in Docs /\ rec[d].doc.date = d
Mailed       == \A p \in Parents : \A f \in box[p] : Made(f.date) /\ f = rec[f.date].doc

(* The inductive invariant: it needs no order among the requests and no    *)
(* bound on how long one lasts.                                            *)
Integrity == Shaped /\ GoodRequests /\ DatedRecords /\ Mailed /\ SubmittedReachedAll

------------------------------------------------------------------------------
(* Lemmas about the data.                                                  *)

LEMMA DocShape ==
  ASSUME NEW x \in Docs
  PROVE  /\ IsDoc(x) /\ x.date \in Dates /\ x.sha \in Shas
         /\ x.sha.date = x.date
BY DEF Docs, IsDoc, Histories, Shas

LEMMA IdleShape == Idle \in Requests /\ \A r, b : GoodRequest(Idle, r, b)
BY BackupAssumption DEF Idle, Requests, Labels, GoodRequest

LEMMA IntegrityTypes == Integrity => TypeOK
<1> SUFFICES ASSUME Integrity PROVE TypeOK
  OBVIOUS
<1>1. ASSUME NEW d \in Dates
      PROVE  /\ rec[d].status \in Statuses /\ rec[d].held \in BOOLEAN
             /\ rec[d].lease \in Over..Lease
             /\ rec[d].status # "absent" => IsDoc(rec[d].doc)
  BY DocShape DEF Integrity, Shaped, Records, DatedRecords, Made
<1>2. ASSUME NEW p \in Parents, NEW f \in box[p] PROVE IsDoc(f)
  BY DocShape DEF Integrity, Shaped
<1>3. ASSUME NEW s \in Sessions
      PROVE  /\ ses[s].pc \in {"idle", "today", "build", "claim", "lease", "deliver",
                                "send", "abandon"}
             /\ ses[s].age \in 0..MaxAge /\ ses[s].to \in 1..(NumParents + 1)
             /\ ses[s].pc \in {"claim", "send"} => IsDoc(ses[s].doc)
  <2>1. ses[s] \in Requests /\ GoodRequest(ses[s], rec, box)
    BY DEF Integrity, Shaped, GoodRequests
  <2>2. ses[s].pc \in {"claim", "send"} => ses[s].doc \in Docs
    BY <2>1 DEF GoodRequest, Integrity, DatedRecords, Made
  <2> QED BY <2>1, <2>2, DocShape DEF Requests, Labels
<1> QED BY <1>1, <1>2, <1>3 DEF TypeOK, Integrity, Shaped

\* A set of dates that is not empty has a latest one.
LEMMA LatestExists ==
  ASSUME NEW S, S \subseteq Dates, S # {}
  PROVE  \E d \in S : \A e \in S : d >= e
<1> DEFINE T == {MaxDate - d : d \in S}
<1>1. T \subseteq Nat /\ T # {}
  <2>1. \A d \in S : MaxDate - d \in Nat
    BY BackupAssumption DEF Dates
  <2>2. PICK d \in S : TRUE
    OBVIOUS
  <2> QED BY <2>1, <2>2
<1>2. PICK x \in T : \A y \in T : ~(<<y, x>> \in OpToRel(<, Nat))
  <2> HIDE DEF T
  <2> QED BY <1>1, NatLessThanWellFounded, WFMin
<1>3. \A y \in T : ~(y < x)
  BY <1>1, <1>2 DEF OpToRel
<1>4. PICK d \in S : x = MaxDate - d
  BY <1>2
<1>5. ASSUME NEW e \in S PROVE d >= e
  <2>1. MaxDate - e \in T
    OBVIOUS
  <2>2. ~(MaxDate - e < MaxDate - d)
    BY <2>1, <1>3, <1>4
  <2> QED BY <2>2, BackupAssumption DEF Dates
<1> QED BY <1>5

LEMMA LatestIs ==
  ASSUME NEW S, S \subseteq Dates, S # {}
  PROVE  Max(S) \in S /\ \A e \in S : Max(S) >= e
BY LatestExists DEF Max

\* The archive built for a date has the shape of a file.
LEMMA LastShaShape == Integrity => LastSubmittedSha \in Shas \cup {None}
<1> SUFFICES ASSUME Integrity PROVE LastSubmittedSha \in Shas \cup {None}
  OBVIOUS
<1> DEFINE submitted == {d \in Dates : rec[d].status = "submitted"}
<1>1. CASE submitted = {}
  BY <1>1 DEF LastSubmittedSha
<1>2. CASE submitted # {}
  <2>1. Max(submitted) \in submitted
    <3>1. submitted \subseteq Dates
      OBVIOUS
    <3> HIDE DEF submitted
    <3> QED BY <3>1, <1>2, LatestIs
  <2>2. rec[Max(submitted)].doc \in Docs
    BY <2>1 DEF Integrity, DatedRecords, Made
  <2>3. rec[Max(submitted)].doc.sha \in Shas
    BY <2>2, DocShape
  <2> QED BY <1>2, <2>3 DEF LastSubmittedSha
<1> QED BY <1>1, <1>2

LEMMA HistoryShape == Integrity => History \in Histories
<1> SUFFICES ASSUME Integrity PROVE History \in Histories
  OBVIOUS
<1> DEFINE made == {d \in Dates : rec[d].status # "absent"}
           H    == {rec[d].doc.sha : d \in made}
<1>1. H \subseteq Shas
  BY DocShape DEF Integrity, DatedRecords, Made
<1>2. \A x \in H : rec[x.date].status \in Statuses
  BY <1>1 DEF Shas, Integrity, Shaped, Records
<1>3. History = [x \in H |-> rec[x.date].status]
  BY DEF History
<1> HIDE DEF H
<1>4. History \in [H -> Statuses]
  BY <1>2, <1>3
<1> QED BY <1>1, <1>4 DEF Histories

------------------------------------------------------------------------------
(* Integrity is inductive.                                                 *)

LEMMA InitIntegrity == Init => Integrity
<1> SUFFICES ASSUME Init PROVE Integrity
  OBVIOUS
<1>1. \A d \in Dates : rec[d].status = "absent"
  BY DEF Init, NoRecord
<1>2. \A p \in Parents : box[p] = {}
  BY DEF Init
<1>3. \A s \in Sessions : ses[s] = Idle
  BY DEF Init
<1>4. NoRecord \in Records
  BY BackupAssumption DEF NoRecord, Records, Statuses, Over
<1>5. Shaped
  BY <1>4, IdleShape, BackupAssumption DEF Init, Shaped, Dates
<1> QED BY <1>1, <1>2, <1>3, <1>5, IdleShape
        DEF Integrity, GoodRequests, DatedRecords, Made, Mailed, SubmittedReachedAll

\* Nothing a step does takes a record or its archive away, nor a file out of
\* a mailbox.
Kept ==
  /\ \A d \in Dates : Made(d) => Made(d)' /\ rec'[d].doc = rec[d].doc
  /\ \A p \in Parents : box[p] \subseteq box'[p]

LEMMA GoodRequestKept ==
  ASSUME Kept, NEW x \in Requests, GoodRequest(x, rec, box)
  PROVE  GoodRequest(x, rec', box')
BY DEF Kept, GoodRequest, Made

LEMMA OneRequestMoves ==
  ASSUME Integrity, Kept, NEW s \in Sessions, NEW y \in Requests,
         ses' = [ses EXCEPT ![s] = y], GoodRequest(y, rec', box')
  PROVE  ses' \in [Sessions -> Requests] /\ GoodRequests'
<1>1. ses' \in [Sessions -> Requests]
  BY DEF Integrity, Shaped
<1>2. ASSUME NEW t \in Sessions PROVE GoodRequest(ses'[t], rec', box')
  <2>1. CASE t = s
    BY <2>1 DEF Integrity, Shaped
  <2>2. CASE t # s
    <3>1. ses'[t] = ses[t] /\ ses[t] \in Requests /\ GoodRequest(ses[t], rec, box)
      BY <2>2 DEF Integrity, Shaped, GoodRequests
    <3> QED BY <3>1, GoodRequestKept
  <2> QED BY <2>1, <2>2
<1> QED BY <1>1, <1>2 DEF GoodRequests

\* A step of one request that changes no record and no mailbox.
LEMMA QuietStep ==
  ASSUME Integrity, NEW s \in Sessions, NEW y \in Requests,
         ses' = [ses EXCEPT ![s] = y], GoodRequest(y, rec, box),
         UNCHANGED <<day, rec, box, writer>>, faults' \in 0..MaxFaults
  PROVE  Integrity'
<1>1. Kept
  BY DEF Kept, Made
<1>2. ses' \in [Sessions -> Requests] /\ GoodRequests'
  BY <1>1, OneRequestMoves
<1>3. Shaped'
  BY <1>2 DEF Integrity, Shaped
<1>4. DatedRecords' /\ Mailed' /\ SubmittedReachedAll'
  BY DEF Integrity, DatedRecords, Mailed, SubmittedReachedAll, Made
<1> QED BY <1>2, <1>3, <1>4 DEF Integrity

LEMMA DoneShape ==
  ASSUME Integrity, NEW s \in Sessions, Done(s)
  PROVE  ses' = [ses EXCEPT ![s] = Idle]
BY DEF Done

LEMMA QuietActions ==
  ASSUME Integrity, NEW s \in Sessions,
         \/ Trigger(s) \/ CheckToday(s) \/ Build(s) \/ LoadBytes(s)
         \/ LockTimeout(s) \/ AbandonRead(s)
  PROVE  Integrity'
<1>0. /\ ses \in [Sessions -> Requests] /\ ses[s] \in Requests
      /\ GoodRequest(ses[s], rec, box) /\ faults \in 0..MaxFaults /\ day \in Dates
  BY DEF Integrity, Shaped, GoodRequests
<1>a. Dates \subseteq 0..MaxDate
  BY DEF Dates
<1>b. Idle \in Requests /\ GoodRequest(Idle, rec, box)
  BY IdleShape
<1>c. Unresolved # {} => Max(Unresolved) \in Dates /\ Made(Max(Unresolved))
  <2>1. Unresolved \subseteq Dates
    BY DEF Unresolved
  <2>2. Unresolved # {} => Max(Unresolved) \in Unresolved
    BY <2>1, LatestIs
  <2> QED BY <2>2 DEF Unresolved, Owed, Made
<1>1. CASE Trigger(s)
  <2>1. CASE ses' = [ses EXCEPT ![s].pc = "today"]
    <3> DEFINE y == [ses[s] EXCEPT !.pc = "today"]
    <3>1. y \in Requests
      BY <1>0 DEF Requests, Labels
    <3>2. GoodRequest(y, rec, box)
      BY <1>0, <1>1 DEF Trigger, Busy, GoodRequest, Requests
    <3>3. ses' = [ses EXCEPT ![s] = y]
      BY <2>1
    <3> HIDE DEF y
    <3> QED BY <1>0, <1>1, <3>1, <3>2, <3>3, QuietStep DEF Trigger
  <2>2. CASE /\ Unresolved # {}
             /\ ses' = [ses EXCEPT ![s].pc = "lease", ![s].date = Max(Unresolved)]
    <3> DEFINE y == [ses[s] EXCEPT !.pc = "lease", !.date = Max(Unresolved)]
    <3>1. y \in Requests
      BY <1>0, <1>a, <1>c, <2>2 DEF Requests, Labels
    <3>2. GoodRequest(y, rec, box)
      BY <1>0, <1>1, <1>c, <2>2 DEF Trigger, Busy, GoodRequest, Requests, Made
    <3>3. ses' = [ses EXCEPT ![s] = y]
      BY <2>2
    <3> HIDE DEF y
    <3> QED BY <1>0, <1>1, <3>1, <3>2, <3>3, QuietStep DEF Trigger
  <2> QED BY <1>1, <2>1, <2>2 DEF Trigger
<1>2. CASE CheckToday(s)
  <2>1. CASE ses' = [ses EXCEPT ![s].pc = "build", ![s].date = day]
    <3> DEFINE y == [ses[s] EXCEPT !.pc = "build", !.date = day]
    <3>1. y \in Requests
      BY <1>0, <1>a DEF Requests, Labels
    <3>2. GoodRequest(y, rec, box)
      BY <1>0, <1>2 DEF CheckToday, GoodRequest, Requests
    <3>3. ses' = [ses EXCEPT ![s] = y]
      BY <2>1
    <3> HIDE DEF y
    <3> QED BY <1>0, <1>2, <3>1, <3>2, <3>3, QuietStep DEF CheckToday
  <2>2. CASE Done(s)
    BY <1>0, <1>2, <1>b, <2>2, QuietStep DEF CheckToday, Done
  <2> QED BY <1>2, <2>1, <2>2 DEF CheckToday
<1>3. CASE Build(s)
  <2> DEFINE doc == [sha |-> [date |-> ses[s].date, by |-> s], date |-> ses[s].date,
                     prev |-> LastSubmittedSha, history |-> History]
             y   == [ses[s] EXCEPT !.pc = "claim", !.doc = doc]
  <2>1. doc \in Docs /\ doc.date = ses[s].date
    <3>1. ses[s].date \in Dates
      BY <1>0, <1>3 DEF Build, GoodRequest
    <3> QED BY <3>1, LastShaShape, HistoryShape DEF Docs, Shas
  <2>2. ses' = [ses EXCEPT ![s] = y]
    BY <1>3 DEF Build
  <2> HIDE DEF doc
  <2>3. y \in Requests
    BY <1>0, <2>1 DEF Requests, Labels
  <2>4. GoodRequest(y, rec, box)
    BY <1>0, <1>3, <2>1 DEF Build, GoodRequest, Requests
  <2> HIDE DEF y
  <2> QED BY <1>0, <1>3, <2>2, <2>3, <2>4, QuietStep DEF Build
<1>4. CASE LoadBytes(s)
  <2>1. CASE ses' = [ses EXCEPT ![s].pc = "send", ![s].doc = rec[ses[s].date].doc]
    <3> DEFINE y == [ses[s] EXCEPT !.pc = "send", !.doc = rec[ses[s].date].doc]
    <3>0. rec[ses[s].date].doc \in Docs
      BY <1>0, <1>4 DEF LoadBytes, GoodRequest, Integrity, DatedRecords, Made
    <3>1. y \in Requests
      BY <1>0, <3>0 DEF Requests, Labels
    <3>2. GoodRequest(y, rec, box)
      BY <1>0, <1>4 DEF LoadBytes, GoodRequest, Requests, Parents
    <3>3. ses' = [ses EXCEPT ![s] = y]
      BY <2>1
    <3> HIDE DEF y
    <3> QED BY <1>0, <1>4, <3>1, <3>2, <3>3, QuietStep DEF LoadBytes
  <2>2. CASE Done(s)
    BY <1>0, <1>4, <1>b, <2>2, QuietStep DEF LoadBytes, Done
  <2> QED BY <1>4, <2>1, <2>2 DEF LoadBytes
<1>5. CASE LockTimeout(s)
  <2>1. faults' \in 0..MaxFaults
    BY <1>0, <1>5, BackupAssumption DEF LockTimeout
  <2> QED BY <1>0, <1>5, <1>b, <2>1, QuietStep DEF LockTimeout, Done
<1>6. CASE AbandonRead(s)
  <2> DEFINE y == [ses[s] EXCEPT !.pc = "abandon", !.date = Max(Unresolved)]
  <2>0. Unresolved # {}
    BY <1>6 DEF AbandonRead
  <2>1. y \in Requests
    BY <1>0, <1>a, <1>c, <2>0 DEF Requests, Labels
  <2>2. GoodRequest(y, rec, box)
    BY <1>0, <1>6, <1>c, <2>0 DEF AbandonRead, Busy, GoodRequest, Requests, Made
  <2>3. ses' = [ses EXCEPT ![s] = y]
    BY <1>6 DEF AbandonRead
  <2> HIDE DEF y
  <2> QED BY <1>0, <1>6, <2>1, <2>2, <2>3, QuietStep DEF AbandonRead
<1> QED BY <1>1, <1>2, <1>3, <1>4, <1>5, <1>6

\* A step of one request that writes one record and sends nothing.
LEMMA RecordStep ==
  ASSUME Integrity, NEW s \in Sessions, NEW y \in Requests, NEW d \in Dates, NEW r \in Records,
         ses' = [ses EXCEPT ![s] = y],
         GoodRequest(y, rec', box'),
         rec' = [rec EXCEPT ![d] = r], r.status # "absent",
         Made(d) => r.doc = rec[d].doc,
         ~Made(d) => r.doc \in Docs /\ r.doc.date = d,
         r.status = "submitted" => \A p \in Parents : r.doc \in box[p],
         UNCHANGED <<day, box, faults>>, writer' \in Sessions \cup {None}
  PROVE  Integrity'
<1>1. rec \in [Dates -> Records] /\ rec' \in [Dates -> Records]
  BY DEF Integrity, Shaped
<1>2. rec'[d] = r /\ \A e \in Dates : e # d => rec'[e] = rec[e]
  BY <1>1
<1>3. Kept
  BY <1>2 DEF Kept, Made
<1>5. ses' \in [Sessions -> Requests] /\ GoodRequests'
  BY <1>3, OneRequestMoves
<1>6. Shaped'
  BY <1>1, <1>5 DEF Integrity, Shaped
<1>7. DatedRecords'
  BY <1>2 DEF Integrity, DatedRecords, Made
<1>8. Mailed'
  <2> SUFFICES ASSUME NEW p \in Parents, NEW f \in box[p]
               PROVE  rec'[f.date].status # "absent" /\ f = rec'[f.date].doc
    BY DEF Mailed, Made
  <2>1. f \in Docs /\ rec[f.date].status # "absent" /\ f = rec[f.date].doc
    BY DEF Integrity, Shaped, Mailed, Made
  <2>2. f.date \in Dates
    BY <2>1, DocShape
  <2> QED BY <2>1, <2>2, <1>3 DEF Kept, Made
<1>9. SubmittedReachedAll'
  BY <1>2 DEF Integrity, SubmittedReachedAll
<1> QED BY <1>5, <1>6, <1>7, <1>8, <1>9 DEF Integrity

LEMMA RecordActions ==
  ASSUME Integrity, NEW s \in Sessions,
         TryAcquireLease(s) \/ ClaimToday(s) \/ Settle(s) \/ AbandonWrite(s)
  PROVE  Integrity'
<1> DEFINE d == ses[s].date
<1>0. /\ ses \in [Sessions -> Requests] /\ ses[s] \in Requests
      /\ GoodRequest(ses[s], rec, box) /\ rec \in [Dates -> Records]
      /\ faults \in 0..MaxFaults /\ writer \in Sessions \cup {None}
  BY DEF Integrity, Shaped, GoodRequests
<1>1. d \in Dates /\ rec[d] \in Records
  BY <1>0 DEF TryAcquireLease, ClaimToday, Settle, AbandonWrite, GoodRequest
<1>2. Idle \in Requests /\ GoodRequest(Idle, rec, box)
  BY IdleShape
<1>3. ses[s].age \in 0..MaxAge /\ Lease - ses[s].age \in Over..Lease /\ Over \in Over..Lease
  BY <1>0, BackupAssumption DEF Requests, Over
<1>4. rec[d].status = "submitted" => \A p \in Parents : rec[d].doc \in box[p]
  BY <1>1 DEF Integrity, SubmittedReachedAll
<1>5. CASE TryAcquireLease(s)
  <2>1. CASE Acquirable(s)
    <3> DEFINE r == [rec[d] EXCEPT !.status = "pending", !.lease = Lease - ses[s].age]
               y == [ses[s] EXCEPT !.pc = "deliver"]
    <3>1. r \in Records /\ r.status = "pending" /\ r.doc = rec[d].doc
      BY <1>1, <1>3 DEF Records, Statuses
    <3>2. y \in Requests /\ y.pc = "deliver" /\ y.date = d /\ y.to = 1 /\ y.sent
      BY <1>0, <1>5 DEF TryAcquireLease, Requests, Labels, GoodRequest
    <3>3. rec' = [rec EXCEPT ![d] = r]
      BY <1>5, <2>1 DEF TryAcquireLease
    <3>4. ses' = [ses EXCEPT ![s] = y]
      BY <1>5, <2>1 DEF TryAcquireLease, Goto
    <3>5. Made(d) /\ UNCHANGED <<day, box, writer, faults>>
      BY <1>0, <1>5 DEF TryAcquireLease, GoodRequest, Made
    <3>6. GoodRequest(y, rec', box')
      BY <1>0, <1>1, <3>1, <3>2, <3>3 DEF GoodRequest
    <3> HIDE DEF d, r, y
    <3> QED BY <1>0, <1>1, <3>1, <3>2, <3>3, <3>4, <3>5, <3>6, RecordStep
  <2>2. CASE ~Acquirable(s)
    BY <1>0, <1>2, <1>5, <2>2, QuietStep DEF TryAcquireLease, Done
  <2> QED BY <2>1, <2>2
<1>6. CASE ClaimToday(s)
  <2>1. CASE Unclaimed(d)
    <3> DEFINE r == [status |-> "pending", doc |-> ses[s].doc, held |-> TRUE,
                     lease |-> Lease - ses[s].age]
               y == [ses[s] EXCEPT !.pc = "deliver"]
    <3>0. ses[s].doc \in Docs /\ ses[s].doc.date = d
      BY <1>0, <1>6 DEF ClaimToday, GoodRequest
    <3>1. r \in Records /\ r.status = "pending" /\ r.doc \in Docs /\ r.doc.date = d
      BY <1>3, <3>0 DEF Records, Statuses
    <3>2. y \in Requests /\ y.pc = "deliver" /\ y.date = d /\ y.to = 1 /\ y.sent
      BY <1>0, <1>6 DEF ClaimToday, Requests, Labels, GoodRequest
    <3>3. rec' = [rec EXCEPT ![d] = r]
      BY <1>6, <2>1 DEF ClaimToday
    <3>4. ses' = [ses EXCEPT ![s] = y]
      BY <1>6, <2>1 DEF ClaimToday, Goto
    <3>5. ~Made(d) /\ UNCHANGED <<day, box, writer, faults>>
      BY <1>6, <2>1 DEF ClaimToday, Unclaimed, Made
    <3>6. GoodRequest(y, rec', box')
      BY <1>0, <1>1, <3>1, <3>2, <3>3 DEF GoodRequest
    <3> HIDE DEF d, r, y
    <3> QED BY <1>0, <1>1, <3>1, <3>2, <3>3, <3>4, <3>5, <3>6, RecordStep
  <2>2. CASE ~Unclaimed(d)
    BY <1>0, <1>2, <1>6, <2>2, QuietStep DEF ClaimToday, Done
  <2> QED BY <2>1, <2>2
<1>7. CASE Settle(s)
  <2> DEFINE r == IF AllSent(s)
                  THEN [rec[d] EXCEPT !.status = "submitted", !.held = FALSE, !.lease = Over]
                  ELSE [rec[d] EXCEPT !.status = "failed", !.lease = Over]
  <2>1. /\ r \in Records /\ r.status \in {"submitted", "failed"} /\ r.doc = rec[d].doc
        /\ r.status = "submitted" => AllSent(s)
    BY <1>1, <1>3 DEF Records, Statuses
  <2>2. rec' = [rec EXCEPT ![d] = r]
    BY <1>7 DEF Settle
  <2>3. ses' = [ses EXCEPT ![s] = Idle]
    BY <1>7 DEF Settle, Done
  <2>4. Made(d) /\ UNCHANGED <<day, box, faults>> /\ writer' = None
    BY <1>0, <1>7 DEF Settle, GoodRequest, Made
  <2>5. r.status = "submitted" => \A p \in Parents : r.doc \in box[p]
    BY <1>0, <1>7, <2>1, BackupAssumption DEF Settle, GoodRequest, AllSent, Parents, Requests
  <2>6. GoodRequest(Idle, rec', box')
    BY IdleShape
  <2> HIDE DEF d, r
  <2> QED BY <1>1, <1>2, <2>1, <2>2, <2>3, <2>4, <2>5, <2>6, RecordStep
<1>8. CASE AbandonWrite(s)
  <2> DEFINE r == [rec[d] EXCEPT !.status = "abandoned", !.lease = Over]
  <2>1. r \in Records /\ r.status = "abandoned" /\ r.doc = rec[d].doc
    BY <1>1, <1>3 DEF Records, Statuses
  <2>2. rec' = [rec EXCEPT ![d] = r]
    BY <1>8 DEF AbandonWrite
  <2>3. ses' = [ses EXCEPT ![s] = Idle]
    BY <1>8 DEF AbandonWrite, Done
  <2>4. Made(d) /\ UNCHANGED <<day, box, writer, faults>>
    BY <1>0, <1>8 DEF AbandonWrite, GoodRequest, Made
  <2>6. GoodRequest(Idle, rec', box')
    BY IdleShape
  <2> HIDE DEF d, r
  <2> QED BY <1>0, <1>1, <1>2, <2>1, <2>2, <2>3, <2>4, <2>6, RecordStep
<1> QED BY <1>5, <1>6, <1>7, <1>8

LEMMA SendKeeps == ASSUME Integrity, NEW s \in Sessions, Send(s) PROVE Integrity'
<1> DEFINE p == ses[s].to
           d == ses[s].date
           f == ses[s].doc
<1>0. /\ ses \in [Sessions -> Requests] /\ ses[s] \in Requests
      /\ GoodRequest(ses[s], rec, box) /\ box \in [Parents -> SUBSET Docs]
      /\ faults \in 0..MaxFaults /\ writer \in Sessions \cup {None}
  BY DEF Integrity, Shaped, GoodRequests
<1>1. /\ d \in Dates /\ Made(d) /\ f = rec[d].doc /\ f \in Docs /\ f.date = d
      /\ p \in Parents /\ p + 1 \in 1..(NumParents + 1)
      /\ ses[s].pc = "send" /\ UNCHANGED <<day, rec>>
  BY <1>0, BackupAssumption DEF Send, GoodRequest, Integrity, DatedRecords, Made, Parents
<1>2. writer' \in Sessions \cup {None}
  BY <1>0 DEF Send
<1>3. PICK reached \in SUBSET {f}, sent \in BOOLEAN :
        /\ box' = [box EXCEPT ![p] = @ \cup reached]
        /\ ses' = [ses EXCEPT ![s].to = p + 1, ![s].sent = sent]
        /\ sent => ses[s].sent /\ reached = {f}
        /\ faults' \in 0..MaxFaults
  <2>1. CASE /\ box' = [box EXCEPT ![p] = @ \cup {f}]
             /\ ses' = [ses EXCEPT ![s].to = p + 1]
             /\ UNCHANGED faults
    <3>1. ses' = [ses EXCEPT ![s].to = p + 1, ![s].sent = ses[s].sent]
      BY <1>0, <2>1 DEF Requests
    <3>2. ses[s].sent \in BOOLEAN
      BY <1>0 DEF Requests
    <3> HIDE DEF p, f
    <3> QED BY <1>0, <2>1, <3>1, <3>2
  <2>2. CASE /\ faults < MaxFaults /\ faults' = faults + 1
             /\ ses' = [ses EXCEPT ![s].to = p + 1, ![s].sent = FALSE]
             /\ \E reached \in {{}, {f}} : box' = [box EXCEPT ![p] = @ \cup reached]
    <3>1. faults' \in 0..MaxFaults
      BY <1>0, <2>2, BackupAssumption
    <3> HIDE DEF p, f
    <3> QED BY <2>2, <3>1
  <2> QED BY <2>1, <2>2 DEF Send
<1> DEFINE y == [ses[s] EXCEPT !.to = p + 1, !.sent = sent]
<1>4. ses' = [ses EXCEPT ![s] = y]
  BY <1>3
<1>5. y \in Requests /\ y.pc = "send" /\ y.date = d /\ y.doc = f /\ y.to = p + 1 /\ y.sent = sent
  BY <1>0, <1>1 DEF Requests
<1>6. /\ box' \in [Parents -> SUBSET Docs] /\ box'[p] = box[p] \cup reached
      /\ \A q \in Parents : q # p => box'[q] = box[q]
  <2> HIDE DEF p, f
  <2> QED BY <1>0, <1>1, <1>3
<1> HIDE DEF y
<1>7. Kept
  BY <1>1, <1>6 DEF Kept, Made
<1>8. GoodRequest(y, rec', box')
  <2>1. ASSUME sent, NEW q \in Parents, q < p + 1 PROVE f \in box'[q]
    <3>1. CASE q = p
      BY <1>3, <1>6, <2>1, <3>1
    <3>2. CASE q # p
      <4>1. q < p
        BY <1>1, <2>1, <3>2 DEF Parents
      <4>2. f \in box[q]
        BY <1>0, <1>1, <1>3, <2>1, <4>1 DEF GoodRequest
      <4> QED BY <1>6, <3>2, <4>2
    <3> QED BY <3>1, <3>2
  <2> HIDE DEF p, f, d
  <2> QED BY <1>1, <1>5, <2>1 DEF GoodRequest, Made
<1>9. ses' \in [Sessions -> Requests] /\ GoodRequests'
  BY <1>4, <1>5, <1>7, <1>8, OneRequestMoves
<1>10. Shaped'
  BY <1>1, <1>2, <1>3, <1>6, <1>9 DEF Integrity, Shaped
<1>11. Mailed'
  <2> SUFFICES ASSUME NEW q \in Parents, NEW g \in box'[q]
               PROVE  rec[g.date].status # "absent" /\ g = rec[g.date].doc
    BY <1>1 DEF Mailed, Made
  <2>1. g \in box[q] \/ g = f
    BY <1>3, <1>6
  <2> QED BY <1>1, <2>1 DEF Integrity, Mailed, Made
<1>12. SubmittedReachedAll' /\ DatedRecords'
  BY <1>1, <1>7 DEF Integrity, SubmittedReachedAll, DatedRecords, Made, Kept
<1> QED BY <1>9, <1>10, <1>11, <1>12 DEF Integrity

LEMMA CrashKeeps == Integrity /\ Crash => Integrity'
<1> SUFFICES ASSUME Integrity, Crash PROVE Integrity'
  OBVIOUS
<1>1. Idle \in Requests /\ GoodRequest(Idle, rec, box)
  BY IdleShape
<1>2. faults' \in 0..MaxFaults
  BY BackupAssumption DEF Crash, Integrity, Shaped
<1>3. Shaped' /\ GoodRequests'
  BY <1>1, <1>2 DEF Crash, Integrity, Shaped, GoodRequests
<1> QED BY <1>3 DEF Crash, Integrity, DatedRecords, Mailed, SubmittedReachedAll, Made

LEMMA TickKeeps == Integrity /\ Tick => Integrity'
<1> SUFFICES ASSUME Integrity, Tick PROVE Integrity'
  OBVIOUS
<1>1. ASSUME NEW d \in Dates
      PROVE  /\ rec'[d] \in Records /\ rec'[d].status = rec[d].status
             /\ rec'[d].doc = rec[d].doc
  <2>1. rec[d] \in Records /\ rec[d].lease \in Over..Lease
    BY DEF Integrity, Shaped, Records
  <2>2. (IF rec[d].lease > Over THEN rec[d].lease - 1 ELSE rec[d].lease) \in Over..Lease
    BY <2>1, BackupAssumption DEF Over
  <2>3. rec'[d] = [rec[d] EXCEPT !.lease = IF rec[d].lease > Over
                                            THEN rec[d].lease - 1 ELSE rec[d].lease]
    BY DEF Tick
  <2> QED BY <2>1, <2>2, <2>3 DEF Records
<1>2. ASSUME NEW s \in Sessions
      PROVE  ses'[s] \in Requests /\ GoodRequest(ses'[s], rec', box')
  <2>0. ses[s] \in Requests /\ GoodRequest(ses[s], rec, box)
    BY DEF Integrity, Shaped, GoodRequests
  <2>1. Kept
    BY <1>1 DEF Kept, Made, Tick
  <2>2. CASE Busy(s)
    <3>1. ses'[s] = [ses[s] EXCEPT !.age = ses[s].age + 1]
      BY <2>2 DEF Tick
    <3>2. ses[s].age + 1 \in 0..MaxAge
      BY <2>0, <2>2, BackupAssumption DEF Tick, Requests
    <3>3. ses'[s] \in Requests
      BY <2>0, <3>1, <3>2 DEF Requests
    <3>4. GoodRequest(ses'[s], rec, box)
      BY <2>0, <3>1 DEF Requests, GoodRequest
    <3> QED BY <2>1, <3>3, <3>4, GoodRequestKept
  <2>3. CASE ~Busy(s)
    BY <2>0, <2>1, <2>3, GoodRequestKept DEF Tick
  <2> QED BY <2>2, <2>3
<1>3. rec' \in [Dates -> Records] /\ ses' \in [Sessions -> Requests]
  BY <1>1, <1>2 DEF Tick
<1>4. Shaped' /\ GoodRequests'
  BY <1>2, <1>3 DEF Tick, Integrity, Shaped, GoodRequests
<1>5. DatedRecords' /\ SubmittedReachedAll'
  BY <1>1 DEF Tick, Integrity, DatedRecords, SubmittedReachedAll, Made
<1>6. Mailed'
  BY <1>1, DocShape DEF Tick, Integrity, Shaped, Mailed, Made
<1> QED BY <1>4, <1>5, <1>6 DEF Integrity

LEMMA MidnightKeeps == Integrity /\ Midnight => Integrity'
BY BackupAssumption
   DEF Midnight, Integrity, Shaped, GoodRequests, DatedRecords, Mailed,
       SubmittedReachedAll, Made, Dates

LEMMA NextKeepsIntegrity == Integrity /\ [Next]_vars => Integrity'
<1> SUFFICES ASSUME Integrity, [Next]_vars PROVE Integrity'
  OBVIOUS
<1>1. ASSUME NEW s \in Sessions, Trigger(s) \/ Work(s) \/ AbandonRead(s) \/ LockTimeout(s)
      PROVE  Integrity'
  BY <1>1, QuietActions, RecordActions, SendKeeps DEF Work
<1>2. CASE UNCHANGED vars
  BY <1>2 DEF vars, Integrity, Shaped, GoodRequests, DatedRecords, Mailed,
              SubmittedReachedAll, Made
<1> QED BY <1>1, <1>2, CrashKeeps, TickKeeps, MidnightKeeps DEF Next

\* The records, the mailboxes and what the requests hold agree, in any order of
\* steps.
THEOREM IntegrityHolds == Spec => []Integrity
BY InitIntegrity, NextKeepsIntegrity, PTL DEF Spec

\* Every variable keeps its shape, whatever order the requests' steps come in
\* and however long they last.
THEOREM TypeCorrect == Spec => []TypeOK
BY IntegrityHolds, IntegrityTypes, PTL

\* One backup date is one archive (core/backup.py, invariant 1): no order of
\* claims, retries, crashes and abandons mails two different archives under
\* one date.
THEOREM NeverTwoArchives == Spec => []OneArchivePerDate
<1>1. Integrity => OneArchivePerDate
  BY DEF Integrity, Mailed, OneArchivePerDate
<1> QED BY <1>1, IntegrityHolds, PTL

\* A record that says submitted is in every parent's mailbox (invariant 2).
THEOREM SubmittedIsReceived == Spec => []SubmittedReachedAll
<1>1. Integrity => SubmittedReachedAll
  BY DEF Integrity
<1> QED BY <1>1, IntegrityHolds, PTL

LEMMA OrderlyIsSpec == OrderlySpec => Spec
<1>1. [OrderlyNext]_vars => [Next]_vars
  BY DEF OrderlyNext
<1> QED BY <1>1, PTL DEF OrderlySpec, Spec

------------------------------------------------------------------------------
(* Exclusive delivery.  It rests on the order the triggers come in, and on *)
(* a request ending before the lease it took does.                         *)

LeaseOutlivesRequest == MaxAge < Lease

Delivering(s) == ses[s].pc \in {"deliver", "send"}
Claiming(s)   == ses[s].pc \in {"today", "build", "claim"}
Abandoning(s) == ses[s].pc = "abandon"

(* The lease a delivery took runs with the request that took it. *)
OwnedIsPending ==
  \A s \in Sessions : Delivering(s) =>
    /\ rec[ses[s].date].status = "pending"
    /\ rec[ses[s].date].lease = Lease - ses[s].age

OneUnresolved == \A d, e \in Unresolved : d = e

(* A request that found nothing owed claims today, and as long as today is *)
(* free there is still nothing owed.                                       *)
ClaimsAlone ==
  \A s \in Sessions : Claiming(s) =>
    /\ ses[s].pc # "today" => ses[s].date = day
    /\ ~Made(day) => Unresolved = {}

AbandonsUnowned ==
  \A s \in Sessions : Abandoning(s) =>
    /\ rec[ses[s].date].status \in Owed \cup {"abandoned"}
    /\ \A t \in Sessions : Delivering(t) => ses[t].date # ses[s].date

Exclusive == OwnedIsPending /\ OneUnresolved /\ ClaimsAlone /\ AbandonsUnowned /\ OneOwner

LEMMA InitExclusive == Init => Exclusive
<1> SUFFICES ASSUME Init PROVE Exclusive
  OBVIOUS
<1>1. \A s \in Sessions : ses[s].pc = "idle"
  BY DEF Init, Idle
<1>2. Unresolved = {}
  BY DEF Init, NoRecord, Unresolved, Owed
<1> QED BY <1>1, <1>2 DEF Exclusive, OwnedIsPending, OneUnresolved, ClaimsAlone,
           AbandonsUnowned, OneOwner, Delivering, Claiming, Abandoning

\* While a request delivers, its record is the only one owed, and its lease
\* still runs.
LEMMA OwnerIsAlone ==
  ASSUME LeaseOutlivesRequest, Integrity, Exclusive, NEW t \in Sessions, Delivering(t)
  PROVE  /\ ses[t].date \in Dates /\ Unresolved = {ses[t].date}
         /\ Live(ses[t].date) /\ rec[ses[t].date].lease \in Nat
<1>1. ses[t] \in Requests /\ GoodRequest(ses[t], rec, box)
  BY DEF Integrity, Shaped, GoodRequests
<1>2. ses[t].date \in Dates /\ ses[t].age \in 0..MaxAge
  BY <1>1 DEF GoodRequest, Requests, Delivering
<1>3. /\ rec[ses[t].date].status = "pending"
      /\ rec[ses[t].date].lease = Lease - ses[t].age
  BY DEF Exclusive, OwnedIsPending
<1>4. Lease - ses[t].age \in Nat \ {0}
  BY <1>2, BackupAssumption DEF LeaseOutlivesRequest
<1>5. ses[t].date \in Unresolved
  BY <1>2, <1>3 DEF Unresolved, Owed
<1>6. Unresolved = {ses[t].date}
  BY <1>5 DEF Exclusive, OneUnresolved
<1> QED BY <1>2, <1>3, <1>4, <1>6 DEF Live

\* A step of one request that changes no record.
LEMMA QuietExclusive ==
  ASSUME Integrity, Exclusive, NEW s \in Sessions,
         \A t \in Sessions : t # s => ses'[t] = ses[t],
         UNCHANGED <<day, rec>>,
         Delivering(s)' => /\ Delivering(s)
                           /\ ses'[s].date = ses[s].date /\ ses'[s].age = ses[s].age,
         Claiming(s)' => /\ ses'[s].pc # "today" => ses'[s].date = day
                         /\ ~Made(day) => Unresolved = {},
         Abandoning(s)' =>
           /\ rec[ses'[s].date].status \in Owed
           /\ \A t \in Sessions : Delivering(t) => ses[t].date # ses'[s].date
  PROVE  Exclusive'
<1>1. Unresolved' = Unresolved /\ Made(day)' = Made(day)
  BY DEF Unresolved, Made
<1>2. \A t \in Sessions : Delivering(t)' => /\ Delivering(t)
                                            /\ ses'[t].date = ses[t].date
                                            /\ ses'[t].age = ses[t].age
  BY DEF Delivering
<1>3. OwnedIsPending'
  BY <1>2 DEF Exclusive, OwnedIsPending
<1>4. OneUnresolved'
  BY <1>1 DEF Exclusive, OneUnresolved
<1>5. ClaimsAlone'
  BY <1>1 DEF Exclusive, ClaimsAlone, Claiming, Made
<1>6. AbandonsUnowned'
  <2> SUFFICES ASSUME NEW u \in Sessions, Abandoning(u)'
               PROVE  /\ rec'[ses'[u].date].status \in Owed \cup {"abandoned"}
                      /\ \A t \in Sessions : Delivering(t)' => ses'[t].date # ses'[u].date
    BY DEF AbandonsUnowned
  <2>1. CASE u = s
    BY <1>2, <2>1
  <2>2. CASE u # s
    BY <1>2, <2>2 DEF Exclusive, AbandonsUnowned, Abandoning
  <2> QED BY <2>1, <2>2
<1>7. OneOwner'
  BY <1>2 DEF Exclusive, OneOwner, Delivering
<1> QED BY <1>3, <1>4, <1>5, <1>6, <1>7 DEF Exclusive

LEMMA QuietActionsExclusive ==
  ASSUME LeaseOutlivesRequest, Integrity, Exclusive, NEW s \in Sessions,
         \/ Trigger(s) \/ CheckToday(s) \/ Build(s) \/ LoadBytes(s)
         \/ LockTimeout(s) \/ AbandonRead(s) \/ Send(s)
  PROVE  Exclusive'
<1>0. /\ ses \in [Sessions -> Requests] /\ ses[s] \in Requests /\ day \in Dates
      /\ GoodRequest(ses[s], rec, box)
  BY DEF Integrity, Shaped, GoodRequests
<1>1. \A t \in Sessions : t # s => ses'[t] = ses[t]
  BY <1>0 DEF Trigger, CheckToday, Build, LoadBytes, LockTimeout, AbandonRead, Send, Done
<1>2. UNCHANGED <<day, rec>>
  BY DEF Trigger, CheckToday, Build, LoadBytes, LockTimeout, AbandonRead, Send
<1>a. Done(s) => ses'[s].pc = "idle"
  BY <1>0 DEF Done, Idle
<1>3. CASE Trigger(s)
  <2>1. CASE Unresolved = {} /\ ses' = [ses EXCEPT ![s].pc = "today"]
    <3>1. ses'[s].pc = "today"
      BY <1>0, <2>1
    <3> QED BY <1>1, <1>2, <2>1, <3>1, QuietExclusive DEF Delivering, Claiming, Abandoning
  <2>2. CASE ses' = [ses EXCEPT ![s].pc = "lease", ![s].date = Max(Unresolved)]
    <3>1. ses'[s].pc = "lease"
      BY <1>0, <2>2 DEF Requests
    <3> QED BY <1>1, <1>2, <3>1, QuietExclusive DEF Delivering, Claiming, Abandoning
  <2> QED BY <1>3, <2>1, <2>2 DEF Trigger
<1>4. CASE AbandonRead(s)
  <2>1. Max(Unresolved) \in Unresolved
    <3>1. Unresolved # {} /\ Unresolved \subseteq Dates
      BY <1>4 DEF AbandonRead, Unresolved
    <3> QED BY <3>1, LatestIs
  <2>2. ses'[s].pc = "abandon" /\ ses'[s].date = Max(Unresolved)
    <3> HIDE DEF Unresolved
    <3> QED BY <1>0, <1>4 DEF AbandonRead, Requests
  <2>3. \A t \in Sessions : Delivering(t) => ses[t].date # Max(Unresolved)
    BY <1>4, OwnerIsAlone DEF AbandonRead, MayAbandon
  <2>4. rec[ses'[s].date].status \in Owed
    BY <2>1, <2>2 DEF Unresolved
  <2> QED BY <1>1, <1>2, <2>2, <2>3, <2>4, QuietExclusive DEF Delivering, Claiming, Abandoning
<1>5. ASSUME Claiming(s), ses'[s].pc \in {"build", "claim", "idle"},
             ses'[s].pc # "idle" => ses'[s].date = day
      PROVE  Exclusive'
  <2>1. ~Made(day) => Unresolved = {}
    BY <1>5 DEF Exclusive, ClaimsAlone
  <2> QED BY <1>1, <1>2, <1>5, <2>1, QuietExclusive DEF Delivering, Claiming, Abandoning
<1>6. CASE CheckToday(s)
  <2>1. Claiming(s)
    BY <1>6 DEF CheckToday, Claiming
  <2>2. CASE ses' = [ses EXCEPT ![s].pc = "build", ![s].date = day]
    BY <1>0, <1>5, <2>1, <2>2 DEF Requests
  <2>3. CASE Done(s)
    BY <1>5, <1>a, <2>1, <2>3
  <2> QED BY <1>6, <2>2, <2>3 DEF CheckToday
<1>7. CASE Build(s)
  <2>1. Claiming(s) /\ ses[s].date = day
    BY <1>7 DEF Build, Claiming, Exclusive, ClaimsAlone
  <2>2. ses'[s].pc = "claim" /\ ses'[s].date = ses[s].date
    BY <1>0, <1>7 DEF Build, Requests
  <2> QED BY <1>5, <2>1, <2>2
<1>8. ASSUME Delivering(s), ses'[s].pc \in {"send", "idle"},
             ses'[s].pc = "send" => ses'[s].date = ses[s].date /\ ses'[s].age = ses[s].age
      PROVE  Exclusive'
  BY <1>1, <1>2, <1>8, QuietExclusive DEF Delivering, Claiming, Abandoning
<1>9. CASE LoadBytes(s)
  <2>1. Delivering(s)
    BY <1>9 DEF LoadBytes, Delivering
  <2>2. CASE ses' = [ses EXCEPT ![s].pc = "send", ![s].doc = rec[ses[s].date].doc]
    <3>1. /\ ses'[s].pc = "send"
          /\ ses'[s].date = ses[s].date /\ ses'[s].age = ses[s].age
      BY <1>0, <2>2 DEF Requests
    <3> QED BY <1>8, <2>1, <3>1
  <2>3. CASE Done(s)
    BY <1>8, <1>a, <2>1, <2>3
  <2> QED BY <1>9, <2>2, <2>3 DEF LoadBytes
<1>10. CASE Send(s)
  <2>1. Delivering(s) /\ ses[s].pc = "send"
    BY <1>10 DEF Send, Delivering
  <2>2. /\ ses'[s].pc = ses[s].pc
        /\ ses'[s].date = ses[s].date /\ ses'[s].age = ses[s].age
    BY <1>0, <1>10 DEF Send, Requests
  <2> QED BY <1>8, <2>1, <2>2
<1>11. CASE LockTimeout(s)
  <2>1. ses'[s].pc = "idle"
    BY <1>a, <1>11 DEF LockTimeout
  <2> QED BY <1>1, <1>2, <2>1, QuietExclusive DEF Delivering, Claiming, Abandoning
<1> QED BY <1>3, <1>4, <1>6, <1>7, <1>9, <1>10, <1>11

\* A step of one request that writes the status of one record.
LEMMA TryAcquireLeaseExclusive ==
  ASSUME LeaseOutlivesRequest, Integrity, Exclusive, Orderly,
         NEW s \in Sessions, TryAcquireLease(s)
  PROVE  Exclusive'
<1> DEFINE d == ses[s].date
<1>0. /\ ses \in [Sessions -> Requests] /\ ses[s] \in Requests
      /\ GoodRequest(ses[s], rec, box) /\ rec \in [Dates -> Records]
      /\ ses[s].pc = "lease" /\ d \in Dates /\ UNCHANGED day
  BY DEF TryAcquireLease, Integrity, Shaped, GoodRequests, GoodRequest
<1>1. CASE ~Acquirable(s)
  <2>1. ses'[s].pc = "idle" /\ \A t \in Sessions : t # s => ses'[t] = ses[t]
    BY <1>0, <1>1 DEF TryAcquireLease, Done, Idle
  <2>2. UNCHANGED <<day, rec>>
    BY <1>1 DEF TryAcquireLease
  <2> QED BY <2>1, <2>2, QuietExclusive DEF Delivering, Claiming, Abandoning
<1>2. CASE Acquirable(s)
  <2>1. /\ ses'[s].pc = "deliver" /\ ses'[s].date = d /\ ses'[s].age = ses[s].age
        /\ \A t \in Sessions : t # s => ses'[t] = ses[t]
    BY <1>0, <1>2 DEF TryAcquireLease, Goto, Requests
  <2>2. rec' = [rec EXCEPT ![d] = [rec[d] EXCEPT !.status = "pending",
                                                 !.lease = Lease - ses[s].age]]
    BY <1>2 DEF TryAcquireLease
  <2>3. /\ rec'[d].status = "pending" /\ rec'[d].lease = Lease - ses[s].age
        /\ \A e \in Dates : e # d => rec'[e] = rec[e]
    <3> HIDE DEF d
    <3> QED BY <1>0, <2>2 DEF Records
  <2>4. d \in Unresolved /\ rec[d].status # "absent"
    BY <1>0, <1>2 DEF Acquirable, Unresolved, Owed
  <2>5. Unresolved' = Unresolved
    <3> HIDE DEF d
    <3> QED BY <1>0, <2>3, <2>4 DEF Unresolved, Owed
  <2>6. ASSUME NEW t \in Sessions PROVE ~Delivering(t)
    <3> SUFFICES ASSUME Delivering(t) PROVE FALSE
      OBVIOUS
    <3>1. d = ses[t].date /\ rec[d].status = "pending" /\ rec[d].lease \in Nat
      BY <2>4, OwnerIsAlone DEF Live
    <3>2. ses[s].age \in Nat
      BY <1>0 DEF Requests
    <3> QED BY <1>2, <3>1, <3>2 DEF Acquirable
  <2>7. \A t \in Sessions : Delivering(t)' => t = s
    BY <2>1, <2>6 DEF Delivering
  <2>8. OwnedIsPending'
    BY <2>1, <2>3, <2>7 DEF OwnedIsPending
  <2>9. OneUnresolved'
    BY <2>5 DEF Exclusive, OneUnresolved
  <2>10. ClaimsAlone'
    <3> SUFFICES ASSUME NEW t \in Sessions, Claiming(t)'
                 PROVE  /\ ses'[t].pc # "today" => ses'[t].date = day'
                        /\ ~Made(day)' => Unresolved' = {}
      BY DEF ClaimsAlone
    <3>1. t # s /\ ses'[t] = ses[t] /\ Claiming(t)
      BY <2>1 DEF Claiming
    <3>2. ~Made(day)' => ~Made(day)
      BY <1>0, <2>3, <2>4 DEF Made, Integrity, Shaped
    <3> QED BY <1>0, <2>5, <3>1, <3>2 DEF Exclusive, ClaimsAlone
  <2>11. \A t \in Sessions : ~Abandoning(t)'
    <3>1. \A t \in Sessions : ses[t].pc # "abandon"
      BY <1>0, <2>1 DEF Orderly
    <3> QED BY <2>1, <3>1 DEF Abandoning
  <2> QED BY <2>7, <2>8, <2>9, <2>10, <2>11 DEF Exclusive, AbandonsUnowned, OneOwner, Delivering
<1> QED BY <1>1, <1>2

LEMMA ClaimTodayExclusive ==
  ASSUME LeaseOutlivesRequest, Integrity, Exclusive, NEW s \in Sessions, ClaimToday(s)
  PROVE  Exclusive'
<1> DEFINE d == ses[s].date
<1>0. /\ ses \in [Sessions -> Requests] /\ ses[s] \in Requests
      /\ rec \in [Dates -> Records] /\ ses[s].pc = "claim" /\ d \in Dates /\ UNCHANGED day
  BY DEF ClaimToday, Integrity, Shaped, GoodRequests, GoodRequest
<1>1. CASE ~Unclaimed(d)
  <2>1. ses'[s].pc = "idle" /\ \A t \in Sessions : t # s => ses'[t] = ses[t]
    BY <1>0, <1>1 DEF ClaimToday, Done, Idle
  <2>2. UNCHANGED <<day, rec>>
    BY <1>1 DEF ClaimToday
  <2> QED BY <2>1, <2>2, QuietExclusive DEF Delivering, Claiming, Abandoning
<1>2. CASE Unclaimed(d)
  <2>1. /\ ses'[s].pc = "deliver" /\ ses'[s].date = d /\ ses'[s].age = ses[s].age
        /\ \A t \in Sessions : t # s => ses'[t] = ses[t]
    BY <1>0, <1>2 DEF ClaimToday, Goto, Requests
  <2>2. /\ rec'[d].status = "pending" /\ rec'[d].lease = Lease - ses[s].age
        /\ \A e \in Dates : e # d => rec'[e] = rec[e]
    BY <1>0, <1>2 DEF ClaimToday
  <2>3. d = day /\ Unresolved = {}
    BY <1>0, <1>2 DEF Exclusive, ClaimsAlone, Claiming, Unclaimed, Made
  <2>4. Unresolved' = {d}
    <3> HIDE DEF d
    <3> QED BY <1>0, <2>2, <2>3 DEF Unresolved, Owed
  <2>5. \A t \in Sessions : ~Delivering(t)
    BY <2>3, OwnerIsAlone
  <2>6. \A t \in Sessions : Delivering(t)' => t = s
    BY <2>1, <2>5 DEF Delivering
  <2>7. OwnedIsPending'
    BY <2>1, <2>2, <2>6 DEF OwnedIsPending
  <2>8. OneUnresolved'
    BY <2>4 DEF OneUnresolved
  <2>9. ClaimsAlone'
    <3> SUFFICES ASSUME NEW t \in Sessions, Claiming(t)'
                 PROVE  /\ ses'[t].pc # "today" => ses'[t].date = day'
                        /\ ~Made(day)' => Unresolved' = {}
      BY DEF ClaimsAlone
    <3>1. t # s /\ ses'[t] = ses[t] /\ Claiming(t)
      BY <2>1 DEF Claiming
    <3>2. Made(day)'
      BY <1>0, <2>2, <2>3 DEF Made
    <3> QED BY <1>0, <3>1, <3>2 DEF Exclusive, ClaimsAlone
  <2>10. AbandonsUnowned'
    <3> SUFFICES ASSUME NEW u \in Sessions, Abandoning(u)'
                 PROVE  /\ rec'[ses'[u].date].status \in Owed \cup {"abandoned"}
                        /\ \A t \in Sessions : Delivering(t)' => ses'[t].date # ses'[u].date
      BY DEF AbandonsUnowned
    <3>1. u # s /\ ses'[u] = ses[u] /\ Abandoning(u)
      BY <2>1 DEF Abandoning
    <3>2. ses[u].date \in Dates /\ rec[ses[u].date].status \in Owed \cup {"abandoned"}
      BY <3>1 DEF Exclusive, AbandonsUnowned, Abandoning, Integrity, GoodRequests, GoodRequest
    <3>3. ses[u].date # d
      BY <1>2, <3>2 DEF Unclaimed, Owed
    <3> QED BY <2>1, <2>2, <2>6, <3>1, <3>2, <3>3
  <2> QED BY <2>6, <2>7, <2>8, <2>9, <2>10 DEF Exclusive, OneOwner, Delivering
<1> QED BY <1>1, <1>2

\* A record leaves the owed ones, by the request that delivers it or by an
\* abandon of one that nobody delivers.
LEMMA ResolveExclusive ==
  ASSUME LeaseOutlivesRequest, Integrity, Exclusive, NEW s \in Sessions,
         Settle(s) \/ AbandonWrite(s)
  PROVE  Exclusive'
<1> DEFINE d == ses[s].date
<1>0. /\ ses \in [Sessions -> Requests] /\ ses[s] \in Requests
      /\ rec \in [Dates -> Records] /\ d \in Dates /\ rec[d] \in Records /\ UNCHANGED day
  BY DEF Settle, AbandonWrite, Integrity, Shaped, GoodRequests, GoodRequest
<1>1. ses'[s].pc = "idle" /\ \A t \in Sessions : t # s => ses'[t] = ses[t]
  BY <1>0 DEF Settle, AbandonWrite, Done, Idle
<1>2. /\ \A e \in Dates : e # d => rec'[e] = rec[e]
      /\ rec'[d].status \in {"submitted", "failed", "abandoned"}
      /\ AbandonWrite(s) => rec'[d].status = "abandoned"
      /\ rec[d].status \in Owed \cup {"abandoned"}
      /\ rec'[d].status = "failed" => rec[d].status \in Owed
  <2>1. CASE Settle(s)
    <3>1. rec[d].status = "pending" /\ ~AbandonWrite(s)
      BY <2>1 DEF Settle, AbandonWrite, Exclusive, OwnedIsPending, Delivering
    <3>2. rec'[d] = IF AllSent(s)
                    THEN [rec[d] EXCEPT !.status = "submitted", !.held = FALSE, !.lease = Over]
                    ELSE [rec[d] EXCEPT !.status = "failed", !.lease = Over]
      BY <1>0, <2>1 DEF Settle
    <3>3. rec'[d].status \in {"submitted", "failed"}
      BY <1>0, <3>2 DEF Records
    <3>4. \A e \in Dates : e # d => rec'[e] = rec[e]
      <4> HIDE DEF d
      <4> QED BY <1>0, <2>1 DEF Settle, d
    <3> QED BY <3>1, <3>3, <3>4 DEF Owed
  <2>2. CASE AbandonWrite(s)
    <3>1. rec[d].status \in Owed \cup {"abandoned"}
      BY <2>2 DEF AbandonWrite, Exclusive, AbandonsUnowned, Abandoning
    <3>2. rec' = [rec EXCEPT ![d] = [rec[d] EXCEPT !.status = "abandoned", !.lease = Over]]
      BY <2>2 DEF AbandonWrite
    <3> HIDE DEF d
    <3> QED BY <1>0, <3>1, <3>2 DEF Records
  <2> QED BY <2>1, <2>2
<1>3. Unresolved' \subseteq Unresolved
  <2> HIDE DEF d
  <2> QED BY <1>0, <1>2 DEF Unresolved, Owed
<1>4. ASSUME NEW t \in Sessions, Delivering(t)'
      PROVE  Delivering(t) /\ ses'[t] = ses[t] /\ ses[t].date # d
  <2>1. t # s /\ ses'[t] = ses[t] /\ Delivering(t)
    BY <1>1, <1>4 DEF Delivering
  <2>2. ~Settle(s)
    BY <2>1 DEF Settle, Exclusive, OneOwner, Delivering
  <2>3. ses[t].date # d
    BY <2>1, <2>2 DEF AbandonWrite, Exclusive, AbandonsUnowned, Abandoning
  <2> QED BY <2>1, <2>3
<1>5. OwnedIsPending'
  BY <1>2, <1>4, OwnerIsAlone DEF Exclusive, OwnedIsPending
<1>6. OneUnresolved'
  BY <1>3 DEF Exclusive, OneUnresolved
<1>7. ClaimsAlone'
  <2> SUFFICES ASSUME NEW t \in Sessions, Claiming(t)'
               PROVE  /\ ses'[t].pc # "today" => ses'[t].date = day'
                      /\ ~Made(day)' => Unresolved' = {}
    BY DEF ClaimsAlone
  <2>1. t # s /\ ses'[t] = ses[t] /\ Claiming(t)
    BY <1>1 DEF Claiming
  <2>2. ~Made(day)' => ~Made(day)
    BY <1>0, <1>2 DEF Made, Integrity, Shaped
  <2> QED BY <1>0, <1>3, <2>1, <2>2 DEF Exclusive, ClaimsAlone
<1>8. AbandonsUnowned'
  <2> SUFFICES ASSUME NEW u \in Sessions, Abandoning(u)'
               PROVE  /\ rec'[ses'[u].date].status \in Owed \cup {"abandoned"}
                      /\ \A t \in Sessions : Delivering(t)' => ses'[t].date # ses'[u].date
    BY DEF AbandonsUnowned
  <2>1. u # s /\ ses'[u] = ses[u] /\ Abandoning(u)
    BY <1>1 DEF Abandoning
  <2>2. /\ ses[u].date \in Dates /\ rec[ses[u].date].status \in Owed \cup {"abandoned"}
        /\ \A t \in Sessions : Delivering(t) => ses[t].date # ses[u].date
    BY <2>1 DEF Exclusive, AbandonsUnowned, Abandoning, Integrity, GoodRequests, GoodRequest
  <2>3. rec'[ses[u].date].status \in Owed \cup {"abandoned"}
    <3>1. CASE ses[u].date # d
      BY <1>2, <2>2, <3>1
    <3>2. CASE ses[u].date = d
      <4>1. ~Settle(s)
        BY <2>2, <3>2 DEF Settle, Delivering
      <4> QED BY <1>2, <3>2, <4>1
    <3> QED BY <3>1, <3>2
  <2> QED BY <1>4, <2>1, <2>2, <2>3
<1>9. OneOwner'
  BY <1>4 DEF Exclusive, OneOwner, Delivering
<1> QED BY <1>5, <1>6, <1>7, <1>8, <1>9 DEF Exclusive

LEMMA CrashExclusive == Integrity /\ Exclusive /\ Crash => Exclusive'
<1> SUFFICES ASSUME Integrity, Exclusive, Crash PROVE Exclusive'
  OBVIOUS
<1>1. \A s \in Sessions : ses'[s].pc = "idle"
  BY DEF Crash, Idle
<1>2. OneUnresolved'
  BY DEF Crash, Exclusive, OneUnresolved, Unresolved
<1> QED BY <1>1, <1>2 DEF Exclusive, OwnedIsPending, ClaimsAlone, AbandonsUnowned, OneOwner,
           Delivering, Claiming, Abandoning

LEMMA TickExclusive ==
  ASSUME LeaseOutlivesRequest, Integrity, Exclusive, Tick
  PROVE  Exclusive'
<1>1. ASSUME NEW d \in Dates
      PROVE  /\ rec'[d].status = rec[d].status
             /\ rec[d].lease > Over => rec'[d].lease = rec[d].lease - 1
  <2>1. rec[d] \in Records
    BY DEF Integrity, Shaped
  <2>2. rec'[d] = [rec[d] EXCEPT !.lease = IF rec[d].lease > Over
                                            THEN rec[d].lease - 1 ELSE rec[d].lease]
    BY DEF Tick
  <2> QED BY <2>1, <2>2 DEF Records
<1>2. Unresolved' = Unresolved
  BY <1>1 DEF Unresolved
<1>3. ASSUME NEW s \in Sessions
      PROVE  /\ ses'[s].pc = ses[s].pc /\ ses'[s].date = ses[s].date
             /\ Busy(s) => ses'[s].age = ses[s].age + 1
  <2>1. ses[s] \in Requests
    BY DEF Integrity, Shaped
  <2>2. ses'[s] = IF Busy(s) THEN [ses[s] EXCEPT !.age = ses[s].age + 1] ELSE ses[s]
    BY DEF Tick
  <2> QED BY <2>1, <2>2 DEF Requests
<1>4. OwnedIsPending'
  <2> SUFFICES ASSUME NEW s \in Sessions, Delivering(s)
               PROVE  /\ rec'[ses[s].date].status = "pending"
                      /\ rec'[ses[s].date].lease = Lease - ses'[s].age
    BY <1>3 DEF OwnedIsPending, Delivering
  <2>1. ses'[s].age = ses[s].age + 1 /\ ses[s].age \in Nat
    BY <1>3 DEF Delivering, Busy, Integrity, Shaped, Requests
  <2>2. /\ rec[ses[s].date].status = "pending"
        /\ rec[ses[s].date].lease = Lease - ses[s].age
    BY DEF Exclusive, OwnedIsPending
  <2>3. ses[s].date \in Dates /\ rec[ses[s].date].lease \in Nat
    BY OwnerIsAlone
  <2>4. rec[ses[s].date].lease > Over
    BY <2>3, BackupAssumption DEF Over
  <2> QED BY <1>1, <2>1, <2>2, <2>3, <2>4, BackupAssumption
<1>5. OneUnresolved'
  BY <1>2 DEF Exclusive, OneUnresolved
<1>6. Made(day)' = Made(day) /\ UNCHANGED day
  BY <1>1 DEF Tick, Made, Integrity, Shaped
<1>7. ClaimsAlone'
  BY <1>2, <1>3, <1>6 DEF Exclusive, ClaimsAlone, Claiming
<1>8. AbandonsUnowned'
  BY <1>1, <1>3 DEF Exclusive, AbandonsUnowned, Abandoning, Delivering, Integrity,
                    GoodRequests, GoodRequest
<1>9. OneOwner'
  BY <1>3 DEF Exclusive, OneOwner
<1> QED BY <1>4, <1>5, <1>7, <1>8, <1>9 DEF Exclusive

LEMMA MidnightExclusive ==
  ASSUME Integrity, Exclusive, Midnight, Orderly
  PROVE  Exclusive'
<1>1. day' # day
  BY DEF Midnight, Integrity, Shaped, Dates
<1>2. \A s \in Sessions : ~Claiming(s)' /\ ses'[s] = ses[s]
  BY <1>1 DEF Orderly, Claiming, Midnight
<1>3. UNCHANGED <<rec, ses>> /\ Unresolved' = Unresolved
  BY DEF Midnight, Unresolved
<1> QED BY <1>2, <1>3 DEF Exclusive, OwnedIsPending, OneUnresolved, ClaimsAlone,
           AbandonsUnowned, OneOwner, Delivering, Abandoning

LEMMA NextKeepsExclusive ==
  ASSUME LeaseOutlivesRequest, Integrity, Exclusive, [OrderlyNext]_vars
  PROVE  Exclusive'
<1>1. ASSUME NEW s \in Sessions, Trigger(s) \/ Work(s) \/ AbandonRead(s) \/ LockTimeout(s),
             Orderly
      PROVE  Exclusive'
  BY <1>1, QuietActionsExclusive, TryAcquireLeaseExclusive, ClaimTodayExclusive,
     ResolveExclusive DEF Work
<1>2. CASE UNCHANGED vars
  BY <1>2 DEF vars, Exclusive, OwnedIsPending, OneUnresolved, ClaimsAlone, AbandonsUnowned,
              OneOwner, Delivering, Claiming, Abandoning, Unresolved, Made
<1> QED BY <1>1, <1>2, CrashExclusive, TickExclusive, MidnightExclusive DEF OrderlyNext, Next

\* At most one archive is owed, at most one request delivers it, and nobody
\* abandons it meanwhile.
THEOREM ExclusiveHolds ==
  ASSUME LeaseOutlivesRequest PROVE OrderlySpec => [](Integrity /\ Exclusive)
<1>1. Init => Integrity /\ Exclusive
  BY InitIntegrity, InitExclusive
<1>2. Integrity /\ Exclusive /\ [OrderlyNext]_vars => (Integrity /\ Exclusive)'
  BY NextKeepsIntegrity, NextKeepsExclusive DEF OrderlyNext
<1> QED BY <1>1, <1>2, PTL DEF OrderlySpec

\* No two requests ever deliver (invariant 3 of core/backup.py), although the
\* record is read before its lease is taken and a lease is handed on after a
\* crash: as long as a request ends before the lease it took.
THEOREM DeliveryIsExclusive ==
  ASSUME LeaseOutlivesRequest PROVE OrderlySpec => []OneOwner
<1>1. Exclusive => OneOwner
  BY DEF Exclusive
<1> QED BY <1>1, ExclusiveHolds, PTL

\* The status a step writes.
LEMMA StatusStep ==
  ASSUME LeaseOutlivesRequest, Integrity, Exclusive, [Next]_vars, NEW d \in Dates,
         rec'[d].status # rec[d].status
  PROVE  rec[d].status \notin {"submitted", "abandoned"}
<1>0. /\ rec \in [Dates -> Records] /\ rec[d] \in Records
  BY DEF Integrity, Shaped
<1>1. ASSUME NEW s \in Sessions, TryAcquireLease(s)
      PROVE  rec[d].status \notin {"submitted", "abandoned"}
  <2>1. ses[s].date = d /\ Acquirable(s)
    BY <1>0, <1>1 DEF TryAcquireLease
  <2> QED BY <2>1 DEF Acquirable
<1>2. ASSUME NEW s \in Sessions, ClaimToday(s)
      PROVE  rec[d].status \notin {"submitted", "abandoned"}
  <2>1. ses[s].date = d /\ Unclaimed(d)
    BY <1>0, <1>2 DEF ClaimToday
  <2> QED BY <2>1 DEF Unclaimed
<1>3. ASSUME NEW s \in Sessions, Settle(s)
      PROVE  rec[d].status \notin {"submitted", "abandoned"}
  <2>1. ses[s].date = d /\ Delivering(s)
    BY <1>0, <1>3 DEF Settle, Delivering
  <2> QED BY <2>1 DEF Exclusive, OwnedIsPending
<1>4. ASSUME NEW s \in Sessions, AbandonWrite(s)
      PROVE  rec[d].status \notin {"submitted", "abandoned"}
  <2>1. ses[s].date = d /\ Abandoning(s)
    BY <1>0, <1>4 DEF AbandonWrite, Abandoning
  <2>2. rec'[d].status = "abandoned"
    BY <1>0, <1>4, <2>1 DEF AbandonWrite, Records
  <2> QED BY <2>1, <2>2 DEF Exclusive, AbandonsUnowned, Owed
<1>5. ~Tick
  <2> SUFFICES ASSUME Tick PROVE FALSE
    OBVIOUS
  <2>1. rec'[d] = [rec[d] EXCEPT !.lease = IF rec[d].lease > Over
                                            THEN rec[d].lease - 1 ELSE rec[d].lease]
    BY DEF Tick
  <2> QED BY <1>0, <2>1 DEF Records
<1>6. rec' # rec
  OBVIOUS
<1>7. ~Crash /\ ~Midnight /\ ~UNCHANGED vars
  BY <1>6 DEF Crash, Midnight, vars
<1>8. ASSUME NEW s \in Sessions
      PROVE  ~Trigger(s) /\ ~CheckToday(s) /\ ~Build(s) /\ ~LoadBytes(s) /\ ~Send(s)
             /\ ~LockTimeout(s) /\ ~AbandonRead(s)
  BY <1>6 DEF Trigger, CheckToday, Build, LoadBytes, Send, LockTimeout, AbandonRead
<1> QED BY <1>1, <1>2, <1>3, <1>4, <1>5, <1>7, <1>8 DEF Next, Work

\* What was submitted or abandoned stays so: no late answer of another
\* attempt, no retry and no second abandon reopens it.
THEOREM SettledStays ==
  ASSUME LeaseOutlivesRequest PROVE OrderlySpec => SettledIsFinal
<1>1. Integrity /\ Exclusive /\ [OrderlyNext]_vars =>
        [\A d \in Dates : rec[d].status \in {"submitted", "abandoned"} =>
           rec'[d].status = rec[d].status]_vars
  BY StatusStep DEF OrderlyNext
<1> QED BY <1>1, ExclusiveHolds, PTL DEF OrderlySpec, SettledIsFinal
=============================================================================
